--------------------- MODULE ReleaseListContents_proofs ---------------------
(***************************************************************************)
(* What the lists of ReleaseLists hold.  A success of the proxy backend is *)
(* the whole list GitHub's answer stands for, wherever the body was cut    *)
(* off; whatever lines get lost, no file is shown under another release;   *)
(* and the list of the native backend is at every moment the beginning of  *)
(* that list.  The assumptions are those of ReleaseLists.                  *)
(***************************************************************************)
EXTENDS ReleaseLists_proofs

(***************************************************************************)
(* The order of the lines.                                                 *)
(***************************************************************************)

\* The releases come in their order, each with its files after it.
Precedes(x, y) == x[1] = "R" => /\ y[1] = "A" => x[2] <= y[2]
                                /\ y[1] = "R" => x[2] < y[2]
Ordered(xs) == \A i, k \in 1 .. Len(xs) : i < k => Precedes(xs[i], xs[k])

\* One ordered sequence after another.
LEMMA OrderedJoin ==
  ASSUME NEW U, NEW xs \in Seq(U), NEW ys \in Seq(U), Ordered(xs), Ordered(ys),
         \A i \in 1 .. Len(xs), k \in 1 .. Len(ys) : Precedes(xs[i], ys[k])
  PROVE  Ordered(xs \o ys)
<1> DEFINE n == Len(xs)
           m == Len(ys)
           zs == xs \o ys
<1>1. /\ n \in Nat /\ m \in Nat /\ Len(zs) = n + m
      /\ \A i \in 1 .. n : zs[i] = xs[i]
      /\ \A i \in 1 .. m : zs[n + i] = ys[i]
  OBVIOUS
<1> HIDE DEF zs
<1>2. ASSUME NEW i \in 1 .. Len(zs), NEW k \in 1 .. Len(zs), i < k PROVE Precedes(zs[i], zs[k])
  <2>1. CASE k <= n
    <3>1. i \in 1 .. n /\ k \in 1 .. n
      BY <1>1, <1>2, <2>1
    <3>2. QED
      BY <1>1, <1>2, <3>1 DEF Ordered
  <2>2. CASE i > n
    <3>1. PICK j \in 1 .. m, l \in 1 .. m : i = n + j /\ k = n + l /\ j < l
      <4>1. i - n \in 1 .. m /\ k - n \in 1 .. m /\ i = n + (i - n) /\ k = n + (k - n) /\ i - n < k - n
        BY <1>1, <1>2, <2>2
      <4>2. QED
        BY <4>1
    <3>2. zs[i] = ys[j] /\ zs[k] = ys[l]
      BY <1>1, <3>1
    <3>3. QED
      BY <3>1, <3>2 DEF Ordered
  <2>3. CASE i <= n /\ k > n
    <3>1. PICK l \in 1 .. m : k = n + l
      <4>1. k - n \in 1 .. m /\ k = n + (k - n)
        BY <1>1, <2>3
      <4>2. QED
        BY <4>1
    <3>2. i \in 1 .. n /\ zs[i] = xs[i] /\ zs[k] = ys[l]
      BY <1>1, <2>3, <3>1
    <3>3. QED
      BY <3>1, <3>2
  <2>4. QED
    BY <1>1, <2>1, <2>2, <2>3
<1>3. QED
  BY <1>2 DEF Ordered, zs

\* A line that is not of a release.
Mark(line) == line[1] \notin {"R", "A", "#MORE"}

\* The lines of a release are ordered.
LEMMA PartOrdered ==
  ASSUME NEW r \in Native!Release, NEW k \in Nat
  PROVE  /\ Ordered(Proxy!ReleaseLines(r, k))
         /\ \A i \in 1 .. Len(Proxy!ReleaseLines(r, k)) :
              \/ FirstLine(r, k, Proxy!ReleaseLines(r, k)[i])
              \/ LaterLine(r, k, Proxy!ReleaseLines(r, k)[i])
<1>1. PICK l1, U, xs : /\ Proxy!ReleaseLines(r, k) = <<l1>> \o xs /\ xs \in Seq(U)
                       /\ FirstLine(r, k, l1) /\ \A line \in U : LaterLine(r, k, line)
  BY AboutLines
<1> DEFINE V == U \cup {l1}
           hs == <<l1>>
<1>2. U \subseteq V /\ l1 \in V /\ \A line \in V : FirstLine(r, k, line) \/ LaterLine(r, k, line)
  BY <1>1
<1> HIDE DEF V
<1>3. xs \in Seq(V) /\ hs \in Seq(V) /\ Len(hs) = 1 /\ hs[1] = l1
  BY <1>1, <1>2, SeqMonotonic
<1> HIDE DEF hs
<1>4. Ordered(hs)
  BY <1>3 DEF Ordered
<1>5. \A i \in 1 .. Len(xs) : xs[i][1] # "R" /\ xs[i][2] = k
  BY <1>1 DEF LaterLine
<1>6. Ordered(xs)
  BY <1>5 DEF Ordered, Precedes
<1>7. \A i \in 1 .. Len(hs) : hs[i] = l1
  BY <1>3
<1>8. \A i \in 1 .. Len(hs), j \in 1 .. Len(xs) : Precedes(hs[i], xs[j])
  BY <1>1, <1>5, <1>7 DEF Precedes, FirstLine
<1>9. Ordered(hs \o xs)
  BY <1>3, <1>4, <1>6, <1>8, OrderedJoin
<1>10. hs \o xs \in Seq(V)
  BY <1>3
<1>11. \A i \in 1 .. Len(hs \o xs) : (hs \o xs)[i] \in V
  BY <1>10
<1>12. hs \o xs = Proxy!ReleaseLines(r, k)
  BY <1>1 DEF hs
<1>13. QED
  BY <1>2, <1>9, <1>11, <1>12

\* A line of one of the first n releases.
Below(line, n) == ~Mark(line) => line[2] \in Nat /\ line[2] < n

\* The lines of all releases are ordered.
LEMMA PartsOrdered ==
  ASSUME NEW a \in Answers, NEW shown, shown = Proxy!Published(a), NEW S,
         Parts(shown) \in Seq(Seq(S)), Len(Parts(shown)) = Len(shown)
  PROVE  Ordered(FlattenSeq(Parts(shown)))
<1> DEFINE N == Len(shown)
           P == Parts(shown)
<1>1. N \in Nat /\ \A i \in 1 .. N : shown[i] \in Native!Release
  BY Sending
<1>2. \A i \in 1 .. N : P[i] = Proxy!ReleaseLines(shown[i], i - 1)
  BY DEF Parts
<1>3. P \in Seq(Seq(S)) /\ N = Len(P) /\ \A i \in 1 .. N : P[i] \in Seq(S)
  <2> HIDE DEF P
  <2>1. P \in Seq(Seq(S)) /\ N = Len(P)
    BY DEF P
  <2>2. QED
    BY <2>1
<1> HIDE DEF N, P
<1>4. PICK c \in [0 .. N -> Seq(S)] : Flattens(c, P, N)
  BY <1>3, Flattening
<1> DEFINE Q(n) == Ordered(c[n]) /\ \A i \in 1 .. Len(c[n]) : Below(c[n][i], n)
           T == {n \in Nat : n <= N => Q(n)}
<1>5. 0 \in T
  <2>1. c[0] = <<>> /\ Len(<<>>) = 0
    BY <1>4 DEF Flattens
  <2>2. Ordered(c[0]) /\ \A i \in 1 .. Len(c[0]) : Below(c[0][i], 0)
    BY <2>1 DEF Ordered
  <2>3. QED
    BY <2>2
<1>6. ASSUME NEW n \in T PROVE n + 1 \in T
  <2>1. n \in Nat
    OBVIOUS
  <2>2. ASSUME n + 1 <= N PROVE Q(n + 1)
    <3>1. PICK m \in 1 .. N : m = n + 1 /\ m - 1 = n
      BY <1>1, <2>1, <2>2
    <3>2. n <= N /\ n \in 0 .. N
      BY <1>1, <2>1, <2>2
    <3>3. Q(n) /\ c[n] \in Seq(S)
      BY <1>4, <3>2
    <3>4. c[m] = c[n] \o P[m] /\ P[m] = Proxy!ReleaseLines(shown[m], n) /\ P[m] \in Seq(S)
      BY <1>2, <1>3, <1>4, <3>1 DEF Flattens
    <3>5. PICK xs \in Seq(S), ys \in Seq(S) : xs = c[n] /\ ys = P[m]
      BY <3>3, <3>4
    <3>6. PICK r \in Native!Release : r = shown[m]
      BY <1>1
    <3>7. Ordered(ys) /\ \A i \in 1 .. Len(ys) : FirstLine(r, n, ys[i]) \/ LaterLine(r, n, ys[i])
      BY <2>1, <3>4, <3>5, <3>6, PartOrdered
    <3>8. \A i \in 1 .. Len(ys) : ys[i][2] = n
      BY <3>7 DEF FirstLine, LaterLine
    <3>9. Ordered(xs) /\ \A i \in 1 .. Len(xs) : Below(xs[i], n)
      BY <3>3, <3>5
    <3>10. \A i \in 1 .. Len(xs), k \in 1 .. Len(ys) : Precedes(xs[i], ys[k])
      BY <2>1, <3>8, <3>9 DEF Precedes, Below, Mark
    <3>11. Ordered(xs \o ys)
      BY <3>7, <3>9, <3>10, OrderedJoin
    <3>12. ASSUME NEW i \in 1 .. Len(xs \o ys) PROVE Below((xs \o ys)[i], m)
      <4>1. CASE i <= Len(xs)
        <5>1. (xs \o ys)[i] = xs[i] /\ i \in 1 .. Len(xs)
          BY <4>1
        <5>2. QED
          BY <2>1, <3>1, <3>9, <5>1 DEF Below
      <4>2. CASE i > Len(xs)
        <5>1. (xs \o ys)[i] = ys[i - Len(xs)] /\ i - Len(xs) \in 1 .. Len(ys)
          BY <4>2
        <5>2. QED
          BY <2>1, <3>1, <3>8, <5>1 DEF Below
      <4>3. QED
        BY <4>1, <4>2
    <3>13. c[m] = xs \o ys
      BY <3>4, <3>5
    <3>14. Q(m)
      BY <3>11, <3>12, <3>13
    <3> HIDE DEF Q
    <3>15. QED
      BY <3>1, <3>14
  <2> HIDE DEF Q
  <2>3. QED
    BY <2>1, <2>2
<1>7. N \in T
  <2> HIDE DEF T
  <2>1. T \subseteq Nat
    BY DEF T
  <2>2. QED
    BY <1>1, <1>5, <1>6, <2>1, Induction
<1>8. Ordered(c[N])
  BY <1>1, <1>7
<1>9. FlattenSeq(P) = c[N]
  BY <1>4 DEF Flattens
<1>10. QED
  BY <1>8, <1>9 DEF P

(***************************************************************************)
(* The body of a list.                                                     *)
(***************************************************************************)

\* The end is the last line and has no other field.
EndsOnce(xs) == \A i \in 1 .. Len(xs) : xs[i][1] = "#END" => i = Len(xs) /\ Len(xs[i]) = 1

\* What lines that are left of a list are like.
ListLines(shown, xs) == /\ Native!IsSeq(xs) /\ Ordered(xs) /\ EndsOnce(xs)
                        /\ \A i \in 1 .. Len(xs) : Says(shown, xs[i]) \/ Mark(xs[i])

\* The list that is expected, with the paths as they fit.
LEMMA ExpectedReleases ==
  ASSUME NEW a \in Answers
  PROVE  LET shown == Proxy!Published(a) IN
         FirstReleases(shown, Len(shown)) = Proxy!Listed(Proxy!ExpectedList(a))
<1> DEFINE shown == Proxy!Published(a)
           N == Len(shown)
           n == AtMost(N, MaxReleases)
           rs == Proxy!ExpectedList(a)
<1>1. /\ N \in Nat /\ MaxReleases \in Nat /\ n \in Nat /\ n <= N
      /\ n = IF N < MaxReleases THEN N ELSE MaxReleases
      /\ \A i \in 1 .. N : shown[i] \in Native!Release
  BY Sending, ChoiceAssumption DEF AtMost
<1>2. rs = [i \in 1 .. n |-> Proxy!Expected(shown[i])]
  BY <1>1 DEF Proxy!ExpectedList
<1> HIDE DEF rs, n, N, shown
<1>3. Len(rs) = n /\ \A i \in 1 .. n : rs[i] = Proxy!Expected(shown[i])
  BY <1>1, <1>2
<1>4. \A i \in 1 .. n : Shown(shown[i]) = [rs[i] EXCEPT !.files = [k \in 1 .. Len(@) |-> Proxy!Fitted(@[k])]]
  BY <1>1, <1>3, ExpectedShown
<1>5. [i \in 1 .. n |-> Shown(shown[i])] =
        [i \in 1 .. n |-> [rs[i] EXCEPT !.files = [k \in 1 .. Len(@) |-> Proxy!Fitted(@[k])]]]
  BY <1>4
<1>6. QED
  BY <1>3, <1>5 DEF FirstReleases, Proxy!Listed, rs, n, N, shown

\* A sequence of marks.
LEMMA MarksOnly ==
  ASSUME NEW U, \A line \in U : Mark(line), NEW xs \in Seq(U)
  PROVE  /\ Ordered(xs) /\ \A i \in 1 .. Len(xs) : Mark(xs[i])
         /\ \A list : Runs("proxy", list, xs, list)
<1>1. \A i \in 1 .. Len(xs) : Mark(xs[i])
  OBVIOUS
<1>2. Ordered(xs)
  BY <1>1 DEF Ordered, Precedes, Mark
<1>3. ASSUME NEW list PROVE Runs("proxy", list, xs, list)
  <2>1. \A i \in 1 .. Len(xs) : After("proxy", list, xs[i]) = list
    BY <1>1, LineEffects DEF After, Mark
  <2>2. QED
    BY <2>1, RunsStill
<1>4. QED
  BY <1>1, <1>2, <1>3

\* The body of a list.
LEMMA ListBody ==
  ASSUME NEW a \in Answers
  PROVE  /\ ListLines(Proxy!Published(a), Proxy!BuildReleases(a))
         /\ Runs("proxy", <<>>, Proxy!BuildReleases(a), Proxy!Listed(Proxy!ExpectedList(a)))
<1> DEFINE h1 == <<"#GITFETCH">>
           h2 == <<"#STATUS", "OK">>
           h3 == <<"#REPO", "owner/repo">>
           e  == <<"#END">>
           t  == Proxy!Listed(Proxy!ExpectedList(a))
<1>1. PICK shown : shown = Proxy!Published(a)
  OBVIOUS
<1> DEFINE P == Parts(shown)
           flat == FlattenSeq(P)
           hs == <<h1, h2, h3>>
           es == <<e>>
<1>2. PICK S : /\ P \in Seq(Seq(S)) /\ Len(P) = Len(shown)
               /\ \A line \in S : Says(shown, line)
  BY <1>1, PartsOf
<1>3. flat \in Seq(S) /\ Runs("proxy", <<>>, flat, t)
  <2> HIDE DEF P, t
  <2>1. FirstReleases(shown, Len(shown)) = t
    BY <1>1, ExpectedReleases DEF t
  <2>2. QED
    BY <1>1, <1>2, <2>1, PartsRun DEF P
<1>4. Ordered(flat)
  BY <1>1, <1>2, PartsOrdered
<1>5. Proxy!BuildReleases(a) = (hs \o flat) \o es
  <2>1. P = [i \in 1 .. Len(shown) |-> Proxy!ReleaseLines(shown[i], i - 1)]
    BY DEF Parts
  <2>2. Proxy!FlattenSeq(P) = FlattenSeq(P)
    BY DEF Proxy!FlattenSeq, FlattenSeq
  <2> HIDE DEF P
  <2>3. QED
    BY <1>1, <2>1, <2>2 DEF Proxy!BuildReleases
<1>6. /\ Mark(h1) /\ Mark(h2) /\ Mark(h3) /\ Mark(e)
      /\ h1[1] # "#END" /\ h2[1] # "#END" /\ h3[1] # "#END" /\ Len(e) = 1
  BY DEF Mark
<1> HIDE DEF P, flat, h1, h2, h3, e, t
<1> DEFINE H == {h1, h2, h3}
<1>7. hs \in Seq(H) /\ es \in Seq({e}) /\ Len(es) = 1 /\ es[1] = e
  OBVIOUS
<1> HIDE DEF hs, es
<1>8. (\A line \in H : Mark(line) /\ line[1] # "#END") /\ \A line \in {e} : Mark(line)
  BY <1>6
<1> DEFINE U == S \cup H \cup {e}
<1>9. H \subseteq U /\ {e} \subseteq U /\ S \subseteq U
  OBVIOUS
<1>10. \A line \in U : Says(shown, line) \/ Mark(line)
  BY <1>2, <1>8
<1>11. \A line \in S : line[1] # "#END" /\ ~Mark(line) /\ line[1] # "#GITFETCH"
  BY <1>2 DEF Says, FirstLine, LaterLine, Mark
<1>12. \A line \in S \cup H : line[1] # "#END"
  BY <1>8, <1>11
<1> HIDE DEF U, H
<1>13. hs \in Seq(U) /\ es \in Seq(U) /\ flat \in Seq(U)
  BY <1>3, <1>7, <1>9, SeqMonotonic
<1> DEFINE ys == hs \o flat
           zs == ys \o es
<1>14. /\ Ordered(hs) /\ Ordered(es) /\ Runs("proxy", <<>>, hs, <<>>) /\ Runs("proxy", t, es, t)
       /\ \A i \in 1 .. Len(hs) : Mark(hs[i])
       /\ \A i \in 1 .. Len(es) : Mark(es[i])
  BY <1>7, <1>8, MarksOnly
<1>15. ys \in Seq(U) /\ Ordered(ys) /\ Runs("proxy", <<>>, ys, t)
  <2>1. ys \in Seq(U)
    BY <1>13
  <2>2. Runs("proxy", <<>>, ys, t)
    BY <1>3, <1>13, <1>14, RunsJoin
  <2>3. \A i \in 1 .. Len(hs), k \in 1 .. Len(flat) : Precedes(hs[i], flat[k])
    BY <1>14 DEF Precedes, Mark
  <2>4. Ordered(ys)
    BY <1>4, <1>13, <1>14, <2>3, OrderedJoin
  <2>5. QED
    BY <2>1, <2>2, <2>4
<1>16. hs \in Seq(S \cup H) /\ flat \in Seq(S \cup H)
  <2>1. H \subseteq S \cup H /\ S \subseteq S \cup H
    OBVIOUS
  <2> DEFINE W == S \cup H
  <2> HIDE DEF W
  <2>2. H \subseteq W /\ S \subseteq W
    BY <2>1 DEF W
  <2>3. hs \in Seq(W) /\ flat \in Seq(W)
    BY <1>3, <1>7, <2>2, SeqMonotonic
  <2>4. QED
    BY <2>3 DEF W
<1>17. ys \in Seq(S \cup H)
  BY <1>16
<1>18. \A i \in 1 .. Len(ys) : ys[i][1] # "#END"
  BY <1>12, <1>17
<1> HIDE DEF ys
<1>19. /\ zs \in Seq(U) /\ Len(zs) = Len(ys) + 1 /\ Len(ys) \in Nat
       /\ \A i \in 1 .. Len(ys) : zs[i] = ys[i]
       /\ zs[Len(ys) + 1] = e
  <2>1. zs \in Seq(U)
    BY <1>13, <1>15
  <2>2. Native!IsSeq(ys) /\ Len(ys) \in Nat
    BY <1>15, InSeq
  <2>3. zs = ys \o <<e>>
    BY DEF es
  <2> HIDE DEF zs
  <2>4. QED
    BY <2>1, <2>2, <2>3, OneMore
<1>20. Runs("proxy", <<>>, zs, t)
  BY <1>13, <1>14, <1>15, RunsJoin
<1>21. Ordered(zs)
  <2>1. \A i \in 1 .. Len(ys), k \in 1 .. Len(es) : Precedes(ys[i], es[k])
    BY <1>14 DEF Precedes, Mark
  <2>2. QED
    BY <1>13, <1>14, <1>15, <2>1, OrderedJoin
<1> HIDE DEF zs
<1>22. EndsOnce(zs)
  BY <1>6, <1>18, <1>19 DEF EndsOnce
<1>23. \A i \in 1 .. Len(zs) : Says(shown, zs[i]) \/ Mark(zs[i])
  BY <1>10, <1>19
<1>24. Native!IsSeq(zs)
  BY <1>19, InSeq
<1>25. zs = Proxy!BuildReleases(a)
  BY <1>5 DEF zs, ys
<1>26. ListLines(shown, zs)
  BY <1>21, <1>22, <1>23, <1>24 DEF ListLines
<1>27. QED
  BY <1>1, <1>20, <1>25, <1>26 DEF t

\* A line that got too long, and what xs is with it in place of line i.
LongLine == <<"(too long)">>
TooLong(xs, i) == [k \in 1 .. Len(xs) |-> IF k = i THEN LongLine ELSE xs[k]]

\* It does not disturb the lines of a list.
LEMMA LinesLost ==
  ASSUME NEW shown, NEW xs, NEW i, NEW ys, ListLines(shown, xs), ys = TooLong(xs, i)
  PROVE  ListLines(shown, ys)
<1>1. Mark(LongLine) /\ LongLine[1] # "R" /\ LongLine[1] # "#END"
  BY DEF Mark, LongLine
<1>2. xs \in Seq(ToSet(xs)) /\ Len(xs) \in Nat
  BY DEF ListLines, Native!IsSeq, Native!ToSet, ToSet
<1>3. ys = [k \in 1 .. Len(xs) |-> IF k = i THEN LongLine ELSE xs[k]]
  BY DEF TooLong
<1>4. /\ Len(ys) = Len(xs) /\ ys \in Seq(ToSet(xs) \cup {LongLine})
      /\ \A k \in 1 .. Len(xs) : ys[k] = LongLine \/ ys[k] = xs[k]
  BY <1>2, <1>3
<1>5. Ordered(ys)
  <2>1. \A k, j \in 1 .. Len(ys) : Precedes(xs[k], xs[j]) => Precedes(ys[k], ys[j])
    BY <1>1, <1>4 DEF Precedes, Mark
  <2>2. QED
    BY <1>4, <2>1 DEF Ordered, ListLines
<1>6. EndsOnce(ys)
  BY <1>1, <1>4 DEF EndsOnce, ListLines
<1>7. Native!IsSeq(ys)
  BY <1>4, InSeq
<1>8. QED
  BY <1>1, <1>4, <1>5, <1>6, <1>7 DEF ListLines

\* What is left when the first line was handled.
LEMMA LinesLeft ==
  ASSUME NEW shown, NEW xs, ListLines(shown, xs)
  PROVE  xs # <<>> => ListLines(shown, Tail(xs))
<1>1. xs \in Seq(ToSet(xs)) /\ Len(xs) \in Nat
  BY DEF ListLines, Native!IsSeq, Native!ToSet, ToSet
<1>2. ASSUME xs # <<>> PROVE ListLines(shown, Tail(xs))
  <2> DEFINE ys == Tail(xs)
  <2>1. /\ ys \in Seq(ToSet(xs)) /\ Len(ys) = Len(xs) - 1 /\ Len(xs) \in Nat \ {0}
        /\ \A k \in 1 .. Len(ys) : ys[k] = xs[k + 1] /\ k + 1 \in 1 .. Len(xs)
    BY <1>1, <1>2
  <2> HIDE DEF ys
  <2>2. Ordered(ys)
    <3>1. ASSUME NEW k \in 1 .. Len(ys), NEW j \in 1 .. Len(ys), k < j PROVE Precedes(ys[k], ys[j])
      <4>1. k + 1 < j + 1
        BY <2>1, <3>1
      <4>2. QED
        BY <2>1, <4>1 DEF ListLines, Ordered
    <3>2. QED
      BY <3>1 DEF Ordered
  <2>3. EndsOnce(ys)
    <3>1. ASSUME NEW k \in 1 .. Len(ys), ys[k][1] = "#END" PROVE k = Len(ys) /\ Len(ys[k]) = 1
      <4>1. k + 1 = Len(xs) /\ Len(xs[k + 1]) = 1
        BY <2>1, <3>1 DEF ListLines, EndsOnce
      <4>2. QED
        BY <2>1, <4>1
    <3>2. QED
      BY <3>1 DEF EndsOnce
  <2>4. Native!IsSeq(ys)
    BY <2>1, InSeq
  <2>5. QED
    BY <2>1, <2>2, <2>3, <2>4 DEF ListLines, ys
<1>3. QED
  BY <1>2

(***************************************************************************)
(* Every file is a file of the release it is shown under.                  *)
(***************************************************************************)

\* An entry of the list for release x of those that were sent: its tag, and no
\* file that is not of that release.
EntryOf(shown, x, e) ==
  \E j \in 1 .. Len(shown) :
    /\ x = j - 1 /\ {"tag", "files"} \subseteq DOMAIN e /\ Native!IsSeq(e.files)
    /\ e.tag = shown[j].tag /\ ToSet(e.files) \subseteq ToSet(ShownFiles(shown[j]))
AllBelong(shown, list) == \A i \in 1 .. Len(list) : \E x \in Nat : EntryOf(shown, x, list[i])

\* The lines that are left come after release x, or are its files.
Beyond(xs, x) == \A i \in 1 .. Len(xs) : /\ xs[i][1] = "A" => x <= xs[i][2]
                                         /\ xs[i][1] = "R" => x < xs[i][2]

\* A list that was read in part: where releases got lost, the last one has a
\* number that is higher than its place.
Filed(shown, list, xs) ==
  /\ Native!IsSeq(list) /\ AllBelong(shown, list)
  /\ Len(list) # 0 => \E x \in Nat : /\ Len(list) <= x + 1 /\ Beyond(xs, x)
                                     /\ EntryOf(shown, x, list[Len(list)])

\* The lines that are left after the first.
LEMMA BeyondRest ==
  ASSUME NEW xs, Native!IsSeq(xs), xs # <<>>, NEW x, Beyond(xs, x)
  PROVE  Beyond(Tail(xs), x)
<1>1. xs \in Seq(ToSet(xs))
  BY DEF Native!IsSeq, Native!ToSet, ToSet
<1>2. /\ Len(Tail(xs)) = Len(xs) - 1 /\ Len(xs) \in Nat \ {0}
      /\ \A k \in 1 .. Len(xs) - 1 : Tail(xs)[k] = xs[k + 1] /\ k + 1 \in 1 .. Len(xs)
  BY <1>1
<1>3. QED
  BY <1>2 DEF Beyond

\* After the first line of a release.
LEMMA BeyondFirst ==
  ASSUME NEW xs, Native!IsSeq(xs), xs # <<>>, Ordered(xs), Head(xs)[1] = "R"
  PROVE  Beyond(Tail(xs), Head(xs)[2])
<1>1. xs \in Seq(ToSet(xs))
  BY DEF Native!IsSeq, Native!ToSet, ToSet
<1>2. /\ Len(Tail(xs)) = Len(xs) - 1 /\ Len(xs) \in Nat \ {0} /\ Head(xs) = xs[1]
      /\ \A k \in 1 .. Len(xs) - 1 : Tail(xs)[k] = xs[k + 1] /\ k + 1 \in 1 .. Len(xs) /\ 1 < k + 1
      /\ 1 \in 1 .. Len(xs)
  BY <1>1
<1>3. \A k \in 1 .. Len(xs) - 1 : Precedes(xs[1], xs[k + 1])
  BY <1>2 DEF Ordered
<1>4. QED
  BY <1>2, <1>3 DEF Beyond, Precedes

\* A line that changes nothing.
LEMMA FiledStill ==
  ASSUME NEW shown, NEW list, NEW xs, Native!IsSeq(xs), xs # <<>>, Filed(shown, list, xs)
  PROVE  Filed(shown, list, Tail(xs))
BY BeyondRest DEF Filed

\* Another release.
LEMMA FiledRelease ==
  ASSUME NEW shown, NEW list, NEW xs, ListLines(shown, xs), xs # <<>>, Filed(shown, list, xs),
         NEW k \in Nat, Head(xs)[1] = "R", Head(xs)[2] = k, NEW e, EntryOf(shown, k, e)
  PROVE  Filed(shown, Append(list, e), Tail(xs))
<1> DEFINE l == Append(list, e)
<1>1. /\ Native!IsSeq(l) /\ Len(l) = Len(list) + 1 /\ Len(list) \in Nat
      /\ \A i \in 1 .. Len(list) : l[i] = list[i]
      /\ l[Len(list) + 1] = e
  BY AppendSeq DEF Filed
<1> HIDE DEF l
<1>2. Beyond(Tail(xs), k)
  BY BeyondFirst DEF ListLines
<1>3. Len(l) <= k + 1
  <2>1. CASE Len(list) = 0
    BY <1>1, <2>1
  <2>2. CASE Len(list) # 0
    <3>1. PICK x \in Nat : Len(list) <= x + 1 /\ Beyond(xs, x)
      BY <2>2 DEF Filed
    <3>2. xs \in Seq(ToSet(xs))
      BY DEF ListLines, Native!IsSeq, Native!ToSet, ToSet
    <3>3. 1 \in 1 .. Len(xs) /\ xs[1] = Head(xs)
      BY <3>2
    <3>4. x < k
      BY <3>1, <3>3 DEF Beyond
    <3>5. QED
      BY <1>1, <3>1, <3>4
  <2>3. QED
    BY <2>1, <2>2
<1>4. AllBelong(shown, l)
  <2>1. ASSUME NEW i \in 1 .. Len(l) PROVE \E x \in Nat : EntryOf(shown, x, l[i])
    <3>1. i \in 1 .. Len(list) \/ i = Len(list) + 1
      BY <1>1
    <3>2. QED
      BY <1>1, <3>1 DEF Filed, AllBelong
  <2>2. QED
    BY <2>1 DEF AllBelong
<1>5. QED
  BY <1>1, <1>2, <1>3, <1>4 DEF Filed, l

\* The last release is changed.
LEMMA Changed ==
  ASSUME NEW list, Native!IsSeq(list), Len(list) # 0, NEW e
  PROVE  LET l == [list EXCEPT ![Len(list)] = e] IN
         /\ Native!IsSeq(l) /\ Len(l) = Len(list) /\ Len(list) \in Nat /\ Len(list) \in 1 .. Len(list)
         /\ l[Len(list)] = e
         /\ \A i \in 1 .. Len(list) : i # Len(list) => l[i] = list[i]
<1> DEFINE S == ToSet(list) \cup {e}
           l == [list EXCEPT ![Len(list)] = e]
<1>1. list \in Seq(ToSet(list)) /\ ToSet(list) \subseteq S /\ e \in S
  BY DEF Native!IsSeq, Native!ToSet, ToSet
<1> HIDE DEF S
<1>2. list \in Seq(S)
  BY <1>1, SeqMonotonic
<1>3. Len(list) \in Nat /\ Len(list) \in 1 .. Len(list)
  BY <1>2
<1>4. l \in Seq(S) /\ Len(l) = Len(list) /\ l[Len(list)] = e
      /\ \A i \in 1 .. Len(list) : i # Len(list) => l[i] = list[i]
  BY <1>1, <1>2, <1>3
<1> HIDE DEF l
<1>5. Native!IsSeq(l)
  BY <1>4, InSeq
<1>6. QED
  BY <1>3, <1>4, <1>5 DEF l

\* A change of the last release that leaves it what it is.
LEMMA FiledChange ==
  ASSUME NEW shown, NEW list, NEW xs, Native!IsSeq(xs), xs # <<>>, Filed(shown, list, xs),
         Len(list) # 0, NEW e, \A x \in Nat : EntryOf(shown, x, list[Len(list)]) /\ Beyond(xs, x)
                                                /\ Len(list) <= x + 1 => EntryOf(shown, x, e)
  PROVE  Filed(shown, [list EXCEPT ![Len(list)] = e], Tail(xs))
<1> DEFINE l == [list EXCEPT ![Len(list)] = e]
<1>1. /\ Native!IsSeq(l) /\ Len(l) = Len(list) /\ Len(list) \in Nat /\ Len(list) \in 1 .. Len(list)
      /\ l[Len(list)] = e
      /\ \A i \in 1 .. Len(list) : i # Len(list) => l[i] = list[i]
  BY Changed DEF Filed
<1> HIDE DEF l
<1>2. PICK x \in Nat : /\ Len(list) <= x + 1 /\ Beyond(xs, x)
                       /\ EntryOf(shown, x, list[Len(list)])
  BY DEF Filed
<1>3. EntryOf(shown, x, e) /\ Beyond(Tail(xs), x)
  BY <1>2, BeyondRest
<1>4. AllBelong(shown, l)
  BY <1>1, <1>3 DEF AllBelong, Filed
<1>5. QED
  BY <1>1, <1>2, <1>3, <1>4 DEF Filed, l

\* Whatever lines got lost, the next one leaves every file with its release
\* (handle_asset, parse.c 99-107).
LEMMA FiledStep ==
  ASSUME NEW shown, NEW list, NEW xs, ListLines(shown, xs), xs # <<>>, Filed(shown, list, xs)
  PROVE  Filed(shown, ListAfter(list, Head(xs)), Tail(xs))
<1> DEFINE line == Head(xs)
<1>1. /\ Native!IsSeq(xs) /\ 1 \in 1 .. Len(xs) /\ xs[1] = line
  <2>1. Native!IsSeq(xs)
    BY DEF ListLines
  <2>2. xs \in Seq(ToSet(xs))
    BY <2>1 DEF Native!IsSeq, Native!ToSet, ToSet
  <2>3. QED
    BY <2>1, <2>2
<1> HIDE DEF line
<1>2. Says(shown, line) \/ Mark(line)
  BY <1>1 DEF ListLines
<1>3. Filed(shown, list, Tail(xs))
  BY <1>1, FiledStill
<1>4. CASE Mark(line)
  BY <1>3, <1>4, LineEffects DEF Mark, line
<1>5. CASE Says(shown, line)
  <2>1. PICK j \in 1 .. Len(shown), k \in Nat :
          k = j - 1 /\ (FirstLine(shown[j], k, line) \/ LaterLine(shown[j], k, line))
    BY <1>5 DEF Says
  <2>2. CASE FirstLine(shown[j], k, line)
    <3>1. line[1] = "R" /\ Len(line) = 6 /\ line[2] = k /\ line[3] = shown[j].tag
      BY <2>2 DEF FirstLine
    <3> DEFINE e == [tag |-> Proxy!NextField(line, 3), date |-> Proxy!Copy(Proxy!NextField(line, 4)),
                     prerelease |-> Proxy!NextField(line, 5) = "true",
                     title |-> IF Proxy!Copy(Proxy!NextField(line, 6)) = NoText
                               THEN Proxy!NextField(line, 3)
                               ELSE Proxy!Copy(Proxy!NextField(line, 6)),
                     files |-> <<>>, skipped |-> 0]
    <3>2. ListAfter(list, line) \in {list, Append(list, e)}
      BY <3>1, LineEffects
    <3>3. EntryOf(shown, k, e)
      <4>1. Proxy!NextField(line, 3) = shown[j].tag
        BY <3>1 DEF Proxy!NextField
      <4>2. Native!IsSeq(<<>>) /\ ToSet(<<>>) = {}
        BY NoFiles DEF ToSet
      <4>3. {"tag", "files"} \subseteq DOMAIN e /\ e.files = <<>> /\ e.tag = shown[j].tag
        BY <4>1
      <4> HIDE DEF e
      <4>4. QED
        BY <2>1, <4>2, <4>3 DEF EntryOf
    <3> HIDE DEF e
    <3>4. Filed(shown, Append(list, e), Tail(xs))
      BY <3>1, <3>3, FiledRelease DEF line
    <3>5. QED
      BY <1>3, <3>2, <3>4 DEF line
  <2>3. CASE LaterLine(shown[j], k, line) /\ line[1] = "A"
    <3>1. line[2] = k /\ Len(line) = 6 /\ FileOn(line) \in ToSet(ShownFiles(shown[j]))
      BY <2>3 DEF LaterLine
    <3>2. /\ Proxy!NextField(line, 4) = line[4] /\ Proxy!NextField(line, 5) = line[5]
          /\ Proxy!NextField(line, 6) = line[6]
      BY <3>1 DEF Proxy!NextField
    <3> DEFINE f == FileOn(line)
               n == Len(list)
               e == [list[n] EXCEPT !.files = Append(list[n].files, f)]
    <3>3. \/ ListAfter(list, line) = list
          \/ /\ n # 0 /\ line[2] = n - 1
             /\ ListAfter(list, line) = [list EXCEPT ![n].files = Append(@, f)]
      BY <2>3, <3>2, LineEffects DEF FileOn
    <3>4. CASE ListAfter(list, line) = list
      BY <1>3, <3>4 DEF line
    <3>5. CASE /\ n # 0 /\ line[2] = n - 1
               /\ ListAfter(list, line) = [list EXCEPT ![n].files = Append(@, f)]
      <4>1. n \in Nat
        BY LastOne DEF Filed
      <4> HIDE DEF n, f
      <4>2. ListAfter(list, line) = [list EXCEPT ![n] = e]
        BY <3>5
      <4>3. ASSUME NEW x \in Nat, EntryOf(shown, x, list[n]), Beyond(xs, x), n <= x + 1
            PROVE  EntryOf(shown, x, e)
        <5>1. x <= k
          BY <1>1, <2>3, <3>1, <4>3 DEF Beyond
        <5>2. x = k
          BY <3>1, <3>5, <4>1, <4>3, <5>1
        <5>3. PICK q \in 1 .. Len(shown) :
                /\ x = q - 1 /\ {"tag", "files"} \subseteq DOMAIN list[n] /\ Native!IsSeq(list[n].files)
                /\ list[n].tag = shown[q].tag
                /\ ToSet(list[n].files) \subseteq ToSet(ShownFiles(shown[q]))
          BY <4>3 DEF EntryOf
        <5>4. q = j
          BY <2>1, <5>2, <5>3
        <5>5. f \in ToSet(ShownFiles(shown[j]))
          BY <3>1 DEF f
        <5> DEFINE F == list[n].files
        <5>6. Native!IsSeq(Append(F, f)) /\ ToSet(Append(F, f)) \subseteq ToSet(F) \cup {f}
          <6>1. /\ Native!IsSeq(Append(F, f)) /\ Len(Append(F, f)) = Len(F) + 1 /\ Len(F) \in Nat
                /\ \A i \in 1 .. Len(F) : Append(F, f)[i] = F[i]
                /\ Append(F, f)[Len(F) + 1] = f
            BY <5>3, AppendSeq
          <6>2. DOMAIN Append(F, f) = 1 .. Len(F) + 1 /\ DOMAIN F = 1 .. Len(F)
            BY <5>3, <6>1 DEF Native!IsSeq
          <6>3. \A i \in 1 .. Len(F) + 1 : i \in 1 .. Len(F) \/ i = Len(F) + 1
            BY <6>1
          <6> HIDE DEF F
          <6>4. QED
            BY <6>1, <6>2, <6>3 DEF ToSet
        <5> HIDE DEF F
        <5>7. e.files = Append(F, f) /\ e.tag = list[n].tag /\ {"tag", "files"} \subseteq DOMAIN e
          BY <5>3 DEF F
        <5> HIDE DEF e
        <5>8. QED
          BY <5>3, <5>4, <5>5, <5>6, <5>7 DEF EntryOf, F
      <4> HIDE DEF e
      <4>4. Filed(shown, [list EXCEPT ![n] = e], Tail(xs))
        BY <1>1, <3>5, <4>3, FiledChange DEF n
      <4>5. QED
        BY <4>2, <4>4 DEF line
    <3>6. QED
      BY <3>3, <3>4, <3>5
  <2>4. CASE LaterLine(shown[j], k, line) /\ line[1] = "#MORE"
    <3> DEFINE n == Len(list)
               s == line[3]
               e == [list[n] EXCEPT !.skipped = s]
    <3>1. \/ ListAfter(list, line) = list
          \/ n > 0 /\ ListAfter(list, line) = [list EXCEPT ![n].skipped = s]
      <4>1. Len(line) = 3 /\ ~(Len(line) < 3)
        BY <2>4 DEF LaterLine
      <4>2. ListAfter(list, line) =
              IF Len(line) >= 2 /\ Len(list) > 0 /\ line[2] = Len(list) - 1
              THEN [list EXCEPT ![Len(list)].skipped = IF Len(line) < 3 THEN 0 ELSE line[3]]
              ELSE list
        BY <2>4, LineEffects
      <4>3. CASE Len(line) >= 2 /\ Len(list) > 0 /\ line[2] = Len(list) - 1
        <5>1. ListAfter(list, line) = [list EXCEPT ![Len(list)].skipped = IF Len(line) < 3 THEN 0 ELSE line[3]]
          BY <4>2, <4>3
        <5>2. QED
          BY <4>1, <4>3, <5>1
      <4>4. CASE ~(Len(line) >= 2 /\ Len(list) > 0 /\ line[2] = Len(list) - 1)
        BY <4>2, <4>4
      <4>5. QED
        BY <4>3, <4>4
    <3> HIDE DEF s
    <3>2. CASE ListAfter(list, line) = list
      BY <1>3, <3>2 DEF line
    <3>3. CASE n > 0 /\ ListAfter(list, line) = [list EXCEPT ![n].skipped = s]
      <4>1. n \in Nat
        BY LastOne DEF Filed
      <4> HIDE DEF n
      <4>2. ListAfter(list, line) = [list EXCEPT ![n] = e] /\ n # 0
        BY <3>3, <4>1
      <4>3. ASSUME NEW x \in Nat, EntryOf(shown, x, list[n])
            PROVE  EntryOf(shown, x, e)
        <5>1. {"tag", "files"} \subseteq DOMAIN list[n]
          BY <4>3 DEF EntryOf
        <5>2. e.files = list[n].files /\ e.tag = list[n].tag /\ DOMAIN e = DOMAIN list[n]
          BY <5>1
        <5> HIDE DEF e
        <5>3. QED
          BY <4>3, <5>2 DEF EntryOf
      <4> HIDE DEF e
      <4>4. Filed(shown, [list EXCEPT ![n] = e], Tail(xs))
        BY <1>1, <4>2, <4>3, FiledChange DEF n
      <4>5. QED
        BY <4>2, <4>4 DEF line
    <3>4. QED
      BY <3>1, <3>2, <3>3
  <2>5. QED
    BY <2>1, <2>2, <2>3, <2>4 DEF LaterLine
<1>6. QED
  BY <1>2, <1>4, <1>5

(***************************************************************************)
(* What a success stands for.                                              *)
(***************************************************************************)

\* What is left of a line does not begin as another one, and #END is never cut.
LEMMA CutStart ==
  ASSUME NEW line, Native!IsSeq(line), NEW form \in Proxy!CutForms(line)
  PROVE  \/ form = line
         \/ form[1] \in {"#", Proxy!Part}
         \/ form[1] = line[1] /\ Len(line) # 1
<1>1. CASE form = line
  BY <1>1
<1>2. CASE \E k \in 1 .. Len(line) : \E f \in Proxy!CutField(line, k) :
             form = Append(SubSeq(line, 1, k - 1), f)
  <2>1. PICK k \in 1 .. Len(line) : \E f \in Proxy!CutField(line, k) :
               form = Append(SubSeq(line, 1, k - 1), f)
    BY <1>2
  <2>2. PICK f \in Proxy!CutField(line, k) : form = Append(SubSeq(line, 1, k - 1), f)
    BY <2>1
  <2>3. line \in Seq(ToSet(line))
    BY DEF Native!IsSeq, Native!ToSet, ToSet
  <2>4. CASE k = 1
    <3>1. SubSeq(line, 1, k - 1) = <<>>
      BY <2>3, <2>4
    <3>2. form[1] = f
      BY <2>2, <3>1
    <3>3. f \in {"#", Proxy!Part}
      BY <2>2, <2>4 DEF Proxy!CutField
    <3>4. QED
      BY <3>2, <3>3
  <2>5. CASE k # 1
    <3> DEFINE g == SubSeq(line, 1, k - 1)
    <3>1. g \in Seq(ToSet(line)) /\ Len(g) = k - 1 /\ g[1] = line[1]
      <4>1. k - 1 \in 1 .. Len(line) /\ \A i \in 1 .. Len(line) : line[i] \in ToSet(line)
        BY <2>3, <2>5
      <4>2. QED
        BY <2>3, <4>1
    <3> HIDE DEF g
    <3>2. Len(g) # 0 /\ Len(g) \in Nat /\ Len(line) # 1
      BY <2>3, <2>5, <3>1
    <3>3. Append(g, f)[1] = g[1]
      BY <3>1, <3>2, AppendSeq, InSeq
    <3>4. QED
      BY <2>2, <3>1, <3>2, <3>3 DEF g
  <2>6. QED
    BY <2>4, <2>5
<1>3. QED
  BY <1>1, <1>2 DEF Proxy!CutForms

\* The steps of the proxy backend: a line, an end within a line or not, and
\* nothing or a failure.
LEMMA ProxySteps ==
  ASSUME Proxy!Next
  PROVE  /\ sent' = sent /\ damaged' = damaged
         /\ \/ /\ result = NoText /\ result' = NoText /\ lines # <<>> /\ lines' = Tail(lines)
               /\ parser' = Proxy!HandleLine(parser, Head(lines))
            \/ /\ result = NoText /\ lines' = lines /\ result' = Proxy!FinishCode(parser')
               /\ \/ parser' = parser
                  \/ lines # <<>> /\ \E form \in Proxy!CutForms(Head(lines)) :
                                       parser' = Proxy!HandleLine(parser, form)
            \/ lines' = lines /\ parser' = parser /\ result' \in {result, "NET"}
<1>1. CASE Proxy!Feed
  BY <1>1, NoTexts DEF Proxy!Feed
<1>2. CASE Proxy!End
  BY <1>2, NoTexts DEF Proxy!End, Proxy!Finished
<1>3. CASE Proxy!Fail
  BY <1>3, NoTexts DEF Proxy!Fail
<1>4. CASE Proxy!Stopped
  BY <1>4 DEF Proxy!Stopped, Proxy!vars
<1>5. QED
  BY <1>1, <1>2, <1>3, <1>4 DEF Proxy!Next

\* What a success stands for.
LEMMA FinishCodes ==
  ASSUME NEW q
  PROVE  /\ Proxy!FinishCode(q) # NoText /\ "NET" # NoText /\ "OK" # NoText
         /\ Proxy!FinishCode(q) = "OK" => q.sawHeader /\ q.status = "0" /\ q.sawEnd
BY DEF Proxy!FinishCode, NoText

\* A list: every file belongs to its release; undamaged, the lines that are left
\* lead to the whole list.
ListKind ==
  sent.kind = "list" =>
    LET shown == Proxy!Published(sent.of)
        whole == Proxy!Listed(Proxy!ExpectedList(sent.of))
    IN /\ result = NoText => /\ ListLines(shown, lines) /\ Filed(shown, parser.list, lines)
                             /\ parser.sawEnd => lines = <<>>
                             /\ ~damaged => Runs("proxy", parser.list, lines, whole)
       /\ result = "OK" => /\ AllBelong(shown, parser.list)
                           /\ ~damaged => parser.list = whole

\* An error, or something else: never a success.
ErrorKind ==
  sent.kind = "error" /\ ~damaged =>
    /\ result # "OK"
    /\ result = NoText =>
         \/ ~parser.sawEnd /\ lines = Proxy!BuildError(sent.of)
         \/ ~parser.sawEnd /\ lines = Tail(Proxy!BuildError(sent.of))
         \/ parser.status # "0" /\ lines \in Seq({<<"#END">>})
OtherKind ==
  sent.kind = "other" =>
    /\ result # "OK"
    /\ result = NoText => ~parser.sawHeader /\ lines \in Seq({<<"<html>">>, <<"(too long)">>})

\* A list, step by step.
LEMMA ListKindStep ==
  ASSUME ProxyShape, ListKind, Proxy!Next
  PROVE  ListKind'
<1> DEFINE shown == Proxy!Published(sent.of)
           whole == Proxy!Listed(Proxy!ExpectedList(sent.of))
<1>1. SUFFICES ASSUME sent.kind = "list"
      PROVE  /\ result' = NoText => /\ ListLines(shown, lines') /\ Filed(shown, parser'.list, lines')
                                    /\ parser'.sawEnd => lines' = <<>>
                                    /\ ~damaged => Runs("proxy", parser'.list, lines', whole)
             /\ result' = "OK" => /\ AllBelong(shown, parser'.list)
                                  /\ ~damaged => parser'.list = whole
  BY ProxySteps DEF ListKind
<1> HIDE DEF shown, whole
<1>2. /\ result = NoText => /\ ListLines(shown, lines) /\ Filed(shown, parser.list, lines)
                            /\ parser.sawEnd => lines = <<>>
                            /\ ~damaged => Runs("proxy", parser.list, lines, whole)
      /\ result = "OK" => /\ AllBelong(shown, parser.list)
                          /\ ~damaged => parser.list = whole
  BY <1>1 DEF ListKind, shown, whole
<1>3. Whole(parser)
  BY DEF ProxyShape
<1>4. ASSUME result = NoText, lines # <<>>
      PROVE  LET line == Head(lines)
                 q    == Proxy!HandleLine(parser, line)
             IN /\ ~parser.sawEnd /\ (q.sawEnd <=> line[1] = "#END")
                /\ ListLines(shown, Tail(lines)) /\ Filed(shown, q.list, Tail(lines))
                /\ line[1] = "#END" => Tail(lines) = <<>> /\ Len(line) = 1
                /\ Native!IsSeq(line)
                /\ ~damaged => Runs("proxy", q.list, Tail(lines), whole)
  <2> DEFINE line == Head(lines)
             q    == Proxy!HandleLine(parser, line)
  <2>1. ListLines(shown, lines) /\ Filed(shown, parser.list, lines) /\ ~parser.sawEnd
    BY <1>2, <1>4
  <2>2. q.list = ListAfter(parser.list, line) /\ (q.sawEnd <=> line[1] = "#END")
    BY <1>3, <2>1, OnlyTheList
  <2>3. lines \in Seq(ToSet(lines))
    BY <2>1 DEF ListLines, Native!IsSeq, Native!ToSet, ToSet
  <2>4. Len(lines) \in Nat \ {0} /\ lines[1] = line /\ 1 \in 1 .. Len(lines)
        /\ Tail(lines) \in Seq(ToSet(lines)) /\ Len(Tail(lines)) = Len(lines) - 1
    BY <1>4, <2>3
  <2>5. ASSUME line[1] = "#END" PROVE Tail(lines) = <<>> /\ Len(line) = 1
    <3>1. Len(lines) = 1 /\ Len(line) = 1
      BY <2>1, <2>4, <2>5 DEF ListLines, EndsOnce
    <3>2. PICK ys \in Seq(ToSet(lines)) : ys = Tail(lines)
      BY <2>4
    <3>3. Len(ys) = 0
      BY <2>4, <3>1, <3>2
    <3>4. ys = <<>>
      BY <3>3, EmptySeq
    <3>5. QED
      BY <3>1, <3>2, <3>4
  <2>6. Native!IsSeq(line)
    <3>1. AllHarmless(lines)
      BY <1>1 DEF ProxyShape
    <3>2. QED
      BY <2>4, <3>1 DEF AllHarmless, Harmless
  <2>7. ASSUME ~damaged PROVE Runs("proxy", q.list, Tail(lines), whole)
    <3>1. Runs("proxy", parser.list, lines, whole)
      BY <1>2, <1>4, <2>7
    <3>2. Runs("proxy", After("proxy", parser.list, Head(lines)), Tail(lines), whole)
      BY <1>4, <2>3, <3>1, RunsRest
    <3>3. QED
      BY <2>2, <3>2 DEF After
  <2>8. ListLines(shown, Tail(lines))
    BY <1>4, <2>1, LinesLeft
  <2>9. Filed(shown, q.list, Tail(lines))
    BY <1>4, <2>1, <2>2, FiledStep
  <2>10. QED
    BY <2>1, <2>2, <2>5, <2>6, <2>7, <2>8, <2>9
<1>5. CASE /\ result = NoText /\ result' = NoText /\ lines # <<>> /\ lines' = Tail(lines)
           /\ parser' = Proxy!HandleLine(parser, Head(lines))
  BY <1>4, <1>5, FinishCodes
<1>6. CASE result = NoText /\ lines' = lines /\ result' = Proxy!FinishCode(parser') /\ parser' = parser
  <2>1. result' # NoText
    BY <1>6, FinishCodes
  <2>2. ASSUME result' = "OK" PROVE AllBelong(shown, parser'.list) /\ (~damaged => parser'.list = whole)
    <3>1. lines = <<>> /\ Filed(shown, parser.list, lines)
      BY <1>2, <1>6, <2>2, FinishCodes
    <3>2. ~damaged => parser.list = whole
      BY <1>2, <1>6, <3>1, RunsNone
    <3>3. QED
      BY <1>6, <3>1, <3>2 DEF Filed
  <2>3. QED
    BY <2>1, <2>2
<1>7. CASE /\ result = NoText /\ lines' = lines /\ result' = Proxy!FinishCode(parser')
           /\ lines # <<>> /\ \E form \in Proxy!CutForms(Head(lines)) :
                                parser' = Proxy!HandleLine(parser, form)
  <2>1. result' # NoText
    BY <1>7, FinishCodes
  <2>2. ASSUME result' = "OK" PROVE AllBelong(shown, parser'.list) /\ (~damaged => parser'.list = whole)
    <3>1. PICK line : line = Head(lines)
      OBVIOUS
    <3>2. PICK form \in Proxy!CutForms(line) : parser' = Proxy!HandleLine(parser, form)
      BY <1>7, <3>1
    <3>3. form[1] = "#END"
      <4>1. parser'.sawEnd
        BY <1>7, <2>2, FinishCodes
      <4>2. ~parser.sawEnd
        BY <1>4, <1>7
      <4>3. QED
        BY <1>3, <3>2, <4>1, <4>2, OnlyTheList
    <3>4. Native!IsSeq(line) /\ (line[1] = "#END" => Len(line) = 1)
      BY <1>4, <1>7, <3>1
    <3>5. form = line
      <4>1. "#END" # "#" /\ "#END" # Proxy!Part
        BY DEF Proxy!Part
      <4>2. QED
        BY <3>3, <3>4, <4>1, CutStart
    <3>6. /\ Filed(shown, parser'.list, Tail(lines)) /\ Tail(lines) = <<>>
          /\ ~damaged => Runs("proxy", parser'.list, Tail(lines), whole)
      BY <1>4, <1>7, <3>1, <3>2, <3>3, <3>5
    <3>7. ASSUME ~damaged PROVE parser'.list = whole
      <4>1. PICK l : l = parser'.list
        OBVIOUS
      <4>2. Runs("proxy", l, <<>>, whole)
        BY <3>6, <3>7, <4>1
      <4>3. QED
        BY <4>1, <4>2, RunsNone
    <3>8. QED
      BY <3>6, <3>7 DEF Filed
  <2>3. QED
    BY <2>1, <2>2
<1>8. CASE lines' = lines /\ parser' = parser /\ result' \in {result, "NET"}
  BY <1>2, <1>8, FinishCodes
<1>9. QED
  BY <1>5, <1>6, <1>7, <1>8, ProxySteps

\* The lines of an error.
LEMMA ErrorLinesOf ==
  ASSUME NEW e
  PROVE  LET l1 == <<"#GITFETCH">>
             l2 == <<"#STATUS", "ERR", e.code, e.message>>
             l3 == <<"#END">>
             L  == Proxy!BuildError(e)
         IN /\ Head(L) = l1 /\ Head(Tail(L)) = l2 /\ Tail(Tail(L)) = <<l3>> /\ L # <<>> /\ Tail(L) # <<>>
            /\ Native!IsSeq(l1) /\ Native!IsSeq(l2) /\ Native!IsSeq(l3)
            /\ l1[1] = "#GITFETCH" /\ l2[1] = "#STATUS" /\ l3[1] = "#END"
            /\ Len(l2) = 4 /\ l2[2] = "ERR" /\ l2[3] = e.code /\ l2[4] = e.message
            /\ <<l3>> \in Seq({l3})
<1> DEFINE l1 == <<"#GITFETCH">>
           l2 == <<"#STATUS", "ERR", e.code, e.message>>
           l3 == <<"#END">>
           L  == Proxy!BuildError(e)
<1>1. L = <<l1, l2, l3>>
  BY DEF Proxy!BuildError
<1>2. /\ l1 \in Seq({"#GITFETCH"}) /\ l3 \in Seq({"#END"})
      /\ l2 \in Seq({"#STATUS", "ERR", e.code, e.message})
  OBVIOUS
<1>3. Native!IsSeq(l1) /\ Native!IsSeq(l2) /\ Native!IsSeq(l3)
  <2> HIDE DEF l1, l2, l3
  <2>1. QED
    BY <1>2, InSeq
<1>4. /\ l1[1] = "#GITFETCH" /\ l2[1] = "#STATUS" /\ l3[1] = "#END"
      /\ Len(l2) = 4 /\ l2[2] = "ERR" /\ l2[3] = e.code /\ l2[4] = e.message
  OBVIOUS
<1> HIDE DEF l1, l2, l3, L
<1>5. /\ Head(L) = l1 /\ Head(Tail(L)) = l2 /\ Tail(Tail(L)) = <<l3>> /\ L # <<>> /\ Tail(L) # <<>>
      /\ <<l3>> \in Seq({l3})
  <2>1. L \in Seq({l1, l2, l3}) /\ Len(L) = 3
    BY <1>1
  <2>2. Tail(L) = <<l2, l3>>
    BY <1>1
  <2>3. Tail(<<l2, l3>>) = <<l3>> /\ Head(<<l2, l3>>) = l2 /\ Len(<<l2, l3>>) = 2
    OBVIOUS
  <2>4. QED
    BY <1>1, <2>1, <2>2, <2>3
<1>6. QED
  BY <1>3, <1>4, <1>5 DEF l1, l2, l3, L

\* An error, step by step.
LEMMA ErrorKindStep ==
  ASSUME ProxyShape, ErrorKind, Proxy!Next
  PROVE  ErrorKind'
<1> DEFINE e  == sent.of
           l1 == <<"#GITFETCH">>
           l2 == <<"#STATUS", "ERR", e.code, e.message>>
           l3 == <<"#END">>
           L  == Proxy!BuildError(e)
<1>1. SUFFICES ASSUME sent.kind = "error", ~damaged
      PROVE  /\ result' # "OK"
             /\ result' = NoText => \/ ~parser'.sawEnd /\ lines' = L
                                    \/ ~parser'.sawEnd /\ lines' = Tail(L)
                                    \/ parser'.status # "0" /\ lines' \in Seq({l3})
  BY ProxySteps DEF ErrorKind
<1>2. /\ result # "OK"
      /\ result = NoText => \/ ~parser.sawEnd /\ lines = L
                            \/ ~parser.sawEnd /\ lines = Tail(L)
                            \/ parser.status # "0" /\ lines \in Seq({l3})
  BY <1>1 DEF ErrorKind
<1>3. Whole(parser) /\ e.code # "0"
  <2>1. e \in Errors
    BY <1>1, SentBody DEF ProxyShape
  <2>2. QED
    BY <2>1, ErrorsAssumption DEF ProxyShape
<1>4. /\ Head(L) = l1 /\ Head(Tail(L)) = l2 /\ Tail(Tail(L)) = <<l3>> /\ L # <<>> /\ Tail(L) # <<>>
      /\ Native!IsSeq(l1) /\ Native!IsSeq(l2) /\ Native!IsSeq(l3)
      /\ l1[1] = "#GITFETCH" /\ l2[1] = "#STATUS" /\ l3[1] = "#END"
      /\ Len(l2) = 4 /\ l2[2] = "ERR" /\ l2[3] = e.code /\ l2[4] = e.message
      /\ <<l3>> \in Seq({l3})
  BY ErrorLinesOf
<1> HIDE DEF l1, l2, l3, L, e
<1>5. Proxy!HandleLine(parser, l2).status # "0"
  <2>1. /\ Proxy!NextField(l2, 2) = "ERR" /\ Proxy!NextField(l2, 3) = e.code
        /\ Proxy!NextField(l2, 4) = e.message
    BY <1>4 DEF Proxy!NextField
  <2>2. Proxy!HandleStatus(parser, l2).status # "0"
    BY <1>3, <2>1, WholeParser DEF Proxy!HandleStatus
  <2>3. QED
    BY <1>4, <2>2 DEF Proxy!HandleLine
<1>6. \A line : line[1] # "#END" /\ ~parser.sawEnd => ~Proxy!HandleLine(parser, line).sawEnd
  BY <1>3, OnlyTheList
<1>7. \A line : line[1] # "#STATUS" => Proxy!HandleLine(parser, line).status = parser.status
  BY <1>3, Quiet DEF Untouched
<1>8. CASE /\ result = NoText /\ result' = NoText /\ lines # <<>> /\ lines' = Tail(lines)
           /\ parser' = Proxy!HandleLine(parser, Head(lines))
  <2>1. CASE ~parser.sawEnd /\ lines = L
    <3>1. Head(lines) = l1 /\ lines' = Tail(L) /\ l1[1] # "#END"
      BY <1>4, <1>8, <2>1
    <3>2. QED
      BY <1>2, <1>6, <1>8, <2>1, <3>1
  <2>2. CASE ~parser.sawEnd /\ lines = Tail(L)
    <3>1. parser' = Proxy!HandleLine(parser, l2) /\ lines' = <<l3>>
      BY <1>4, <1>8, <2>2
    <3>2. QED
      BY <1>2, <1>4, <1>5, <1>8, <3>1
  <2>3. CASE parser.status # "0" /\ lines \in Seq({l3})
    <3>1. Head(lines) = l3 /\ lines' \in Seq({l3})
      BY <1>8, <2>3
    <3>2. l3[1] # "#STATUS"
      BY <1>4
    <3>3. QED
      BY <1>2, <1>7, <1>8, <2>3, <3>1, <3>2
  <2>4. QED
    BY <1>2, <1>8, <2>1, <2>2, <2>3
<1>9. CASE result = NoText /\ lines' = lines /\ result' = Proxy!FinishCode(parser') /\ parser' = parser
  <2>1. result' # NoText
    BY <1>9, FinishCodes
  <2>2. ~parser.sawEnd \/ parser.status # "0"
    BY <1>2, <1>9
  <2>3. result' # "OK"
    BY <1>9, <2>2, FinishCodes
  <2>4. QED
    BY <2>1, <2>3
<1>10. CASE /\ result = NoText /\ lines' = lines /\ result' = Proxy!FinishCode(parser')
            /\ lines # <<>> /\ \E form \in Proxy!CutForms(Head(lines)) :
                                 parser' = Proxy!HandleLine(parser, form)
  <2>1. result' # NoText
    BY <1>10, FinishCodes
  <2>2. PICK line : line = Head(lines)
    OBVIOUS
  <2>3. PICK form \in Proxy!CutForms(line) : parser' = Proxy!HandleLine(parser, form)
    BY <1>10, <2>2
  <2>4. "#" \notin {"#END", "#STATUS"} /\ Proxy!Part \notin {"#END", "#STATUS"}
    BY DEF Proxy!Part
  <2>5. line \in {l1, l2, l3}
    <3>1. lines \in Seq({l3}) => Head(lines) = l3
      BY <1>10
    <3>2. QED
      BY <1>2, <1>4, <1>10, <2>2, <3>1
  <2>6. form[1] = line[1] \/ form[1] \in {"#", Proxy!Part}
    BY <1>4, <2>5, CutStart
  <2>7. CASE ~parser.sawEnd /\ lines \in {L, Tail(L)}
    <3>1. line[1] # "#END"
      BY <1>4, <2>2, <2>7
    <3>2. form[1] # "#END"
      BY <2>4, <2>6, <3>1
    <3>3. ~parser'.sawEnd
      BY <1>6, <2>3, <2>7, <3>2
    <3>4. QED
      BY <1>10, <2>1, <3>3, FinishCodes
  <2>8. CASE parser.status # "0" /\ lines \in Seq({l3})
    <3>1. line[1] = "#END"
      BY <1>4, <1>10, <2>2, <2>8
    <3>2. form[1] # "#STATUS"
      BY <2>4, <2>6, <3>1
    <3>3. parser'.status # "0"
      BY <1>7, <2>3, <2>8, <3>2
    <3>4. QED
      BY <1>10, <2>1, <3>3, FinishCodes
  <2>9. QED
    BY <1>2, <1>10, <2>7, <2>8
<1>11. CASE lines' = lines /\ parser' = parser /\ result' \in {result, "NET"}
  BY <1>2, <1>11, FinishCodes
<1>12. QED
  BY <1>8, <1>9, <1>10, <1>11, ProxySteps DEF l3

\* Something else, step by step.
LEMMA OtherKindStep ==
  ASSUME ProxyShape, OtherKind, Proxy!Next
  PROVE  OtherKind'
<1> DEFINE S == {<<"<html>">>, <<"(too long)">>}
           X == {"<html>", "(too long)", "#", Proxy!Part}
<1>1. SUFFICES ASSUME sent.kind = "other"
      PROVE  /\ result' # "OK"
             /\ result' = NoText => ~parser'.sawHeader /\ lines' \in Seq(S)
  BY ProxySteps DEF OtherKind
<1>2. result # "OK" /\ (result = NoText => ~parser.sawHeader /\ lines \in Seq(S))
  BY <1>1 DEF OtherKind
<1>3. Whole(parser)
  BY DEF ProxyShape
<1>4. \A line \in S : Native!IsSeq(line) /\ line[1] \in X
  <2> DEFINE l1 == <<"<html>">>
             l2 == <<"(too long)">>
  <2>1. /\ l1 \in Seq({"<html>"}) /\ l2 \in Seq({"(too long)"})
        /\ l1[1] = "<html>" /\ l2[1] = "(too long)"
    OBVIOUS
  <2> HIDE DEF l1, l2
  <2>2. Native!IsSeq(l1) /\ Native!IsSeq(l2)
    BY <2>1, InSeq
  <2>3. QED
    BY <2>1, <2>2 DEF l1, l2
<1>12. "#" \in X /\ Proxy!Part \in X
  OBVIOUS
<1> HIDE DEF S, X
<1>5. ASSUME NEW line, line[1] \in X
      PROVE  Proxy!HandleLine(parser, line).sawHeader = parser.sawHeader
  <2>1. Proxy!HandleLine(parser, line) \in {parser, Proxy!Dropped(parser)}
    BY <1>5 DEF X, Proxy!HandleLine, Proxy!Part
  <2>2. Proxy!Dropped(parser).sawHeader = parser.sawHeader
    BY <1>3, WholeParser DEF Proxy!Dropped
  <2>3. QED
    BY <1>5, <2>1, <2>2
<1>6. ASSUME result = NoText, lines # <<>>
      PROVE  Head(lines) \in S /\ Tail(lines) \in Seq(S)
  BY <1>2, <1>6
<1>7. CASE /\ result = NoText /\ result' = NoText /\ lines # <<>> /\ lines' = Tail(lines)
           /\ parser' = Proxy!HandleLine(parser, Head(lines))
  <2>1. PICK line \in S : line = Head(lines)
    BY <1>6, <1>7
  <2>2. line[1] \in X
    BY <1>4
  <2>3. Proxy!HandleLine(parser, line).sawHeader = parser.sawHeader
    BY <1>5, <2>2
  <2>4. parser'.sawHeader = parser.sawHeader
    BY <1>7, <2>1, <2>3
  <2>5. QED
    BY <1>2, <1>6, <1>7, <2>4, FinishCodes
<1>8. CASE result = NoText /\ lines' = lines /\ result' = Proxy!FinishCode(parser') /\ parser' = parser
  BY <1>2, <1>8, FinishCodes
<1>9. CASE /\ result = NoText /\ lines' = lines /\ result' = Proxy!FinishCode(parser')
           /\ lines # <<>> /\ \E form \in Proxy!CutForms(Head(lines)) :
                                parser' = Proxy!HandleLine(parser, form)
  <2>1. PICK line \in S : line = Head(lines)
    BY <1>6, <1>9
  <2>2. PICK form \in Proxy!CutForms(line) : parser' = Proxy!HandleLine(parser, form)
    BY <1>9, <2>1
  <2>3. form[1] \in X
    BY <1>4, <1>12, <2>1, CutStart
  <2>4. Proxy!HandleLine(parser, form).sawHeader = parser.sawHeader
    BY <1>5, <2>3
  <2>5. parser'.sawHeader = parser.sawHeader
    BY <2>2, <2>4
  <2>6. QED
    BY <1>2, <1>9, <2>5, FinishCodes
<1>10. CASE lines' = lines /\ parser' = parser /\ result' \in {result, "NET"}
  BY <1>2, <1>10, FinishCodes
<1>11. QED
  BY <1>7, <1>8, <1>9, <1>10, ProxySteps

\* What is proved of a success of the proxy backend.
ListsInv == ProxyInv /\ (backend = "proxy" => ListKind /\ ErrorKind /\ OtherKind)

\* It holds at the start, with one line too long or none.
LEMMA ListsInit == Init => ListsInv
<1>1. SUFFICES ASSUME Init, backend = "proxy" PROVE ListKind /\ ErrorKind /\ OtherKind
  BY ProxyInit DEF ListsInv
<1>2. /\ sent \in Proxy!Bodies /\ parser = Proxy!GfParserInit /\ result = NoText
  BY <1>1, NoTexts DEF Init, Proxy!Init
<1> DEFINE L == Proxy!LinesOf(sent)
<1>3. PICK i \in 0 .. Len(L) :
        /\ damaged = (i > 0)
        /\ lines = [k \in 1 .. Len(L) |-> IF k = i THEN <<"(too long)">> ELSE L[k]]
  BY <1>1 DEF Init, Proxy!Init
<1> HIDE DEF L
<1>4. result # "OK" /\ ~parser.sawEnd /\ ~parser.sawHeader /\ parser.list = <<>>
  BY <1>2, FinishCodes DEF Proxy!GfParserInit
<1>5. ASSUME ~damaged, Native!IsSeq(L) PROVE lines = L
  <2>4. ~(i > 0)
    BY <1>3, <1>5, Zenon
  <2>1. \A k \in 1 .. Len(L) : k # i
    BY <2>4
  <2>2. lines = [k \in 1 .. Len(L) |-> L[k]]
    BY <1>3, <2>1
  <2>3. QED
    BY <1>5, <2>2 DEF Native!IsSeq
<1>6. ListKind
  <2>1. SUFFICES ASSUME sent.kind = "list" PROVE ListKind
    BY DEF ListKind
  <2> DEFINE shown == Proxy!Published(sent.of)
             whole == Proxy!Listed(Proxy!ExpectedList(sent.of))
  <2>2. L = Proxy!BuildReleases(sent.of) /\ sent.of \in Answers
    BY <1>2, <2>1, SentBody DEF L, Proxy!LinesOf
  <2>3. ListLines(shown, L) /\ Runs("proxy", <<>>, L, whole)
    BY <2>2, ListBody
  <2> HIDE DEF shown, whole
  <2>4. ListLines(shown, lines)
    <3>1. lines = TooLong(L, i)
      BY <1>3, Zenon DEF TooLong, LongLine
    <3>2. ListLines(shown, L)
      BY <2>3
    <3>3. QED
      BY <3>1, <3>2, LinesLost
  <2>5. ~damaged => Runs("proxy", parser.list, lines, whole)
    BY <1>4, <1>5, <2>3 DEF ListLines
  <2>6. Filed(shown, parser.list, lines)
    BY <1>4, NoFiles DEF Filed, AllBelong
  <2>7. QED
    BY <1>4, <2>4, <2>5, <2>6 DEF ListKind, shown, whole
<1>7. ErrorKind
  <2>1. SUFFICES ASSUME sent.kind = "error", ~damaged PROVE lines = Proxy!BuildError(sent.of)
    BY <1>4 DEF ErrorKind
  <2>2. L = Proxy!BuildError(sent.of)
    BY <2>1 DEF L, Proxy!LinesOf
  <2> DEFINE l1 == <<"#GITFETCH">>
             l2 == <<"#STATUS", "ERR", sent.of.code, sent.of.message>>
             l3 == <<"#END">>
  <2>3. L = <<l1, l2, l3>>
    BY <2>2 DEF Proxy!BuildError
  <2> HIDE DEF l1, l2, l3
  <2>4. L \in Seq({l1, l2, l3})
    BY <2>3
  <2>5. Native!IsSeq(L)
    BY <2>4, InSeq
  <2>6. QED
    BY <1>5, <2>1, <2>2, <2>5
<1>8. OtherKind
  <2>1. SUFFICES ASSUME sent.kind = "other" PROVE lines \in Seq({<<"<html>">>, <<"(too long)">>})
    BY <1>4 DEF OtherKind
  <2> DEFINE l == <<"<html>">>
             m == <<"(too long)">>
  <2>2. L = <<l>>
    BY <2>1 DEF L, Proxy!LinesOf
  <2>3. lines = [k \in 1 .. Len(L) |-> IF k = i THEN m ELSE L[k]]
    BY <1>3
  <2> HIDE DEF l, m
  <2>4. Len(L) = 1 /\ \A k \in 1 .. 1 : L[k] = l
    BY <2>2
  <2>5. lines \in Seq({l, m})
    BY <2>3, <2>4
  <2>6. QED
    BY <2>5 DEF l, m
<1>9. QED
  BY <1>6, <1>7, <1>8

\* Every step keeps it.
LEMMA ListsStep == ListsInv /\ [Next]_vars => ListsInv'
<1>1. SUFFICES ASSUME ListsInv, [Next]_vars PROVE ListsInv'
  OBVIOUS
<1>2. CASE Next
  <2>1. CASE backend = "native" /\ Native!Next /\ UNCHANGED <<backend, proxyVars>>
    BY <2>1 DEF ListsInv, ProxyInv
  <2>2. CASE backend = "proxy" /\ Proxy!Next /\ UNCHANGED <<backend, nativeVars>>
    <3>1. ProxyShape /\ Explained /\ ListKind /\ ErrorKind /\ OtherKind
      BY <1>1, <2>2 DEF ListsInv, ProxyInv
    <3>2. (ProxyShape /\ Explained)' /\ ListKind' /\ ErrorKind' /\ OtherKind'
      BY <2>2, <3>1, ProxyStep, ListKindStep, ErrorKindStep, OtherKindStep
    <3>3. QED
      BY <3>2 DEF ListsInv, ProxyInv
  <2>3. QED
    BY <1>2, <2>1, <2>2 DEF Next
<1>3. CASE UNCHANGED vars
  <2>1. UNCHANGED <<backend, sent, damaged, lines, parser, result, serverMessage>>
    BY <1>3 DEF vars, proxyVars
  <2>2. QED
    BY <1>1, <2>1 DEF ListsInv, ProxyInv, ProxyShape, Explained, ListKind, ErrorKind, OtherKind
<1>4. QED
  BY <1>1, <1>2, <1>3

\* A success of the proxy backend shows the whole list GitHub's answer stands
\* for, whatever the answer and wherever the body was cut off (parse.c 222-225).
THEOREM SuccessIsWhole == Spec => []OkIsWhole
<1>1. ListsInv => OkIsWhole
  <2>1. SUFFICES ASSUME ListsInv, backend = "proxy", result = "OK", ~damaged
        PROVE  sent.kind = "list" /\ parser.list = Proxy!Listed(Proxy!ExpectedList(sent.of))
    BY DEF OkIsWhole, Proxy!OkIsWhole
  <2>2. ListKind /\ ErrorKind /\ OtherKind /\ sent \in Proxy!Bodies
    BY <2>1 DEF ListsInv, ProxyInv, ProxyShape
  <2>3. sent.kind = "list"
    BY <2>1, <2>2, SentBody DEF ErrorKind, OtherKind
  <2>4. QED
    BY <2>1, <2>2, <2>3 DEF ListKind
<1>2. QED
  BY <1>1, ListsInit, ListsStep, PTL DEF Spec

\* Whatever lines were too long and got lost, a list that is shown has under a
\* release no file of another one (parse.c 99-107).
THEOREM FilesStayTogether == Spec => []FilesBelong
<1>1. ListsInv => FilesBelong
  <2>1. SUFFICES ASSUME ListsInv, backend = "proxy", result = "OK", sent.kind = "list",
                        NEW i \in 1 .. Len(parser.list)
        PROVE  \E r \in Proxy!ToSet(Proxy!Published(sent.of)) :
                 /\ parser.list[i].tag = r.tag
                 /\ Proxy!ToSet(parser.list[i].files)
                      \subseteq {Proxy!Fitted(f) : f \in Proxy!ToSet(Proxy!Expected(r).files)}
    BY DEF FilesBelong, Proxy!FilesBelong
  <2> DEFINE shown == Proxy!Published(sent.of)
             e == parser.list[i]
  <2>2. ListKind /\ sent \in Proxy!Bodies
    BY <2>1 DEF ListsInv, ProxyInv, ProxyShape
  <2>3. AllBelong(shown, parser.list)
    BY <2>1, <2>2 DEF ListKind
  <2>4. PICK x \in Nat : EntryOf(shown, x, e)
    BY <2>1, <2>3 DEF AllBelong
  <2>5. PICK j \in 1 .. Len(shown) :
          e.tag = shown[j].tag /\ ToSet(e.files) \subseteq ToSet(ShownFiles(shown[j]))
    BY <2>4 DEF EntryOf
  <2>6. sent.of \in Answers
    BY <2>1, <2>2, SentBody
  <2>7. shown[j] \in Native!Release
    BY <2>5, <2>6, Sending
  <2>8. shown \in Seq(Native!Release)
    <3>1. sent.of \in Seq(Native!Release)
      BY <2>6, AnswersAssumption DEF Release, Asset, Native!Release, Native!Asset
    <3>2. QED
      BY <3>1, Publishing
  <2>9. \A s : Proxy!ToSet(s) = ToSet(s)
    BY DEF Proxy!ToSet, ToSet
  <2> HIDE DEF shown, e
  <2>10. shown[j] \in ToSet(shown)
    BY <2>5, <2>8 DEF ToSet
  <2>11. ToSet(ShownFiles(shown[j])) = {Proxy!Fitted(f) : f \in ToSet(Proxy!Expected(shown[j]).files)}
    BY <2>7, ExpectedShown
  <2>12. QED
    BY <2>5, <2>9, <2>10, <2>11 DEF shown, e
<1>2. QED
  BY <1>1, ListsInit, ListsStep, PTL DEF Spec

(***************************************************************************)
(* json.c: what struct GFJson holds after a part of GitHub's answer.       *)
(***************************************************************************)

\* What counts between two values: the release and the file only while they last.
ViewFields == {"depth", "inAssets", "list", "live", "tag", "date", "title", "prerelease", "files",
               "skipped", "isDraft", "zip", "where", "name", "size", "path"}
JsonFields == {"depth", "readingKey", "collecting", "key", "lastKey", "val", "inAssets",
               "assetsDepth", "cur", "asset", "isDraft", "zip", "dropped", "list"}
CurFields   == {"live", "tag", "date", "title", "prerelease", "files", "skipped"}
AssetFields == {"where", "name", "size", "path"}
Agrees(s, v) ==
  /\ DOMAIN s = JsonFields /\ DOMAIN s.cur = CurFields /\ DOMAIN s.asset = AssetFields
  /\ DOMAIN v = ViewFields
  /\ ~s.collecting /\ (s.inAssets => s.assetsDepth = 3)
  /\ s.depth = v.depth /\ s.inAssets = v.inAssets /\ s.list = v.list
  /\ s.cur.live = v.live /\ s.asset.where = v.where
  /\ v.live => /\ s.cur.tag = v.tag /\ s.cur.date = v.date /\ s.cur.title = v.title
               /\ s.cur.prerelease = v.prerelease /\ s.cur.files = v.files
               /\ s.cur.skipped = v.skipped /\ s.isDraft = v.isDraft /\ s.zip = v.zip
  /\ v.where # "none" => /\ s.asset.name = v.name /\ s.asset.size = v.size
                         /\ s.asset.path = v.path

\* What a part of the answer may count on: a key comes next, or that of the assets
\* was last.
Ready(s, m) == /\ m = "key" => s.readingKey
               /\ m = "assets" => s.lastKey = "assets"

\* With the tokens xs the parser comes from s to w, when a last value is completed.
Reads(s, xs, w) == \E u : Runs("native", s, xs, u) /\ Agrees(Native!DoneIfCollecting(u), w)

\* Wherever it agrees with v it comes to w.
Steps(m, v, xs, w) == /\ xs \in Seq(Tokens)
                      /\ \A s : Agrees(s, v) /\ Ready(s, m) => Reads(s, xs, w)

\* c takes the first N parts in, one by one.
Links(c, seqs, N) == c[0] = <<>> /\ \A i \in 1 .. N : c[i] = c[i - 1] \o seqs[i]

\* There is one way to do so.
LEMMA LinkedOnce ==
  ASSUME NEW seqs, NEW N \in Nat, NEW c, NEW d, Links(c, seqs, N), Links(d, seqs, N)
  PROVE  c[N] = d[N]
<1> USE DEF Links
<1> DEFINE T == {i \in Nat : i <= N => c[i] = d[i]}
<1>1. 0 \in T
  OBVIOUS
<1>2. ASSUME NEW i \in T PROVE i + 1 \in T
  <2>1. i \in Nat /\ i + 1 \in Nat /\ i + 1 - 1 = i
    OBVIOUS
  <2>2. CASE i + 1 <= N
    <3>1. c[i] = d[i] /\ i + 1 \in 1 .. N
      BY <2>1, <2>2
    <3>2. PICK j \in 1 .. N : j = i + 1 /\ j - 1 = i
      BY <2>1, <3>1
    <3>3. c[j] = c[j - 1] \o seqs[j] /\ d[j] = d[j - 1] \o seqs[j]
      OBVIOUS
    <3>4. QED
      BY <2>1, <3>1, <3>2, <3>3
  <2>3. QED
    BY <2>1, <2>2
<1>3. T \subseteq Nat
  OBVIOUS
<1> HIDE DEF T
<1>4. T = Nat
  BY <1>1, <1>2, <1>3, Induction
<1>5. N \in T
  BY <1>4
<1>6. QED
  BY <1>5 DEF T

\* FlattenSeq takes a last part in.
LEMMA FlattenMore ==
  ASSUME NEW S, NEW seqs \in Seq(Seq(S)), NEW e \in Seq(S)
  PROVE  FlattenSeq(Append(seqs, e)) = FlattenSeq(seqs) \o e
<1>1. PICK N \in Nat : N = Len(seqs)
  OBVIOUS
<1> DEFINE all == Append(seqs, e)
<1>2. /\ all \in Seq(Seq(S)) /\ Len(all) = N + 1 /\ all[N + 1] = e
      /\ \A i \in 1 .. N : all[i] = seqs[i]
  BY <1>1
<1> HIDE DEF all
<1>3. PICK c \in [0 .. N -> Seq(S)] : Flattens(c, seqs, N)
  BY <1>1, Flattening
<1>4. PICK d \in [0 .. N + 1 -> Seq(S)] : Flattens(d, all, N + 1)
  BY <1>2, Flattening
<1>5. \A i \in 1 .. N : i \in 1 .. N + 1 /\ all[i] = seqs[i]
  BY <1>2
<1>6. Links(c, seqs, N) /\ Links(d, seqs, N)
  BY <1>3, <1>4, <1>5 DEF Flattens, Links
<1>7. c[N] = d[N]
  BY <1>6, LinkedOnce
<1>8. PICK j \in 1 .. N + 1 : j = N + 1 /\ j - 1 = N
  OBVIOUS
<1>9. d[N + 1] = d[N] \o e
  <2>1. d[j] = d[j - 1] \o all[j]
    BY <1>4, <1>8, Zenon DEF Flattens
  <2>2. QED
    BY <1>2, <1>8, <2>1
<1>10. FlattenSeq(all) = d[N + 1] /\ FlattenSeq(seqs) = c[N]
  BY <1>3, <1>4 DEF Flattens
<1>11. QED
  BY <1>7, <1>9, <1>10 DEF all

\* A comma goes before all but the first.
LEMMA CommasMore ==
  ASSUME NEW S, Native!Sym("comma") \in S, NEW fs \in Seq(Seq(S)), NEW f \in Seq(S)
  PROVE  /\ Native!Commas(Append(fs, f)) =
              IF fs = <<>> THEN f ELSE Native!Commas(fs) \o (<<Native!Sym("comma")>> \o f)
         /\ Native!Commas(fs) \in Seq(S) /\ Native!Commas(<<>>) = <<>>
<1> DEFINE comma == <<Native!Sym("comma")>>
           Part(gs) == [i \in 1 .. Len(gs) |-> IF i = 1 THEN gs[i] ELSE comma \o gs[i]]
           e == IF fs = <<>> THEN f ELSE comma \o f
<1>1. \A gs : Native!Commas(gs) = FlattenSeq(Part(gs))
  BY NativeFlattenSeq DEF Native!Commas
<1>2. comma \in Seq(S)
  OBVIOUS
<1> HIDE DEF comma
<1>3. e \in Seq(S)
  BY <1>2
<1>4. PICK n \in Nat : n = Len(fs)
  OBVIOUS
<1>5. Part(fs) \in Seq(Seq(S)) /\ Len(Part(fs)) = n
  <2>1. \A i \in 1 .. n : fs[i] \in Seq(S) /\ comma \o fs[i] \in Seq(S)
    BY <1>2, <1>4
  <2>2. QED
    BY <1>4, <2>1
<1>6. fs = <<>> <=> n = 0
  BY <1>4
<1>7. Part(Append(fs, f)) = Append(Part(fs), e)
  <2>1. /\ Len(Append(fs, f)) = n + 1 /\ Append(fs, f)[n + 1] = f
        /\ \A i \in 1 .. n : Append(fs, f)[i] = fs[i]
    BY <1>4
  <2> DEFINE g == Part(Append(fs, f))
             h == Append(Part(fs), e)
  <2>2. g \in Seq(Seq(S)) /\ Len(g) = n + 1
    <3>1. \A i \in 1 .. n : fs[i] \in Seq(S)
      BY <1>4
    <3>2. \A i \in 1 .. n + 1 : i = n + 1 \/ i \in 1 .. n
      OBVIOUS
    <3>3. \A i \in 1 .. n + 1 : Append(fs, f)[i] \in Seq(S)
      BY <2>1, <3>1, <3>2
    <3>4. \A i \in 1 .. n + 1 : comma \o Append(fs, f)[i] \in Seq(S)
      <4>1. \A z \in Seq(S) : comma \o z \in Seq(S)
        BY <1>2
      <4>2. QED
        BY <3>3, <4>1, Zenon
    <3>5. QED
      BY <2>1, <3>3, <3>4
  <2>3. h \in Seq(Seq(S)) /\ Len(h) = n + 1 /\ h[n + 1] = e /\ \A i \in 1 .. n : h[i] = Part(fs)[i]
    <3> HIDE DEF e, Part
    <3>1. QED
      BY <1>3, <1>5
  <2>4. ASSUME NEW i \in 1 .. n + 1 PROVE g[i] = h[i]
    <3>1. CASE i = n + 1
      <4>1. i = 1 <=> fs = <<>>
        BY <1>6, <3>1
      <4>2. g[i] = IF i = 1 THEN f ELSE comma \o f
        BY <2>1, <3>1
      <4>3. QED
        BY <2>3, <3>1, <4>1, <4>2
    <3>2. CASE i # n + 1
      <4>1. i \in 1 .. n
        BY <3>2
      <4>2. g[i] = IF i = 1 THEN fs[i] ELSE comma \o fs[i]
        BY <2>1, <4>1
      <4>3. QED
        BY <1>4, <2>3, <4>1, <4>2
    <3>3. QED
      BY <3>1, <3>2
  <2> HIDE DEF g, h
  <2>5. g = h
    BY <2>2, <2>3, <2>4, SameSeq
  <2>6. QED
    BY <2>5 DEF g, h
<1>8. FlattenSeq(Part(fs)) \in Seq(S)
  <2> HIDE DEF Part
  <2>1. PICK c \in [0 .. n -> Seq(S)] : Flattens(c, Part(fs), n)
    BY <1>5, Flattening
  <2>2. QED
    BY <2>1 DEF Flattens
<1>9. FlattenSeq(Append(Part(fs), e)) = FlattenSeq(Part(fs)) \o e
  <2> HIDE DEF Part, e
  <2>1. QED
    BY <1>3, <1>5, FlattenMore
<1>10. Part(<<>>) = <<>> /\ FlattenSeq(<<>>) = <<>>
  BY DEF FlattenSeq
<1>11. n = 0 => fs = <<>> /\ Part(fs) = <<>>
  BY <1>6, <1>10
<1>12. Native!Commas(Append(fs, f)) = FlattenSeq(Part(fs)) \o e
  <2> HIDE DEF Part, e
  <2>1. QED
    BY <1>1, <1>7, <1>9
<1>13. CASE fs = <<>>
  <2>1. FlattenSeq(Part(fs)) \o e = f
    BY <1>10, <1>13
  <2>2. QED
    BY <1>1, <1>8, <1>10, <1>12, <1>13, <2>1
<1>14. CASE fs # <<>>
  <2> HIDE DEF Part
  <2>1. QED
    BY <1>1, <1>8, <1>10, <1>12, <1>14 DEF comma
<1>15. QED
  BY <1>13, <1>14

\* What has been read and what comes next.
LEMMA StepsOn ==
  ASSUME NEW s, NEW xs \in Seq(Tokens), NEW t, Runs("native", s, xs, t),
         NEW ys \in Seq(Tokens), NEW w, Reads(t, ys, w)
  PROVE  Reads(s, xs \o ys, w)
<1>1. PICK u : Runs("native", t, ys, u) /\ Agrees(Native!DoneIfCollecting(u), w)
  BY DEF Reads
<1>2. Runs("native", s, xs \o ys, u)
  BY <1>1, RunsJoin
<1>3. QED
  BY <1>1, <1>2 DEF Reads

\* Nothing to read.
LEMMA StepsNone ==
  ASSUME NEW m, NEW v
  PROVE  Steps(m, v, <<>>, v)
<1>1. ASSUME NEW s, Agrees(s, v) PROVE Reads(s, <<>>, v)
  <2>1. Runs("native", s, <<>>, s)
    BY RunsNone
  <2>2. Native!DoneIfCollecting(s) = s
    BY <1>1 DEF Agrees, Native!DoneIfCollecting
  <2>3. QED
    BY <1>1, <2>1, <2>2 DEF Reads
<1>2. QED
  BY <1>1 DEF Steps

\* After a comma, which completes a value, a key comes next.
LEMMA AfterComma ==
  ASSUME NEW u, NEW w, Agrees(Native!DoneIfCollecting(u), w)
  PROVE  /\ Agrees(After("native", u, Native!Sym("comma")), w)
         /\ After("native", u, Native!Sym("comma")).readingKey
<1> DEFINE d == Native!DoneIfCollecting(u)
           t == [d EXCEPT !.readingKey = TRUE]
<1>1. After("native", u, Native!Sym("comma")) = t
  BY DEF After, TokenDone, Native!Sym
<1> HIDE DEF d
<1>2. DOMAIN d = JsonFields
  BY DEF Agrees, d
<1>3. /\ DOMAIN t = JsonFields /\ t.readingKey = TRUE
      /\ \A x \in JsonFields \ {"readingKey"} : t[x] = d[x]
  BY <1>2 DEF JsonFields
<1> HIDE DEF t
<1>4. Agrees(t, w)
  BY <1>2, <1>3 DEF Agrees, JsonFields, d
<1>5. QED
  BY <1>1, <1>3, <1>4

\* One value more, behind a comma if it is not the first.
LEMMA StepsNext ==
  ASSUME NEW m \in {"any", "key"}, NEW v, NEW w, NEW x, NEW fs \in Seq(Seq(Tokens)), NEW f,
         Steps(m, v, Native!Commas(fs), w), Steps(m, w, f, x)
  PROVE  Steps(m, v, Native!Commas(Append(fs, f)), x)
<1>1. Native!Sym("comma") \in Tokens
  BY Marks DEF Plain
<1>2. f \in Seq(Tokens)
  BY DEF Steps
<1>3. /\ Native!Commas(Append(fs, f)) =
           IF fs = <<>> THEN f ELSE Native!Commas(fs) \o (<<Native!Sym("comma")>> \o f)
      /\ Native!Commas(fs) \in Seq(Tokens) /\ Native!Commas(<<>>) = <<>>
  BY <1>1, <1>2, CommasMore
<1>4. ASSUME NEW s, Agrees(s, v), Ready(s, m)
      PROVE  Reads(s, Native!Commas(Append(fs, f)), x)
  <2>1. PICK u : Runs("native", s, Native!Commas(fs), u) /\ Agrees(Native!DoneIfCollecting(u), w)
    BY <1>4 DEF Steps, Reads
  <2>2. CASE fs = <<>>
    <3>1. u = s
      BY <1>3, <2>1, <2>2, RunsNone
    <3>2. Native!DoneIfCollecting(s) = s
      BY <1>4 DEF Agrees, Native!DoneIfCollecting
    <3>3. Reads(s, f, x)
      BY <1>4, <2>1, <3>1, <3>2 DEF Steps
    <3>4. QED
      BY <1>3, <2>2, <3>3
  <2>3. CASE fs # <<>>
    <3> DEFINE t == After("native", u, Native!Sym("comma"))
    <3>1. Agrees(t, w) /\ t.readingKey
      BY <2>1, AfterComma
    <3>2. Runs("native", u, <<Native!Sym("comma")>>, t)
      BY RunsOne
    <3> HIDE DEF t
    <3>3. Ready(t, m)
      BY <3>1 DEF Ready
    <3>4. Reads(t, f, x)
      BY <3>1, <3>3 DEF Steps
    <3>5. <<Native!Sym("comma")>> \in Seq(Tokens)
      BY <1>1
    <3>6. Reads(u, <<Native!Sym("comma")>> \o f, x)
      BY <1>2, <3>2, <3>4, <3>5, StepsOn
    <3>7. <<Native!Sym("comma")>> \o f \in Seq(Tokens)
      BY <1>2, <3>5
    <3>8. QED
      BY <1>3, <2>1, <2>3, <3>6, <3>7, StepsOn
  <2>4. QED
    BY <2>2, <2>3
<1>5. Native!Commas(Append(fs, f)) \in Seq(Tokens)
  BY <1>1, <1>2, <1>3
<1>6. QED
  BY <1>4, <1>5 DEF Steps

\* The values that are kept: of a release, and of a file.
ReleaseKeys == {"tag_name", "name", "published_at", "created_at", "prerelease", "draft",
                "zipball_url"}
AssetKeys == {"name", "size", "browser_download_url"}
Wanted(v, k) == \/ v.depth = 2 /\ k \in ReleaseKeys
                \/ v.inAssets /\ v.depth = 4 /\ k \in AssetKeys

(***************************************************************************)
(* Fields: a key, a colon and a value that is wanted or not.               *)
(***************************************************************************)

\* What changes with a key and the colon behind it.
Keyed(s, t, v, k) ==
  /\ DOMAIN t = JsonFields /\ t.key = k /\ t.lastKey = k /\ ~t.readingKey
  /\ t.collecting <=> Wanted(v, k)
  /\ \A x \in JsonFields \ {"key", "lastKey", "readingKey", "collecting", "val"} : t[x] = s[x]

\* Whatever agrees with s, but for what is noted of keys and values, agrees with v.
LEMMA AgreesStill ==
  ASSUME NEW s, NEW t, NEW v, Agrees(s, v), DOMAIN t = JsonFields, ~t.collecting,
         \A x \in JsonFields \ {"key", "lastKey", "readingKey", "collecting", "val"} : t[x] = s[x]
  PROVE  Agrees(t, v)
<1>1. \A x \in {"depth", "inAssets", "assetsDepth", "cur", "asset", "isDraft", "zip", "list"} :
        t[x] = s[x]
  BY DEF JsonFields
<1>2. QED
  BY <1>1 DEF Agrees

\* The tokens of a field.
LEMMA FieldTokens ==
  ASSUME NEW y \in Texts
  PROVE  /\ <<Native!Str(y)>> \in Seq(Tokens) /\ <<Native!Lit(y)>> \in Seq(Tokens)
         /\ <<Native!Sym("colon")>> \in Seq(Tokens)
<1>1. Native!Str(y) \in Tokens /\ Native!Lit(y) \in Tokens
  BY Values DEF Plain
<1>2. Native!Sym("colon") \in Tokens
  BY Marks DEF Plain
<1>3. \A c \in Tokens : <<c>> \in Seq(Tokens)
  OBVIOUS
<1>4. QED
  BY <1>1, <1>2, <1>3

\* A key decides whether its value is wanted.
LEMMA KeyRead ==
  ASSUME NEW s, NEW v, Agrees(s, v), s.readingKey, NEW k \in Texts
  PROVE  /\ <<Native!Str(k), Native!Sym("colon")>> \in Seq(Tokens)
         /\ \E t : Runs("native", s, <<Native!Str(k), Native!Sym("colon")>>, t) /\ Keyed(s, t, v, k)
<1> DEFINE r == [s EXCEPT !.key = k, !.lastKey = k, !.readingKey = FALSE]
           t == [r EXCEPT !.collecting = Native!WantValue(r), !.val = Native!NoText]
<1>1. After("native", s, Native!Str(k)) = r
  BY DEF After, TokenDone, Native!Str, Native!StringDone
<1>2. After("native", r, Native!Sym("colon")) = t
  BY DEF After, TokenDone, Native!Sym
<1>3. <<Native!Str(k)>> \in Seq(Tokens) /\ <<Native!Sym("colon")>> \in Seq(Tokens)
  BY FieldTokens
<1>4. Runs("native", s, <<Native!Str(k)>>, r)
  BY <1>1, RunsOne
<1>5. Runs("native", r, <<Native!Sym("colon")>>, t)
  BY <1>2, RunsOne
<1>6. <<Native!Str(k), Native!Sym("colon")>> = <<Native!Str(k)>> \o <<Native!Sym("colon")>>
  OBVIOUS
<1>7. Runs("native", s, <<Native!Str(k), Native!Sym("colon")>>, t)
  <2> HIDE DEF r, t
  <2>1. QED
    BY <1>3, <1>4, <1>5, <1>6, RunsJoin
<1>8. /\ DOMAIN r = JsonFields /\ r.key = k /\ r.lastKey = k /\ r.readingKey = FALSE
      /\ \A x \in JsonFields \ {"key", "lastKey", "readingKey"} : r[x] = s[x]
  BY DEF Agrees, JsonFields
<1> HIDE DEF r
<1>9. Native!WantValue(r) <=> Wanted(v, k)
  <2>1. r.depth = v.depth /\ r.inAssets = v.inAssets /\ (r.inAssets => r.assetsDepth = 3)
    BY <1>8 DEF Agrees, JsonFields
  <2>2. QED
    BY <1>8, <2>1 DEF Native!WantValue, Native!InAsset, Wanted, ReleaseKeys, AssetKeys
<1>10. /\ DOMAIN t = JsonFields /\ t.key = k /\ t.lastKey = k /\ ~t.readingKey
       /\ t.collecting = Native!WantValue(r)
       /\ \A x \in JsonFields \ {"key", "lastKey", "readingKey", "collecting", "val"} : t[x] = s[x]
  BY <1>8 DEF JsonFields
<1>11. Keyed(s, t, v, k)
  BY <1>9, <1>10 DEF Keyed
<1>12. <<Native!Str(k)>> \o <<Native!Sym("colon")>> \in Seq(Tokens)
  BY <1>3
<1>13. QED
  BY <1>6, <1>7, <1>11, <1>12

\* A field that is not wanted: its value is read like one on its own.
LEMMA FieldOf ==
  ASSUME NEW v, NEW w, NEW k \in Texts, k # "key", ~Wanted(v, k), NEW m \in {"any", k},
         NEW value, Steps(m, v, value, w)
  PROVE  Steps("key", v, Native!Field(k, value), w)
<1>1. value \in Seq(Tokens)
  BY DEF Steps
<1>2. ASSUME NEW s, Agrees(s, v), Ready(s, "key")
      PROVE  Reads(s, Native!Field(k, value), w)
  <2>1. s.readingKey
    BY <1>2 DEF Ready
  <2>2. PICK t : /\ Runs("native", s, <<Native!Str(k), Native!Sym("colon")>>, t)
                 /\ Keyed(s, t, v, k)
    BY <1>2, <2>1, KeyRead
  <2>3. Agrees(t, v)
    BY <1>2, <2>2, AgreesStill DEF Keyed
  <2>4. Ready(t, m)
    BY <2>2 DEF Ready, Keyed
  <2>5. Reads(t, value, w)
    BY <2>3, <2>4 DEF Steps
  <2>6. <<Native!Str(k), Native!Sym("colon")>> \in Seq(Tokens)
    BY <1>2, <2>1, KeyRead
  <2>7. QED
    BY <1>1, <2>2, <2>5, <2>6, StepsOn DEF Native!Field
<1>3. Native!Field(k, value) \in Seq(Tokens)
  <2>1. <<Native!Str(k)>> \in Seq(Tokens) /\ <<Native!Sym("colon")>> \in Seq(Tokens)
    BY FieldTokens
  <2>2. <<Native!Str(k), Native!Sym("colon")>> = <<Native!Str(k)>> \o <<Native!Sym("colon")>>
    OBVIOUS
  <2>3. QED
    BY <1>1, <2>1, <2>2 DEF Native!Field
<1>4. QED
  BY <1>2, <1>3 DEF Steps

\* A text or a literal.
IsValue(x, y) == y \in Texts /\ (x = Native!Str(y) \/ x = Native!Lit(y))

\* Where no value is wanted it changes nothing.
LEMMA PlainValue ==
  ASSUME NEW v, NEW x, NEW y, IsValue(x, y)
  PROVE  Steps("any", v, <<x>>, v)
<1>1. <<x>> \in Seq(Tokens)
  BY FieldTokens DEF IsValue
<1>2. ASSUME NEW s, Agrees(s, v) PROVE Reads(s, <<x>>, v)
  <2> DEFINE u == After("native", s, x)
             r == [s EXCEPT !.key = y, !.lastKey = y, !.readingKey = FALSE]
  <2>1. u = s \/ u = r
    <3>1. ~s.collecting
      BY <1>2 DEF Agrees
    <3>2. CASE x = Native!Lit(y)
      BY <3>1, <3>2 DEF After, TokenDone, Native!Lit
    <3>3. CASE x = Native!Str(y)
      <4>1. u = Native!StringDone(s, y)
        BY <3>3 DEF After, TokenDone, Native!Str
      <4>2. QED
        BY <3>1, <4>1 DEF Native!StringDone
    <3>4. QED
      BY <3>2, <3>3 DEF IsValue
  <2>2. Agrees(r, v)
    <3>1. /\ DOMAIN r = JsonFields /\ ~r.collecting
          /\ \A z \in JsonFields \ {"key", "lastKey", "readingKey", "collecting", "val"} : r[z] = s[z]
      BY <1>2 DEF Agrees, JsonFields
    <3> HIDE DEF r
    <3>2. QED
      BY <1>2, <3>1, AgreesStill
  <2>3. Agrees(u, v)
    BY <1>2, <2>1, <2>2
  <2>4. Runs("native", s, <<x>>, u)
    BY RunsOne
  <2> HIDE DEF u
  <2>5. Native!DoneIfCollecting(u) = u
    BY <2>3 DEF Agrees, Native!DoneIfCollecting
  <2>6. QED
    BY <2>3, <2>4, <2>5 DEF Reads
<1>3. QED
  BY <1>1, <1>2 DEF Steps

\* A value that is wanted is stored when it is complete.
LEMMA FieldValue ==
  ASSUME NEW v, NEW w, NEW k \in Texts, Wanted(v, k), NEW x, NEW y, IsValue(x, y),
         \A s, t : /\ Agrees(s, v) /\ Keyed(s, t, v, k) /\ t.val = y
                   => /\ Agrees(Native!ValueDone(t), w)
  PROVE  Steps("key", v, Native!Field(k, <<x>>), w)
<1>1. /\ <<x>> \in Seq(Tokens) /\ <<Native!Str(k)>> \in Seq(Tokens)
      /\ <<Native!Sym("colon")>> \in Seq(Tokens)
  BY FieldTokens DEF IsValue
<1>2. ASSUME NEW s, Agrees(s, v), Ready(s, "key")
      PROVE  Reads(s, Native!Field(k, <<x>>), w)
  <2>1. s.readingKey
    BY <1>2 DEF Ready
  <2>2. PICK t : /\ Runs("native", s, <<Native!Str(k), Native!Sym("colon")>>, t)
                 /\ Keyed(s, t, v, k)
    BY <1>2, <2>1, KeyRead
  <2> DEFINE z == [t EXCEPT !.val = y]
             u == After("native", t, x)
  <2>3. t.collecting /\ ~t.readingKey /\ DOMAIN t = JsonFields
    BY <2>2 DEF Keyed
  <2>4. Keyed(s, z, v, k) /\ z.val = y
    BY <2>2, <2>3 DEF Keyed, JsonFields
  <2>5. u = Native!ValueDone(z) \/ u = z
    <3>1. CASE x = Native!Lit(y)
      BY <2>3, <3>1 DEF After, TokenDone, Native!Lit
    <3>2. CASE x = Native!Str(y)
      <4>1. u = Native!StringDone(t, y)
        BY <3>2 DEF After, TokenDone, Native!Str
      <4>2. QED
        BY <2>3, <4>1 DEF Native!StringDone
    <3>3. QED
      BY <3>1, <3>2 DEF IsValue
  <2>6. Agrees(Native!ValueDone(z), w)
    <3> HIDE DEF z
    <3>1. QED
      BY <1>2, <2>4
  <2>7. z.collecting
    BY <2>4 DEF Keyed
  <2>8. Native!DoneIfCollecting(u) = Native!ValueDone(z)
    <3> HIDE DEF z, u
    <3>1. CASE u = z
      BY <2>7, <3>1 DEF Native!DoneIfCollecting
    <3>2. CASE u = Native!ValueDone(z)
      <4>1. ~u.collecting
        BY <2>6, <3>2 DEF Agrees
      <4>2. QED
        BY <3>2, <4>1 DEF Native!DoneIfCollecting
    <3>3. QED
      BY <2>5, <3>1, <3>2
  <2>9. Runs("native", t, <<x>>, u)
    BY RunsOne
  <2>10. Reads(t, <<x>>, w)
    <3> HIDE DEF z, u
    <3>1. QED
      BY <2>6, <2>8, <2>9 DEF Reads
  <2>11. <<Native!Str(k), Native!Sym("colon")>> \in Seq(Tokens)
    BY <1>2, <2>1, KeyRead
  <2>12. QED
    BY <1>1, <2>2, <2>10, <2>11, StepsOn DEF Native!Field
<1>3. Native!Field(k, <<x>>) \in Seq(Tokens)
  <2>1. <<Native!Str(k), Native!Sym("colon")>> = <<Native!Str(k)>> \o <<Native!Sym("colon")>>
    OBVIOUS
  <2>2. QED
    BY <1>1, <2>1 DEF Native!Field
<1>4. QED
  BY <1>2, <1>3 DEF Steps

\* The release with y under the key k, when its place is not lost.
StoredIn(v, k, y) ==
  IF ~v.live THEN v
  ELSE [v EXCEPT !.tag = IF k = "tag_name" THEN y ELSE v.tag,
                 !.title = IF k = "name" THEN y ELSE v.title,
                 !.date = IF v.date = Native!NoText /\ k \in {"published_at", "created_at"}
                          THEN y ELSE v.date,
                 !.prerelease = IF k = "prerelease" THEN y = "true" ELSE v.prerelease,
                 !.isDraft = IF k = "draft" THEN y = "true" ELSE v.isDraft,
                 !.zip = IF k = "zipball_url" THEN y ELSE v.zip]

\* A field of a release is stored under its key.
LEMMA ReleaseField ==
  ASSUME NEW v, v.depth = 2, NEW k \in ReleaseKeys, k \in Texts, NEW x, NEW y, IsValue(x, y)
  PROVE  Steps("key", v, Native!Field(k, <<x>>), StoredIn(v, k, y))
<1>1. ASSUME NEW s, NEW t, Agrees(s, v), Keyed(s, t, v, k), t.val = y
      PROVE  Agrees(Native!ValueDone(t), StoredIn(v, k, y))
  <2> DEFINE r == Native!StoreReleaseField(t)
             z == [r EXCEPT !.collecting = FALSE, !.val = Native!NoText, !.key = Native!NoText]
  <2>1. t.depth = 2 /\ DOMAIN t = JsonFields
    BY <1>1 DEF Agrees, Keyed, JsonFields
  <2>2. Native!ValueDone(t) = z
    BY <2>1 DEF Native!ValueDone
  <2>3. \A f \in {"depth", "inAssets", "assetsDepth", "cur", "asset", "isDraft", "zip", "list"} :
          t[f] = s[f]
    BY <1>1 DEF Keyed, JsonFields
  <2>4. CASE ~v.live
    <3>1. r = t
      BY <1>1, <2>3, <2>4 DEF Native!StoreReleaseField, Agrees
    <3>2. DOMAIN z = JsonFields /\ ~z.collecting /\ \A f \in JsonFields \ {"collecting", "val", "key"} : z[f] = t[f]
      BY <2>1, <3>1 DEF JsonFields
    <3> HIDE DEF z
    <3>3. Agrees(z, v)
      BY <1>1, <2>3, <3>2 DEF Agrees, JsonFields
    <3>4. QED
      BY <2>2, <2>4, <3>3 DEF StoredIn
  <2>5. CASE v.live
    <3> DEFINE c == t.cur
               d == [c EXCEPT
                      !.tag = IF t.key = "tag_name" THEN t.val ELSE c.tag,
                      !.title = IF t.key = "name" THEN t.val ELSE c.title,
                      !.date = IF c.date = Native!NoText /\ t.key \in {"published_at", "created_at"}
                               THEN t.val ELSE c.date,
                      !.prerelease = IF t.key = "prerelease" THEN t.val = "true" ELSE c.prerelease]
    <3>1. r = [t EXCEPT !.cur = d,
                        !.isDraft = IF t.key = "draft" THEN t.val = "true" ELSE t.isDraft,
                        !.zip = IF t.key = "zipball_url" THEN t.val ELSE t.zip]
      BY <1>1, <2>3, <2>5 DEF Native!StoreReleaseField, Agrees
    <3>2. DOMAIN c = CurFields /\ DOMAIN t.asset = AssetFields /\ c.live = v.live
      BY <1>1, <2>3 DEF Agrees
    <3>3. t.key = k /\ t.val = y
      BY <1>1 DEF Keyed
    <3>4. /\ DOMAIN d = CurFields /\ d.live = v.live
          /\ d.tag = IF k = "tag_name" THEN y ELSE c.tag
          /\ d.title = IF k = "name" THEN y ELSE c.title
          /\ d.date = IF c.date = Native!NoText /\ k \in {"published_at", "created_at"}
                      THEN y ELSE c.date
          /\ d.prerelease = IF k = "prerelease" THEN y = "true" ELSE c.prerelease
          /\ d.files = c.files /\ d.skipped = c.skipped
      BY <3>2, <3>3 DEF CurFields
    <3> HIDE DEF d
    <3>5. /\ DOMAIN z = JsonFields /\ ~z.collecting /\ z.cur = d
          /\ z.isDraft = IF k = "draft" THEN y = "true" ELSE t.isDraft
          /\ z.zip = IF k = "zipball_url" THEN y ELSE t.zip
          /\ z.depth = t.depth /\ z.inAssets = t.inAssets /\ z.assetsDepth = t.assetsDepth
          /\ z.asset = t.asset /\ z.list = t.list
      BY <2>1, <3>1, <3>3 DEF JsonFields
    <3> HIDE DEF z
    <3> DEFINE w == StoredIn(v, k, y)
    <3>6. DOMAIN v = ViewFields
      BY <1>1 DEF Agrees
    <3>7. /\ DOMAIN w = ViewFields
          /\ w.tag = IF k = "tag_name" THEN y ELSE v.tag
          /\ w.title = IF k = "name" THEN y ELSE v.title
          /\ w.date = IF v.date = Native!NoText /\ k \in {"published_at", "created_at"}
                      THEN y ELSE v.date
          /\ w.prerelease = IF k = "prerelease" THEN y = "true" ELSE v.prerelease
          /\ w.isDraft = IF k = "draft" THEN y = "true" ELSE v.isDraft
          /\ w.zip = IF k = "zipball_url" THEN y ELSE v.zip
          /\ w.depth = v.depth /\ w.inAssets = v.inAssets /\ w.list = v.list /\ w.live = v.live
          /\ w.files = v.files /\ w.skipped = v.skipped /\ w.where = v.where /\ w.name = v.name
          /\ w.size = v.size /\ w.path = v.path
      BY <2>5, <3>6 DEF StoredIn, ViewFields
    <3> HIDE DEF w
    <3>8. Agrees(z, w)
      <4>1. /\ DOMAIN z = JsonFields /\ DOMAIN z.cur = CurFields /\ DOMAIN z.asset = AssetFields
            /\ DOMAIN w = ViewFields /\ ~z.collecting
        BY <3>2, <3>4, <3>5, <3>7
      <4>2. /\ z.inAssets => z.assetsDepth = 3
            /\ z.depth = w.depth /\ z.inAssets = w.inAssets /\ z.list = w.list
            /\ z.cur.live = w.live /\ z.asset.where = w.where
            /\ w.where # "none" => /\ z.asset.name = w.name /\ z.asset.size = w.size
                                   /\ z.asset.path = w.path
        BY <1>1, <2>3, <3>4, <3>5, <3>7 DEF Agrees
      <4>3. /\ c.tag = v.tag /\ c.date = v.date /\ c.title = v.title /\ c.files = v.files
            /\ c.prerelease = v.prerelease /\ c.skipped = v.skipped
            /\ t.isDraft = v.isDraft /\ t.zip = v.zip
        BY <1>1, <2>3, <2>5 DEF Agrees
      <4>4. /\ z.cur.tag = w.tag /\ z.cur.date = w.date /\ z.cur.title = w.title
            /\ z.cur.files = w.files /\ z.cur.skipped = w.skipped /\ z.zip = w.zip
        BY <3>4, <3>5, <3>7, <4>3
      <4>5. z.cur.prerelease = w.prerelease /\ z.isDraft = w.isDraft
        BY <3>4, <3>5, <3>7, <4>3
      <4>6. QED
        BY <4>1, <4>2, <4>4, <4>5 DEF Agrees
    <3>9. QED
      BY <2>2, <3>8 DEF w
  <2>6. QED
    BY <2>4, <2>5
<1>2. Wanted(v, k)
  BY DEF Wanted
<1> HIDE DEF StoredIn
<1>3. QED
  BY <1>1, <1>2, FieldValue

\* A file with y under the key k.
StoredAsset(v, k, y) ==
  IF v.where = "none" THEN v
  ELSE [v EXCEPT !.name = IF k = "name" THEN y ELSE v.name,
                 !.size = IF k = "size" THEN y ELSE v.size,
                 !.path = IF k = "browser_download_url" THEN y ELSE v.path]

\* So is a field of a file.
LEMMA AssetField ==
  ASSUME NEW v, v.depth = 4, v.inAssets, NEW k \in AssetKeys, k \in Texts,
         NEW x, NEW y, IsValue(x, y)
  PROVE  Steps("key", v, Native!Field(k, <<x>>), StoredAsset(v, k, y))
<1>1. ASSUME NEW s, NEW t, Agrees(s, v), Keyed(s, t, v, k), t.val = y
      PROVE  Agrees(Native!ValueDone(t), StoredAsset(v, k, y))
  <2> DEFINE r == Native!StoreAssetField(t)
             z == [r EXCEPT !.collecting = FALSE, !.val = Native!NoText, !.key = Native!NoText]
  <2>1. \A f \in {"depth", "inAssets", "assetsDepth", "cur", "asset", "isDraft", "zip", "list"} :
          t[f] = s[f]
    BY <1>1 DEF Keyed, JsonFields
  <2>2. t.depth = 4 /\ t.inAssets /\ t.assetsDepth = 3 /\ DOMAIN t = JsonFields
    BY <1>1, <2>1 DEF Agrees, Keyed
  <2>3. Native!ValueDone(t) = z
    BY <2>2 DEF Native!ValueDone, Native!InAsset
  <2>4. CASE v.where = "none"
    <3>1. r = t
      BY <1>1, <2>1, <2>4 DEF Native!StoreAssetField, Agrees
    <3>2. DOMAIN z = JsonFields /\ ~z.collecting /\ \A f \in JsonFields \ {"collecting", "val", "key"} : z[f] = t[f]
      BY <2>2, <3>1 DEF JsonFields
    <3> HIDE DEF z
    <3>3. Agrees(z, v)
      BY <1>1, <2>1, <3>2 DEF Agrees, JsonFields
    <3>4. QED
      BY <2>3, <2>4, <3>3 DEF StoredAsset
  <2>5. CASE v.where # "none"
    <3> DEFINE a == t.asset
               d == [a EXCEPT !.name = IF t.key = "name" THEN t.val ELSE a.name,
                              !.size = IF t.key = "size" THEN t.val ELSE a.size,
                              !.path = IF t.key = "browser_download_url" THEN t.val ELSE a.path]
    <3>1. r = [t EXCEPT !.asset = d]
      BY <1>1, <2>1, <2>5 DEF Native!StoreAssetField, Agrees
    <3>2. DOMAIN a = AssetFields /\ DOMAIN t.cur = CurFields /\ a.where = v.where
      BY <1>1, <2>1 DEF Agrees
    <3>3. t.key = k /\ t.val = y
      BY <1>1 DEF Keyed
    <3>4. /\ DOMAIN d = AssetFields /\ d.where = v.where
          /\ d.name = IF k = "name" THEN y ELSE a.name
          /\ d.size = IF k = "size" THEN y ELSE a.size
          /\ d.path = IF k = "browser_download_url" THEN y ELSE a.path
      BY <3>2, <3>3 DEF AssetFields
    <3> HIDE DEF d
    <3>5. /\ DOMAIN z = JsonFields /\ ~z.collecting /\ z.asset = d /\ z.cur = t.cur
          /\ z.isDraft = t.isDraft /\ z.zip = t.zip /\ z.list = t.list
          /\ z.depth = t.depth /\ z.inAssets = t.inAssets /\ z.assetsDepth = t.assetsDepth
      BY <2>2, <3>1 DEF JsonFields
    <3> HIDE DEF z
    <3> DEFINE w == StoredAsset(v, k, y)
    <3>6. DOMAIN v = ViewFields
      BY <1>1 DEF Agrees
    <3>7. /\ DOMAIN w = ViewFields
          /\ w.name = IF k = "name" THEN y ELSE v.name
          /\ w.size = IF k = "size" THEN y ELSE v.size
          /\ w.path = IF k = "browser_download_url" THEN y ELSE v.path
          /\ \A f \in ViewFields \ {"name", "size", "path"} : w[f] = v[f]
      BY <2>5, <3>6 DEF StoredAsset, ViewFields
    <3> HIDE DEF w
    <3>8. Agrees(z, w)
      <4>1. /\ DOMAIN z = JsonFields /\ DOMAIN z.cur = CurFields /\ DOMAIN z.asset = AssetFields
            /\ DOMAIN w = ViewFields /\ ~z.collecting
        BY <3>2, <3>4, <3>5, <3>7
      <4>2. \A f \in {"depth", "inAssets", "list", "live", "tag", "date", "title", "prerelease",
                       "files", "skipped", "isDraft", "zip", "where"} : w[f] = v[f]
        BY <3>7 DEF ViewFields
      <4>3. /\ z.inAssets => z.assetsDepth = 3
            /\ z.depth = w.depth /\ z.inAssets = w.inAssets /\ z.list = w.list
            /\ z.cur.live = w.live /\ z.asset.where = w.where
        <5>1. /\ s.inAssets => s.assetsDepth = 3
              /\ s.depth = v.depth /\ s.inAssets = v.inAssets /\ s.list = v.list
              /\ s.cur.live = v.live /\ s.asset.where = v.where
          BY <1>1 DEF Agrees
        <5>2. /\ z.depth = s.depth /\ z.inAssets = s.inAssets /\ z.assetsDepth = s.assetsDepth
              /\ z.list = s.list /\ z.cur = s.cur
          BY <2>1, <3>5
        <5>3. z.asset.where = v.where
          BY <3>4, <3>5
        <5>4. /\ w.depth = v.depth /\ w.inAssets = v.inAssets /\ w.list = v.list
              /\ w.live = v.live /\ w.where = v.where
          BY <4>2
        <5>5. QED
          BY <5>1, <5>2, <5>3, <5>4
      <4>4. w.live => /\ z.cur.tag = w.tag /\ z.cur.date = w.date /\ z.cur.title = w.title
                      /\ z.cur.prerelease = w.prerelease /\ z.cur.files = w.files
                      /\ z.cur.skipped = w.skipped /\ z.isDraft = w.isDraft /\ z.zip = w.zip
        BY <1>1, <2>1, <3>5, <4>2 DEF Agrees
      <4>5. a.name = v.name /\ a.size = v.size /\ a.path = v.path
        BY <1>1, <2>1, <2>5 DEF Agrees
      <4>6. z.asset.name = w.name /\ z.asset.size = w.size /\ z.asset.path = w.path
        BY <3>4, <3>5, <3>7, <4>5
      <4>7. QED
        BY <4>1, <4>3, <4>4, <4>6 DEF Agrees
    <3>9. QED
      BY <2>3, <3>8 DEF w
  <2>6. QED
    BY <2>4, <2>5
<1>2. Wanted(v, k)
  BY DEF Wanted
<1> HIDE DEF StoredAsset
<1>3. QED
  BY <1>1, <1>2, FieldValue

(***************************************************************************)
(* Objects and arrays.                                                     *)
(***************************************************************************)

\* The tokens of objects and arrays.
LEMMA MarkTokens ==
  /\ <<Native!Sym("brace")>> \in Seq(Tokens) /\ <<Native!Sym("end brace")>> \in Seq(Tokens)
  /\ <<Native!Sym("bracket")>> \in Seq(Tokens) /\ <<Native!Sym("end bracket")>> \in Seq(Tokens)
<1>1. /\ Native!Sym("brace") \in Tokens /\ Native!Sym("end brace") \in Tokens
      /\ Native!Sym("bracket") \in Tokens /\ Native!Sym("end bracket") \in Tokens
  BY Marks DEF Pair
<1>2. \A c \in Tokens : <<c>> \in Seq(Tokens)
  OBVIOUS
<1>3. QED
  BY <1>1, <1>2

\* Three parts, one after the other, the first and the last a token.
LEMMA StepsBetween ==
  ASSUME NEW s, NEW o, <<o>> \in Seq(Tokens), NEW e, <<e>> \in Seq(Tokens),
         NEW m, NEW v, NEW xs, NEW x, NEW w, Steps(m, v, xs, x),
         Agrees(After("native", s, o), v), Ready(After("native", s, o), m),
         \A u : Agrees(Native!DoneIfCollecting(u), x) => Agrees(After("native", u, e), w)
  PROVE  Reads(s, <<o>> \o xs \o <<e>>, w)
<1> DEFINE t == After("native", s, o)
<1>1. xs \in Seq(Tokens)
  BY DEF Steps
<1>2. Runs("native", s, <<o>>, t)
  BY RunsOne
<1>3. Reads(t, xs, x)
  BY DEF Steps
<1>4. PICK u : Runs("native", t, xs, u) /\ Agrees(Native!DoneIfCollecting(u), x)
  BY <1>3 DEF Reads
<1> DEFINE z == After("native", u, e)
<1>5. Agrees(z, w)
  BY <1>4
<1>6. Runs("native", u, <<e>>, z)
  BY RunsOne
<1> HIDE DEF t, z
<1>7. Native!DoneIfCollecting(z) = z
  BY <1>5 DEF Agrees, Native!DoneIfCollecting
<1>8. Reads(u, <<e>>, w)
  BY <1>5, <1>6, <1>7 DEF Reads
<1>9. Runs("native", s, <<o>> \o xs, u)
  BY <1>1, <1>2, <1>4, RunsJoin
<1>10. <<o>> \o xs \in Seq(Tokens)
  BY <1>1
<1>11. QED
  BY <1>8, <1>9, <1>10, StepsOn

\* A key after an opening brace, or nothing to be read after a closing one.
LEMMA Marking ==
  ASSUME NEW s, NEW v, Agrees(s, v)
  PROVE  /\ Agrees([s EXCEPT !.readingKey = TRUE, !.key = Native!NoText], v)
         /\ [s EXCEPT !.readingKey = TRUE, !.key = Native!NoText].readingKey
         /\ Agrees([s EXCEPT !.readingKey = FALSE], v)
<1> DEFINE r == [s EXCEPT !.readingKey = TRUE, !.key = Native!NoText]
           t == [s EXCEPT !.readingKey = FALSE]
<1>1. /\ DOMAIN r = JsonFields /\ DOMAIN t = JsonFields /\ ~r.collecting /\ ~t.collecting
      /\ r.readingKey
      /\ \A x \in JsonFields \ {"key", "lastKey", "readingKey", "collecting", "val"} :
           r[x] = s[x] /\ t[x] = s[x]
  BY DEF Agrees, JsonFields
<1> HIDE DEF r, t
<1>2. Agrees(r, v) /\ Agrees(t, v)
  BY <1>1, AgreesStill
<1>3. QED
  BY <1>1, <1>2 DEF r, t

\* An object.
LEMMA ObjectRead ==
  ASSUME NEW v, NEW x, NEW y, NEW w, NEW fields, Steps("key", x, Native!Commas(fields), y),
         \A s : Agrees(s, v) => Agrees(Native!OpenBrace(s), x),
         \A s : Agrees(s, y) => Agrees(Native!CloseBrace(s), w)
  PROVE  Steps("any", v, Native!Object(fields), w)
<1> DEFINE o == Native!Sym("brace")
           e == Native!Sym("end brace")
           xs == Native!Commas(fields)
<1>1. <<o>> \in Seq(Tokens) /\ <<e>> \in Seq(Tokens) /\ xs \in Seq(Tokens)
  BY MarkTokens DEF Steps
<1>2. ASSUME NEW s, Agrees(s, v) PROVE Reads(s, <<o>> \o xs \o <<e>>, w)
  <2>1. After("native", s, o) = [Native!OpenBrace(s) EXCEPT !.readingKey = TRUE, !.key = Native!NoText]
    BY DEF After, TokenDone, Native!Sym
  <2>2. Agrees(Native!OpenBrace(s), x)
    BY <1>2
  <2>3. Agrees(After("native", s, o), x) /\ After("native", s, o).readingKey
    <3>1. PICK p : p = Native!OpenBrace(s)
      OBVIOUS
    <3>2. Agrees(p, x)
      BY <2>2, <3>1
    <3>3. /\ Agrees([p EXCEPT !.readingKey = TRUE, !.key = Native!NoText], x)
          /\ [p EXCEPT !.readingKey = TRUE, !.key = Native!NoText].readingKey
      BY <3>2, Marking
    <3>4. QED
      BY <2>1, <3>1, <3>3
  <2>4. Ready(After("native", s, o), "key")
    BY <2>3 DEF Ready
  <2>5. ASSUME NEW u, Agrees(Native!DoneIfCollecting(u), y) PROVE Agrees(After("native", u, e), w)
    <3>1. After("native", u, e) = [Native!CloseBrace(Native!DoneIfCollecting(u)) EXCEPT !.readingKey = FALSE]
      BY DEF After, TokenDone, Native!Sym
    <3>2. Agrees(Native!CloseBrace(Native!DoneIfCollecting(u)), w)
      BY <2>5
    <3>3. PICK p : p = Native!CloseBrace(Native!DoneIfCollecting(u))
      OBVIOUS
    <3>4. Agrees([p EXCEPT !.readingKey = FALSE], w)
      BY <3>2, <3>3, Marking
    <3>5. QED
      BY <3>1, <3>3, <3>4
  <2> HIDE DEF o, e, xs
  <2>6. QED
    BY <1>1, <2>3, <2>4, <2>5, StepsBetween DEF xs
<1>3. <<o>> \o xs \o <<e>> \in Seq(Tokens)
  <2> HIDE DEF o, e, xs
  <2>1. QED
    BY <1>1
<1>4. QED
  BY <1>2, <1>3 DEF Steps, Native!Object

\* An array.
LEMMA ArrayRead ==
  ASSUME NEW m, NEW v, NEW x, NEW y, NEW w, NEW items, Steps("any", x, Native!Commas(items), y),
         \A s : Agrees(s, v) /\ Ready(s, m) => Agrees(Native!OpenBracket(s), x),
         \A s : Agrees(s, y) => Agrees(Native!CloseBracket(s), w)
  PROVE  Steps(m, v, Native!Array(items), w)
<1> DEFINE o == Native!Sym("bracket")
           e == Native!Sym("end bracket")
           xs == Native!Commas(items)
<1>1. <<o>> \in Seq(Tokens) /\ <<e>> \in Seq(Tokens) /\ xs \in Seq(Tokens)
  BY MarkTokens DEF Steps
<1>2. ASSUME NEW s, Agrees(s, v), Ready(s, m) PROVE Reads(s, <<o>> \o xs \o <<e>>, w)
  <2>1. After("native", s, o) = Native!OpenBracket(s)
    BY DEF After, TokenDone, Native!Sym
  <2>2. Agrees(After("native", s, o), x)
    BY <1>2, <2>1
  <2>3. Ready(After("native", s, o), "any")
    BY DEF Ready
  <2>4. ASSUME NEW u, Agrees(Native!DoneIfCollecting(u), y) PROVE Agrees(After("native", u, e), w)
    <3>1. After("native", u, e) = Native!CloseBracket(Native!DoneIfCollecting(u))
      BY DEF After, TokenDone, Native!Sym
    <3>2. QED
      BY <2>4, <3>1
  <2> HIDE DEF o, e, xs
  <2>5. QED
    BY <1>1, <2>2, <2>3, <2>4, StepsBetween DEF xs
<1>3. <<o>> \o xs \o <<e>> \in Seq(Tokens)
  <2> HIDE DEF o, e, xs
  <2>1. QED
    BY <1>1
<1>4. QED
  BY <1>2, <1>3 DEF Steps, Native!Array

\* One level down.
Deeper(v) == [v EXCEPT !.depth = v.depth + 1]

\* Nothing else changes.
LEMMA DeeperIs ==
  ASSUME NEW v, DOMAIN v = ViewFields
  PROVE  /\ DOMAIN Deeper(v) = ViewFields /\ Deeper(v).depth = v.depth + 1
         /\ \A f \in ViewFields \ {"depth"} : Deeper(v)[f] = v[f]
BY DEF Deeper, ViewFields

\* Objects inside that are neither a release nor a file leave everything as it is.
LEMMA OpenInner ==
  ASSUME NEW v, v.depth \in Nat, v.depth # 1, ~(v.inAssets /\ v.depth = 3), NEW s, Agrees(s, v)
  PROVE  Agrees(Native!OpenBrace(s), Deeper(v))
<1> DEFINE d == [s EXCEPT !.depth = @ + 1]
<1>1. /\ DOMAIN d = JsonFields /\ d.depth = s.depth + 1
      /\ \A f \in JsonFields \ {"depth"} : d[f] = s[f]
  BY DEF Agrees, JsonFields
<1>2. /\ d.depth = v.depth + 1 /\ d.inAssets = v.inAssets /\ (d.inAssets => d.assetsDepth = 3)
  BY <1>1 DEF Agrees, JsonFields
<1>3. Native!OpenBrace(s) = d
  <2>1. d.depth # 2 /\ ~Native!InAsset(d)
    BY <1>2 DEF Native!InAsset
  <2>2. QED
    BY <2>1 DEF Native!OpenBrace
<1> HIDE DEF d
<1>4. /\ DOMAIN Deeper(v) = ViewFields /\ Deeper(v).depth = v.depth + 1
      /\ \A f \in ViewFields \ {"depth"} : Deeper(v)[f] = v[f]
  BY DeeperIs DEF Agrees
<1>5. Agrees(d, Deeper(v))
  BY <1>1, <1>2, <1>4 DEF Agrees, JsonFields, ViewFields
<1>6. QED
  BY <1>3, <1>5

\* So do their closing braces.
LEMMA CloseInner ==
  ASSUME NEW v, DOMAIN v = ViewFields, v.depth \in Nat, v.depth # 1, ~(v.inAssets /\ v.depth = 3),
         NEW s, Agrees(s, Deeper(v))
  PROVE  Agrees(Native!CloseBrace(s), v)
<1>1. /\ DOMAIN Deeper(v) = ViewFields /\ Deeper(v).depth = v.depth + 1
      /\ \A f \in ViewFields \ {"depth"} : Deeper(v)[f] = v[f]
  BY DeeperIs
<1>2. s.depth = v.depth + 1 /\ s.inAssets = v.inAssets /\ (s.inAssets => s.assetsDepth = 3)
  BY <1>1 DEF Agrees, ViewFields
<1> DEFINE d == [s EXCEPT !.depth = IF @ > 0 THEN @ - 1 ELSE 0]
<1>3. Native!CloseBrace(s) = d
  <2>1. s.depth # 2 /\ ~Native!InAsset(s)
    BY <1>2 DEF Native!InAsset
  <2>2. QED
    BY <2>1 DEF Native!CloseBrace
<1>4. /\ DOMAIN d = JsonFields /\ d.depth = v.depth
      /\ \A f \in JsonFields \ {"depth"} : d[f] = s[f]
  BY <1>2 DEF Agrees, JsonFields
<1> HIDE DEF d
<1>5. Agrees(d, v)
  BY <1>1, <1>4 DEF Agrees, JsonFields, ViewFields
<1>6. QED
  BY <1>3, <1>5

\* The first two fields of an object, or the first.
LEMMA FirstFields ==
  ASSUME NEW v, NEW w, NEW f, Steps("key", v, f, w)
  PROVE  Steps("key", v, Native!Commas(<<f>>), w)
<1>1. Steps("key", v, Native!Commas(<<>>), v)
  <2>1. Native!Commas(<<>>) = <<>>
    <3>1. Native!Sym("comma") \in Tokens
      BY Marks DEF Plain
    <3>2. <<>> \in Seq(Seq(Tokens)) /\ <<>> \in Seq(Tokens)
      OBVIOUS
    <3>3. QED
      BY <3>1, <3>2, CommasMore
  <2>2. QED
    BY <2>1, StepsNone
<1>2. <<f>> = Append(<<>>, f) /\ <<>> \in Seq(Seq(Tokens))
  OBVIOUS
<1>3. QED
  BY <1>1, <1>2, StepsNext

\* The owner of a release or a file: json.c does not look into it, although its
\* keys have the same names.
LEMMA PersonRead ==
  ASSUME NEW v, DOMAIN v = ViewFields, v.depth = 4 \/ (v.depth = 2 /\ ~v.inAssets)
  PROVE  Steps("any", v, Native!Person, v)
<1> DEFINE x == Deeper(v)
           name == Native!Field("name", <<Native!Str("someone")>>)
           size == Native!Field("size", <<Native!Lit("1")>>)
<1>1. /\ x.depth = v.depth + 1 /\ x.inAssets = v.inAssets
  BY DeeperIs DEF ViewFields
<1>2. v.depth \in Nat /\ v.depth # 1 /\ ~(v.inAssets /\ v.depth = 3)
  OBVIOUS
<1>3. \A k : ~Wanted(x, k)
  BY <1>1 DEF Wanted
<1>4. "name" \in Texts /\ "size" \in Texts /\ "someone" \in Texts /\ "1" \in Texts
  BY DEF Texts, Words
<1>5. Steps("key", x, name, x)
  <2>1. Steps("any", x, <<Native!Str("someone")>>, x)
    BY <1>4, PlainValue DEF IsValue
  <2>2. QED
    BY <1>3, <1>4, <2>1, FieldOf
<1>6. Steps("key", x, size, x)
  <2>1. Steps("any", x, <<Native!Lit("1")>>, x)
    BY <1>4, PlainValue DEF IsValue
  <2>2. QED
    BY <1>3, <1>4, <2>1, FieldOf
<1> HIDE DEF name, size
<1>7. Steps("key", x, Native!Commas(<<name>>), x)
  BY <1>5, FirstFields
<1>8. <<name, size>> = Append(<<name>>, size) /\ <<name>> \in Seq(Seq(Tokens))
  BY <1>5 DEF Steps
<1>9. Steps("key", x, Native!Commas(<<name, size>>), x)
  BY <1>6, <1>7, <1>8, StepsNext
<1> HIDE DEF x
<1>10. \A s : Agrees(s, v) => Agrees(Native!OpenBrace(s), x)
  BY <1>2, OpenInner DEF x
<1>11. \A s : Agrees(s, x) => Agrees(Native!CloseBrace(s), v)
  BY <1>2, CloseInner DEF x
<1>12. Steps("any", v, Native!Object(<<name, size>>), v)
  BY <1>9, <1>10, <1>11, ObjectRead
<1>13. QED
  BY <1>12 DEF Native!Person, name, size

(***************************************************************************)
(* The files of a release.                                                 *)
(***************************************************************************)

\* A file has begun: its place is in the release or, if that is full, the spare one.
FileBegun(v) ==
  IF ~v.live THEN [v EXCEPT !.depth = 4]
  ELSE [v EXCEPT !.depth = 4, !.where = IF Len(v.files) < MaxAssets THEN "slot" ELSE "spare",
                 !.name = Native!NoText, !.size = "0", !.path = Native!NoText]

\* The release with one more file, or with one that makes room for it.
WithFile(v, e) ==
  IF ~v.live THEN v
  ELSE IF Len(v.files) < MaxAssets THEN [v EXCEPT !.files = Append(v.files, e)]
  ELSE [v EXCEPT !.files = Native!GfAssetOffer(v.files, e), !.skipped = v.skipped + 1]

\* Where files are listed, between two of them.
AmongFiles(v) == /\ DOMAIN v = ViewFields /\ v.depth = 3 /\ v.inAssets /\ v.where = "none"

\* Nothing of the release changes.
LEMMA FileBegunIs ==
  ASSUME NEW v, AmongFiles(v)
  PROVE  LET x == FileBegun(v) IN
         /\ DOMAIN x = ViewFields /\ x.depth = 4
         /\ \A f \in ViewFields \ {"depth", "where", "name", "size", "path"} : x[f] = v[f]
         /\ x.where = IF ~v.live THEN "none" ELSE IF Len(v.files) < MaxAssets THEN "slot" ELSE "spare"
         /\ v.live => x.name = Native!NoText /\ x.size = "0" /\ x.path = Native!NoText
BY DEF AmongFiles, FileBegun, ViewFields

\* The opening brace of a file finds it its place.
LEMMA OpenFile ==
  ASSUME NEW v, AmongFiles(v), NEW s, Agrees(s, v)
  PROVE  Agrees(Native!OpenBrace(s), FileBegun(v))
<1> DEFINE d == [s EXCEPT !.depth = @ + 1]
           x == FileBegun(v)
           p == Native!AssetPlace(d)
           t == [d EXCEPT !.asset = p]
<1>1. /\ DOMAIN x = ViewFields /\ x.depth = 4
      /\ \A f \in ViewFields \ {"depth", "where", "name", "size", "path"} : x[f] = v[f]
      /\ x.where = IF ~v.live THEN "none" ELSE IF Len(v.files) < MaxAssets THEN "slot" ELSE "spare"
      /\ v.live => x.name = Native!NoText /\ x.size = "0" /\ x.path = Native!NoText
  BY FileBegunIs
<1> HIDE DEF x
<1>2. s.depth = 3 /\ s.inAssets /\ s.assetsDepth = 3 /\ DOMAIN s = JsonFields
  BY DEF Agrees, AmongFiles
<1>3. /\ DOMAIN d = JsonFields /\ d.depth = 4 /\ \A f \in JsonFields \ {"depth"} : d[f] = s[f]
  BY <1>2 DEF JsonFields
<1> HIDE DEF d
<1>4. d.inAssets /\ d.assetsDepth = 3 /\ d.cur = s.cur
  BY <1>2, <1>3 DEF JsonFields
<1>5. d.depth # 2 /\ Native!InAsset(d)
  BY <1>3, <1>4 DEF Native!InAsset
<1>6. Native!OpenBrace(s) = t
  BY <1>5 DEF Native!OpenBrace, d
<1>7. s.cur.live = v.live /\ (v.live => s.cur.files = v.files)
  BY DEF Agrees
<1>8. /\ DOMAIN p = AssetFields /\ p.where = x.where
      /\ v.live => p.name = Native!NoText /\ p.size = "0" /\ p.path = Native!NoText
  BY <1>1, <1>4, <1>7 DEF Native!AssetPlace, Native!NewAsset, Native!NoAsset, AssetFields
<1> HIDE DEF p
<1>9. /\ DOMAIN t = JsonFields /\ t.asset = p /\ \A f \in JsonFields \ {"asset"} : t[f] = d[f]
  BY <1>3 DEF JsonFields
<1> HIDE DEF t
<1>10. \A f \in {"collecting", "inAssets", "assetsDepth", "list", "cur", "isDraft", "zip"} : t[f] = s[f]
  BY <1>3, <1>9 DEF JsonFields
<1>11. t.depth = 4
  BY <1>3, <1>9 DEF JsonFields
<1>12. /\ DOMAIN t.cur = CurFields /\ DOMAIN t.asset = AssetFields /\ ~t.collecting
       /\ (t.inAssets => t.assetsDepth = 3) /\ t.inAssets = x.inAssets /\ t.list = x.list
       /\ t.cur.live = x.live
  BY <1>1, <1>8, <1>9, <1>10 DEF Agrees, ViewFields
<1>13. x.live => /\ t.cur.tag = x.tag /\ t.cur.date = x.date /\ t.cur.title = x.title
                 /\ t.cur.prerelease = x.prerelease /\ t.cur.files = x.files
                 /\ t.cur.skipped = x.skipped /\ t.isDraft = x.isDraft /\ t.zip = x.zip
  BY <1>1, <1>10 DEF Agrees, ViewFields
<1>14. x.where # "none" => t.asset.name = x.name /\ t.asset.size = x.size /\ t.asset.path = x.path
  BY <1>1, <1>8, <1>9
<1>15. Agrees(t, x)
  BY <1>1, <1>8, <1>9, <1>11, <1>12, <1>13, <1>14 DEF Agrees
<1>16. QED
  BY <1>6, <1>15 DEF x

\* A file with a name and an address has ended.
LEMMA CloseFile ==
  ASSUME NEW v, AmongFiles(v), NEW y, NEW e, DOMAIN e = {"name", "size", "path"},
         e.name # Native!NoText, e.path # Native!NoText,
         DOMAIN y = ViewFields, y.depth = 4, y.where = FileBegun(v).where,
         \A f \in ViewFields \ {"depth", "where", "name", "size", "path"} : y[f] = v[f],
         v.live => y.name = e.name /\ y.size = e.size /\ y.path = e.path,
         e = [name |-> e.name, size |-> e.size, path |-> e.path],
         NEW s, Agrees(s, y)
  PROVE  Agrees(Native!CloseBrace(s), WithFile(v, e))
<1> DEFINE w == WithFile(v, e)
           r == Native!EndAsset(s)
           t == [r EXCEPT !.depth = IF @ > 0 THEN @ - 1 ELSE 0]
<1>1. DOMAIN v = ViewFields /\ v.depth = 3 /\ v.inAssets /\ v.where = "none"
  BY DEF AmongFiles
<1>2. s.depth = 4 /\ s.inAssets /\ s.assetsDepth = 3 /\ DOMAIN s = JsonFields
  BY <1>1 DEF Agrees, ViewFields
<1>3. Native!CloseBrace(s) = t
  <2>1. s.depth # 2 /\ Native!InAsset(s)
    BY <1>2 DEF Native!InAsset
  <2>2. QED
    BY <2>1 DEF Native!CloseBrace
<1>4. y.where = IF ~v.live THEN "none" ELSE IF Len(v.files) < MaxAssets THEN "slot" ELSE "spare"
  BY FileBegunIs
<1>5. /\ s.asset.where = y.where /\ s.cur.live = v.live /\ s.inAssets = v.inAssets
      /\ s.list = v.list
  BY DEF Agrees, ViewFields
<1>6. v.live => /\ s.cur.tag = v.tag /\ s.cur.date = v.date /\ s.cur.title = v.title
                /\ s.cur.prerelease = v.prerelease /\ s.cur.files = v.files
                /\ s.cur.skipped = v.skipped /\ s.isDraft = v.isDraft /\ s.zip = v.zip
  BY DEF Agrees, ViewFields
<1>7. /\ DOMAIN s.cur = CurFields /\ DOMAIN s.asset = AssetFields /\ ~s.collecting
  BY DEF Agrees
<1>8. /\ DOMAIN w = ViewFields
      /\ \A f \in ViewFields \ {"files", "skipped"} : w[f] = v[f]
      /\ v.live => /\ w.files = IF Len(v.files) < MaxAssets THEN Append(v.files, e)
                                ELSE Native!GfAssetOffer(v.files, e)
                   /\ w.skipped = IF Len(v.files) < MaxAssets THEN v.skipped ELSE v.skipped + 1
  BY <1>1 DEF WithFile, ViewFields
<1> HIDE DEF w
<1>9. /\ DOMAIN r = JsonFields /\ r.asset.where = "none" /\ DOMAIN r.asset = AssetFields
      /\ \A f \in JsonFields \ {"asset", "cur"} : r[f] = s[f]
      /\ DOMAIN r.cur = CurFields
      /\ \A f \in CurFields \ {"files", "skipped"} : r.cur[f] = s.cur[f]
      /\ v.live => r.cur.files = w.files /\ r.cur.skipped = w.skipped
  <2>0. DOMAIN Native!NoAsset = AssetFields /\ Native!NoAsset.where = "none"
    BY DEF Native!NoAsset, Native!NewAsset, AssetFields
  <2>1. CASE ~v.live
    <3>1. s.asset.where = "none"
      BY <1>4, <1>5, <2>1
    <3>2. r = s
      BY <3>1 DEF Native!EndAsset
    <3>3. QED
      BY <1>2, <1>7, <2>1, <3>1, <3>2
  <2>2. CASE v.live
    <3> DEFINE a == [name |-> s.asset.name, size |-> s.asset.size, path |-> s.asset.path]
    <3>1. s.asset.where # "none" /\ y.where # "none"
      BY <1>4, <1>5, <2>2
    <3>2. s.asset.name = e.name /\ s.asset.size = e.size /\ s.asset.path = e.path
      BY <2>2, <3>1 DEF Agrees
    <3>3. a = e
      BY <3>2
    <3>4. s.asset.name # Native!NoText /\ s.asset.path # Native!NoText
      BY <3>2
    <3>5. s.asset.where = IF Len(v.files) < MaxAssets THEN "slot" ELSE "spare"
      BY <1>4, <1>5, <2>2
    <3>6. CASE Len(v.files) < MaxAssets
      <4>1. r = [s EXCEPT !.cur.files = Append(@, e), !.asset = Native!NoAsset]
        BY <3>1, <3>3, <3>4, <3>5, <3>6 DEF Native!EndAsset
      <4>2. w.files = Append(v.files, e) /\ w.skipped = v.skipped
        BY <1>8, <2>2, <3>6
      <4> DEFINE c == [s.cur EXCEPT !.files = Append(s.cur.files, e)]
      <4>3. /\ DOMAIN c = CurFields /\ c.files = Append(s.cur.files, e)
            /\ \A f \in CurFields \ {"files"} : c[f] = s.cur[f]
        BY <1>7 DEF CurFields
      <4>4. r = [s EXCEPT !.cur = c, !.asset = Native!NoAsset]
        BY <1>2, <4>1 DEF JsonFields
      <4> HIDE DEF c
      <4>5. /\ DOMAIN r = JsonFields /\ r.cur = c /\ r.asset = Native!NoAsset
            /\ \A f \in JsonFields \ {"asset", "cur"} : r[f] = s[f]
        BY <1>2, <4>4 DEF JsonFields
      <4>6. c.skipped = s.cur.skipped /\ s.cur.files = v.files /\ s.cur.skipped = v.skipped
        BY <1>6, <2>2, <4>3 DEF CurFields
      <4>7. QED
        BY <2>0, <4>2, <4>3, <4>5, <4>6
    <3>7. CASE ~(Len(v.files) < MaxAssets)
      <4>1. r = [s EXCEPT !.cur.files = Native!GfAssetOffer(@, e), !.cur.skipped = @ + 1,
                          !.asset = Native!NoAsset]
        BY <3>1, <3>3, <3>4, <3>5, <3>7 DEF Native!EndAsset
      <4>2. w.files = Native!GfAssetOffer(v.files, e) /\ w.skipped = v.skipped + 1
        BY <1>8, <2>2, <3>7
      <4> DEFINE c == [s.cur EXCEPT !.files = Native!GfAssetOffer(s.cur.files, e),
                                    !.skipped = s.cur.skipped + 1]
      <4>3. /\ DOMAIN c = CurFields /\ c.files = Native!GfAssetOffer(s.cur.files, e)
            /\ c.skipped = s.cur.skipped + 1
            /\ \A f \in CurFields \ {"files", "skipped"} : c[f] = s.cur[f]
        BY <1>7 DEF CurFields
      <4>4. r = [s EXCEPT !.cur = c, !.asset = Native!NoAsset]
        BY <1>2, <4>1 DEF JsonFields
      <4> HIDE DEF c
      <4>5. /\ DOMAIN r = JsonFields /\ r.cur = c /\ r.asset = Native!NoAsset
            /\ \A f \in JsonFields \ {"asset", "cur"} : r[f] = s[f]
        BY <1>2, <4>4 DEF JsonFields
      <4>6. s.cur.files = v.files /\ s.cur.skipped = v.skipped
        BY <1>6, <2>2
      <4>7. QED
        BY <2>0, <4>2, <4>3, <4>5, <4>6
    <3>8. QED
      BY <3>6, <3>7
  <2>3. QED
    BY <1>5, <2>1, <2>2
<1> HIDE DEF r
<1>10. /\ DOMAIN t = JsonFields /\ t.depth = 3 /\ \A f \in JsonFields \ {"depth"} : t[f] = r[f]
  <2>1. r.depth = 4
    BY <1>2, <1>9 DEF JsonFields
  <2>2. QED
    BY <1>9, <2>1 DEF JsonFields
<1> HIDE DEF t
<1>11. /\ \A f \in {"collecting", "inAssets", "assetsDepth", "list", "isDraft", "zip"} : t[f] = s[f]
       /\ t.cur = r.cur /\ t.asset = r.asset
  BY <1>9, <1>10 DEF JsonFields
<1>12. /\ w.depth = 3 /\ w.inAssets = v.inAssets /\ w.list = v.list /\ w.live = v.live
       /\ w.where = "none" /\ w.tag = v.tag /\ w.date = v.date /\ w.title = v.title
       /\ w.prerelease = v.prerelease /\ w.isDraft = v.isDraft /\ w.zip = v.zip
  BY <1>1, <1>8 DEF ViewFields
<1>13. /\ r.cur.tag = s.cur.tag /\ r.cur.date = s.cur.date /\ r.cur.title = s.cur.title
       /\ r.cur.prerelease = s.cur.prerelease /\ r.cur.live = s.cur.live
  BY <1>9 DEF CurFields
<1>14. Agrees(t, w)
  <2>1. /\ DOMAIN t.cur = CurFields /\ DOMAIN t.asset = AssetFields /\ ~t.collecting
        /\ (t.inAssets => t.assetsDepth = 3) /\ t.inAssets = w.inAssets /\ t.list = w.list
        /\ t.cur.live = w.live /\ t.asset.where = w.where /\ t.depth = w.depth
    BY <1>2, <1>5, <1>7, <1>9, <1>10, <1>11, <1>12, <1>13
  <2>2. w.live => /\ t.cur.tag = w.tag /\ t.cur.date = w.date /\ t.cur.title = w.title
                  /\ t.cur.prerelease = w.prerelease /\ t.cur.files = w.files
                  /\ t.cur.skipped = w.skipped /\ t.isDraft = w.isDraft /\ t.zip = w.zip
    BY <1>6, <1>9, <1>11, <1>12, <1>13
  <2>3. QED
    BY <1>8, <1>10, <1>12, <2>1, <2>2 DEF Agrees
<1>15. QED
  BY <1>3, <1>14 DEF w

\* An asset in an answer of GitHub: it has a name and an address.
ProperAsset(a) == /\ a.name \in Texts /\ a.size \in Texts /\ a.url \in Texts
                  /\ a.name # Native!NoText /\ a.url # Native!NoText

\* A file is listed as it is, whatever its owner is called.
LEMMA AssetRead ==
  ASSUME NEW v, AmongFiles(v), NEW a, ProperAsset(a)
  PROVE  Steps("any", v, Native!AssetJson(a), WithFile(v, Native!FileOf(a)))
<1> DEFINE e  == Native!FileOf(a)
           x  == FileBegun(v)
           x1 == StoredAsset(x, "name", a.name)
           x2 == StoredAsset(x1, "size", a.size)
           y  == StoredAsset(x2, "browser_download_url", a.url)
           f1 == Native!Field("name", <<Native!Str(a.name)>>)
           f2 == Native!Field("uploader", Native!Person)
           f3 == Native!Field("size", <<Native!Lit(a.size)>>)
           f4 == Native!Field("browser_download_url", <<Native!Str(a.url)>>)
<1>1. /\ DOMAIN x = ViewFields /\ x.depth = 4
      /\ \A f \in ViewFields \ {"depth", "where", "name", "size", "path"} : x[f] = v[f]
      /\ x.where = IF ~v.live THEN "none" ELSE IF Len(v.files) < MaxAssets THEN "slot" ELSE "spare"
  BY FileBegunIs
<1>2. x.inAssets
  <2>1. x.inAssets = v.inAssets
    BY <1>1 DEF ViewFields
  <2>2. QED
    BY <2>1 DEF AmongFiles
<1> HIDE DEF x
<1>3. /\ DOMAIN x1 = ViewFields /\ x1.depth = 4 /\ x1.inAssets /\ x1.where = x.where
      /\ \A f \in ViewFields \ {"name", "size", "path"} : x1[f] = x[f]
      /\ x.where # "none" => x1.name = a.name
  BY <1>1, <1>2 DEF StoredAsset, ViewFields
<1> HIDE DEF x1
<1>4. /\ DOMAIN x2 = ViewFields /\ x2.depth = 4 /\ x2.inAssets /\ x2.where = x.where
      /\ \A f \in ViewFields \ {"name", "size", "path"} : x2[f] = x[f]
      /\ x.where # "none" => x2.name = a.name /\ x2.size = a.size
  BY <1>3 DEF StoredAsset, ViewFields
<1> HIDE DEF x2
<1>5. /\ DOMAIN y = ViewFields /\ y.depth = 4 /\ y.where = x.where
      /\ \A f \in ViewFields \ {"name", "size", "path"} : y[f] = x[f]
      /\ x.where # "none" => y.name = a.name /\ y.size = a.size /\ y.path = a.url
  BY <1>4 DEF StoredAsset, ViewFields
<1> HIDE DEF y
<1>6. /\ "name" \in AssetKeys /\ "size" \in AssetKeys /\ "browser_download_url" \in AssetKeys
      /\ "name" \in Texts /\ "size" \in Texts /\ "browser_download_url" \in Texts
      /\ "uploader" \in Texts /\ "uploader" \notin AssetKeys
  BY DEF AssetKeys, Texts, Words
<1>7. /\ IsValue(Native!Str(a.name), a.name) /\ IsValue(Native!Lit(a.size), a.size)
      /\ IsValue(Native!Str(a.url), a.url)
  BY DEF IsValue, ProperAsset
<1>8. Steps("key", x, f1, x1)
  BY <1>1, <1>2, <1>6, <1>7, AssetField DEF x1
<1>9. Steps("key", x1, f2, x1)
  <2>1. ~Wanted(x1, "uploader")
    BY <1>3, <1>6 DEF Wanted
  <2>2. Steps("any", x1, Native!Person, x1)
    BY <1>3, PersonRead
  <2>3. QED
    BY <1>6, <2>1, <2>2, FieldOf
<1>10. Steps("key", x1, f3, x2)
  BY <1>3, <1>6, <1>7, AssetField DEF x2
<1>11. Steps("key", x2, f4, y)
  BY <1>4, <1>6, <1>7, AssetField DEF y
<1> HIDE DEF f1, f2, f3, f4, e
<1>12. /\ f1 \in Seq(Tokens) /\ f2 \in Seq(Tokens) /\ f3 \in Seq(Tokens) /\ f4 \in Seq(Tokens)
  BY <1>8, <1>9, <1>10, <1>11 DEF Steps
<1>13. Steps("key", x, Native!Commas(<<f1>>), x1)
  BY <1>8, FirstFields
<1>14. Steps("key", x, Native!Commas(<<f1, f2>>), x1)
  <2>1. <<f1, f2>> = Append(<<f1>>, f2) /\ <<f1>> \in Seq(Seq(Tokens))
    BY <1>12
  <2>2. QED
    BY <1>9, <1>13, <2>1, StepsNext
<1>15. Steps("key", x, Native!Commas(<<f1, f2, f3>>), x2)
  <2>1. <<f1, f2, f3>> = Append(<<f1, f2>>, f3) /\ <<f1, f2>> \in Seq(Seq(Tokens))
    BY <1>12
  <2>2. QED
    BY <1>10, <1>14, <2>1, StepsNext
<1>16. Steps("key", x, Native!Commas(<<f1, f2, f3, f4>>), y)
  <2>1. <<f1, f2, f3, f4>> = Append(<<f1, f2, f3>>, f4) /\ <<f1, f2, f3>> \in Seq(Seq(Tokens))
    BY <1>12
  <2>2. QED
    BY <1>11, <1>15, <2>1, StepsNext
<1>17. \A s : Agrees(s, v) => Agrees(Native!OpenBrace(s), x)
  BY OpenFile DEF x
<1>18. /\ DOMAIN e = {"name", "size", "path"} /\ e.name = a.name /\ e.size = a.size
       /\ e.path = a.url /\ e = [name |-> e.name, size |-> e.size, path |-> e.path]
  BY DEF e, Native!FileOf
<1>19. e.name # Native!NoText /\ e.path # Native!NoText
  BY <1>18 DEF ProperAsset
<1>20. \A f \in ViewFields \ {"depth", "where", "name", "size", "path"} : y[f] = v[f]
  BY <1>1, <1>5
<1>21. v.live => y.name = e.name /\ y.size = e.size /\ y.path = e.path
  BY <1>1, <1>5, <1>18
<1>22. \A s : Agrees(s, y) => Agrees(Native!CloseBrace(s), WithFile(v, e))
  BY <1>5, <1>18, <1>19, <1>20, <1>21, CloseFile DEF x
<1>23. Steps("any", v, Native!Object(<<f1, f2, f3, f4>>), WithFile(v, e))
  BY <1>16, <1>17, <1>22, ObjectRead
<1>24. QED
  BY <1>23 DEF Native!AssetJson, f1, f2, f3, f4, e

(***************************************************************************)
(* Items, and the choice among files.                                      *)
(***************************************************************************)

\* The first n of J.
FirstOf(J, n) == [i \in 1 .. n |-> J[i]]

\* One more of them.
LEMMA FirstNext ==
  ASSUME NEW S, NEW J \in Seq(S), NEW n \in Nat, n + 1 <= Len(J)
  PROVE  /\ FirstOf(J, n + 1) = Append(FirstOf(J, n), J[n + 1])
         /\ FirstOf(J, n) \in Seq(S) /\ J[n + 1] \in S /\ n + 1 \in 1 .. Len(J)
<1> DEFINE f == FirstOf(J, n)
           g == FirstOf(J, n + 1)
<1>1. n + 1 \in 1 .. Len(J) /\ J[n + 1] \in S
  OBVIOUS
<1>2. f \in Seq(S) /\ Len(f) = n /\ \A i \in 1 .. n : f[i] = J[i]
  BY DEF FirstOf
<1>3. g \in Seq(S) /\ Len(g) = n + 1 /\ \A i \in 1 .. n + 1 : g[i] = J[i]
  BY DEF FirstOf
<1> HIDE DEF f, g
<1>4. PICK e \in S : e = J[n + 1]
  BY <1>1
<1>5. /\ Append(f, e) \in Seq(S) /\ Len(Append(f, e)) = n + 1 /\ Append(f, e)[n + 1] = e
      /\ \A i \in 1 .. n : Append(f, e)[i] = f[i]
  BY <1>2
<1>6. \A i \in 1 .. n + 1 : i \in 1 .. n \/ i = n + 1
  OBVIOUS
<1>7. \A i \in 1 .. Len(g) : g[i] = Append(f, e)[i]
  BY <1>2, <1>3, <1>4, <1>5, <1>6
<1>8. g = Append(f, e)
  BY <1>3, <1>5, <1>7, SameSeq
<1>9. QED
  BY <1>1, <1>2, <1>4, <1>8 DEF f, g

\* All of them, and none.
LEMMA FirstAll ==
  ASSUME NEW S, NEW J \in Seq(S)
  PROVE  FirstOf(J, Len(J)) = J /\ FirstOf(J, 0) = <<>>
<1> DEFINE g == FirstOf(J, Len(J))
<1>1. g \in Seq(S) /\ Len(g) = Len(J) /\ \A i \in 1 .. Len(J) : g[i] = J[i]
  BY DEF FirstOf
<1> HIDE DEF g
<1>2. g = J
  BY <1>1, SameSeq
<1>3. QED
  BY <1>2 DEF g, FirstOf

\* Items of an array, one after the other.
LEMMA ItemsRead ==
  ASSUME NEW J \in Seq(Seq(Tokens)), NEW V,
         \A i \in 1 .. Len(J) : Steps("any", V[i - 1], J[i], V[i])
  PROVE  Steps("any", V[0], Native!Commas(J), V[Len(J)])
<1> DEFINE P(n) == n <= Len(J) => Steps("any", V[0], Native!Commas(FirstOf(J, n)), V[n])
           T == {n \in Nat : P(n)}
<1>1. Len(J) \in Nat
  OBVIOUS
<1>2. 0 \in T
  <2>1. Native!Sym("comma") \in Tokens
    BY Marks DEF Plain
  <2>2. <<>> \in Seq(Seq(Tokens)) /\ <<>> \in Seq(Tokens)
    OBVIOUS
  <2>3. Native!Commas(<<>>) = <<>>
    BY <2>1, <2>2, CommasMore
  <2>4. Steps("any", V[0], <<>>, V[0])
    BY StepsNone
  <2>5. FirstOf(J, 0) = <<>>
    BY FirstAll
  <2>6. QED
    BY <2>3, <2>4, <2>5
<1>3. ASSUME NEW n \in T PROVE n + 1 \in T
  <2>1. n \in Nat /\ n + 1 \in Nat
    OBVIOUS
  <2>2. CASE n + 1 <= Len(J)
    <3>1. n <= Len(J)
      BY <1>1, <2>1, <2>2
    <3>2. Steps("any", V[0], Native!Commas(FirstOf(J, n)), V[n])
      BY <3>1
    <3>3. /\ FirstOf(J, n + 1) = Append(FirstOf(J, n), J[n + 1])
          /\ FirstOf(J, n) \in Seq(Seq(Tokens))
      BY <2>1, <2>2, FirstNext
    <3>4. PICK j \in 1 .. Len(J) : j = n + 1 /\ j - 1 = n
      BY <1>1, <2>1, <2>2
    <3>5. Steps("any", V[j - 1], J[j], V[j])
      OBVIOUS
    <3>6. Steps("any", V[n], J[n + 1], V[n + 1])
      BY <3>4, <3>5
    <3>7. Steps("any", V[0], Native!Commas(Append(FirstOf(J, n), J[n + 1])), V[n + 1])
      BY <3>2, <3>3, <3>6, StepsNext
    <3>8. QED
      BY <2>1, <3>3, <3>7
  <2>3. CASE ~(n + 1 <= Len(J))
    BY <2>1, <2>3
  <2>4. QED
    BY <2>2, <2>3
<1>4. T \subseteq Nat
  OBVIOUS
<1> HIDE DEF T
<1>5. T = Nat
  BY <1>2, <1>3, <1>4, Induction
<1>6. Len(J) \in T
  BY <1>1, <1>5
<1>7. P(Len(J))
  BY <1>6 DEF T
<1>8. FirstOf(J, Len(J)) = J
  BY FirstAll
<1>9. QED
  BY <1>1, <1>7, <1>8

\* Two views with the same fields are one.
Alike(v, w) == DOMAIN v = ViewFields /\ DOMAIN w = ViewFields /\ \A f \in ViewFields : v[f] = w[f]

\* A parser agrees with both or with neither.
LEMMA AgreesAlike ==
  ASSUME NEW v, NEW w, Alike(v, w), NEW s
  PROVE  Agrees(s, v) <=> Agrees(s, w)
<1>1. /\ v.depth = w.depth /\ v.inAssets = w.inAssets /\ v.list = w.list /\ v.live = w.live
      /\ v.tag = w.tag /\ v.date = w.date /\ v.title = w.title /\ v.prerelease = w.prerelease
      /\ v.files = w.files /\ v.skipped = w.skipped /\ v.isDraft = w.isDraft /\ v.zip = w.zip
      /\ v.where = w.where /\ v.name = w.name /\ v.size = w.size /\ v.path = w.path
      /\ DOMAIN v = ViewFields /\ DOMAIN w = ViewFields
  BY DEF Alike, ViewFields
<1>2. QED
  BY <1>1 DEF Agrees

\* One may be taken for the other.
LEMMA StepsAlike ==
  ASSUME NEW m, NEW v, NEW xs, NEW w, Steps(m, v, xs, w), NEW x, Alike(x, v), NEW y, Alike(w, y)
  PROVE  Steps(m, x, xs, y)
<1>1. ASSUME NEW s, Agrees(s, x), Ready(s, m) PROVE Reads(s, xs, y)
  <2>1. Agrees(s, v)
    BY <1>1, AgreesAlike
  <2>2. PICK u : Runs("native", s, xs, u) /\ Agrees(Native!DoneIfCollecting(u), w)
    BY <1>1, <2>1 DEF Steps, Reads
  <2>3. Agrees(Native!DoneIfCollecting(u), y)
    BY <2>2, AgreesAlike
  <2>4. QED
    BY <2>2, <2>3 DEF Reads
<1>2. QED
  BY <1>1 DEF Steps

\* The files of a release, as they are listed.
FilesOf(items) == [i \in 1 .. Len(items) |-> Native!FileOf(items[i])]
FileSet == {Native!FileOf(a) : a \in Asset}

\* There are as many, in the same order and with the same names.
LEMMA FilesOfIs ==
  ASSUME NEW items \in Seq(Asset)
  PROVE  /\ FilesOf(items) \in Seq(FileSet) /\ Len(FilesOf(items)) = Len(items)
         /\ \A i \in 1 .. Len(items) : /\ FilesOf(items)[i] = Native!FileOf(items[i])
                                       /\ FilesOf(items)[i].name = items[i].name
<1>1. \A i \in 1 .. Len(items) : items[i] \in Asset
  OBVIOUS
<1>2. \A a \in Asset : Native!FileOf(a) \in FileSet /\ Native!FileOf(a).name = a.name
  BY DEF FileSet, Native!FileOf
<1>3. QED
  BY <1>1, <1>2 DEF FilesOf

\* They are chosen by their names, before or after.
LEMMA ChosenByName ==
  ASSUME NEW items \in Seq(Asset)
  PROVE  /\ BestFiles(FilesOf(items)) = FilesOf(BestFiles(items))
         /\ BestFiles(items) \in Seq(Asset)
<1> DEFINE N == Len(items)
<1>1. PICK F : F = FilesOf(items)
  OBVIOUS
<1>2. PICK B : B = BestFiles(items)
  OBVIOUS
<1>3. PICK G : G = FilesOf(B)
  OBVIOUS
<1>4. /\ F \in Seq(FileSet) /\ Len(F) = N /\ N \in Nat
      /\ \A i \in 1 .. N : F[i] = Native!FileOf(items[i]) /\ F[i].name = items[i].name
  BY <1>1, FilesOfIs
<1>5. Chosen(Asset, items, N, Room(items, N), B)
  BY <1>2, Best
<1>6. Chosen(FileSet, F, N, Room(F, N), BestFiles(F))
  BY <1>4, Best
<1>7. B \in Seq(Asset)
  BY <1>5 DEF Chosen
<1>8. ASSUME NEW i \in 0 .. N, NEW rank PROVE CountUpTo(F, i, rank) = CountUpTo(items, i, rank)
  <2>1. \A j \in 1 .. i : j \in 1 .. N
    BY <1>4
  <2>2. {j \in 1 .. i : Rank(F[j].name) = rank} = {j \in 1 .. i : Rank(items[j].name) = rank}
    BY <1>4, <2>1
  <2>3. QED
    BY <2>2 DEF CountUpTo
<1>9. Room(F, N) = Room(items, N)
  <2>1. N \in 0 .. N
    BY <1>4
  <2>2. QED
    BY <1>8, <2>1 DEF Room
<1>10. PICK others \in Nat : others = Room(items, N)
  BY <1>4, RoomLeft
<1>11. ASSUME NEW i \in 0 .. N PROVE Place(F, i, others) = Place(items, i, others)
  BY <1>8 DEF Place
<1>12. ASSUME NEW i \in 1 .. N PROVE Kept(F, i, others) <=> Kept(items, i, others)
  <2>1. i \in 0 .. N /\ F[i].name = items[i].name
    BY <1>4
  <2>2. QED
    BY <1>8, <2>1 DEF Kept
<1>13. /\ G \in Seq(FileSet) /\ Len(G) = Len(B) /\ \A k \in 1 .. Len(B) : G[k] = Native!FileOf(B[k])
  BY <1>3, <1>7, FilesOfIs
<1>14. Chosen(FileSet, F, N, others, G)
  <2>1. Len(B) = Place(items, N, others)
    BY <1>5, <1>10 DEF Chosen
  <2>2. N \in 0 .. N
    BY <1>4
  <2>3. Len(G) = Place(F, N, others)
    BY <1>11, <1>13, <2>1, <2>2
  <2>4. ASSUME NEW i \in 1 .. N, Kept(F, i, others) PROVE G[Place(F, i, others)] = F[i]
    <3>1. i \in 0 .. N /\ i - 1 \in 0 .. N /\ i \in Nat /\ i # 0 /\ i <= N
      BY <1>4
    <3>2. Kept(items, i, others)
      BY <1>12, <2>4
    <3>3. B[Place(items, i, others)] = items[i]
      BY <1>5, <1>10, <3>2 DEF Chosen
    <3>4. Place(items, i, others) = Place(items, i - 1, others) + 1
      BY <3>1, <3>2, Here
    <3>5. Place(items, i - 1, others) \in Nat
      <4>1. PICK k \in Nat : k = i - 1
        BY <3>1
      <4>2. Place(items, k, others) \in Nat
        BY Places
      <4>3. QED
        BY <4>1, <4>2
    <3>6. Place(items, i, others) <= Place(items, N, others)
      BY <1>4, <3>1, PlacesGrow
    <3>7. Place(items, N, others) \in Nat
      BY <1>4, Places
    <3>8. Place(items, i, others) \in 1 .. Len(B)
      BY <2>1, <3>4, <3>5, <3>6, <3>7
    <3>9. G[Place(items, i, others)] = Native!FileOf(items[i])
      BY <1>13, <3>3, <3>8
    <3>10. QED
      BY <1>4, <1>11, <3>1, <3>9
  <2>5. QED
    BY <1>13, <2>3, <2>4 DEF Chosen
<1>15. BestFiles(F) = G
  BY <1>4, <1>6, <1>9, <1>10, <1>14, ChosenOnce
<1>16. BestFiles(FilesOf(items)) = FilesOf(BestFiles(items))
  BY <1>1, <1>2, <1>3, <1>15
<1>17. BestFiles(items) \in Seq(Asset)
  BY <1>2, <1>7
<1>18. QED
  BY <1>16, <1>17

(***************************************************************************)
(* The array of files.                                                     *)
(***************************************************************************)

\* A release, between two of its fields, with nothing of its files read yet.
AmongFields(v) == /\ DOMAIN v = ViewFields /\ v.depth = 2 /\ ~v.inAssets /\ v.where = "none"
                  /\ v.inAssets = FALSE

\* Where its files are listed.
Listing(v) == [v EXCEPT !.depth = 3, !.inAssets = TRUE]

\* Nothing else changes.
LEMMA ListingIs ==
  ASSUME NEW v, DOMAIN v = ViewFields
  PROVE  /\ DOMAIN Listing(v) = ViewFields /\ Listing(v).depth = 3 /\ Listing(v).inAssets = TRUE
         /\ \A f \in ViewFields \ {"depth", "inAssets"} : Listing(v)[f] = v[f]
BY DEF Listing, ViewFields

\* The bracket behind the key of the assets opens the list of files.
LEMMA OpenAssets ==
  ASSUME NEW v, AmongFields(v), NEW s, Agrees(s, v), Ready(s, "assets")
  PROVE  Agrees(Native!OpenBracket(s), Listing(v))
<1> DEFINE d == [s EXCEPT !.depth = @ + 1]
           t == [d EXCEPT !.inAssets = TRUE, !.assetsDepth = d.depth]
           x == Listing(v)
<1>1. s.depth = 2 /\ DOMAIN s = JsonFields /\ s.lastKey = "assets"
  BY DEF Agrees, AmongFields, Ready
<1>2. /\ DOMAIN d = JsonFields /\ d.depth = 3 /\ \A f \in JsonFields \ {"depth"} : d[f] = s[f]
  BY <1>1 DEF JsonFields
<1> HIDE DEF d
<1>3. d.lastKey = "assets"
  BY <1>1, <1>2 DEF JsonFields
<1>4. Native!OpenBracket(s) = t
  BY <1>2, <1>3 DEF Native!OpenBracket, d
<1>5. /\ DOMAIN t = JsonFields /\ t.inAssets = TRUE /\ t.assetsDepth = 3
      /\ \A f \in JsonFields \ {"inAssets", "assetsDepth"} : t[f] = d[f]
  BY <1>2 DEF JsonFields
<1> HIDE DEF t
<1>6. /\ t.depth = 3
      /\ \A f \in {"collecting", "list", "cur", "asset", "isDraft", "zip"} : t[f] = s[f]
  BY <1>2, <1>5 DEF JsonFields
<1>7. /\ DOMAIN x = ViewFields /\ x.depth = 3 /\ x.inAssets = TRUE
      /\ \A f \in {"list", "live", "tag", "date", "title", "prerelease", "files", "skipped",
                   "isDraft", "zip", "where", "name", "size", "path"} : x[f] = v[f]
  <2>1. DOMAIN v = ViewFields
    BY DEF AmongFields
  <2>2. /\ DOMAIN x = ViewFields /\ x.depth = 3 /\ x.inAssets = TRUE
        /\ \A f \in ViewFields \ {"depth", "inAssets"} : x[f] = v[f]
    BY <2>1, ListingIs
  <2> HIDE DEF x
  <2>3. QED
    BY <2>2 DEF ViewFields
<1> HIDE DEF x
<1>8. Agrees(t, x)
  BY <1>5, <1>6, <1>7 DEF Agrees
<1>9. QED
  BY <1>4, <1>8 DEF x

\* Its closing bracket ends it.
LEMMA CloseAssets ==
  ASSUME NEW v, AmongFields(v), NEW s, Agrees(s, Listing(v))
  PROVE  Agrees(Native!CloseBracket(s), v)
<1> DEFINE t == [s EXCEPT !.inAssets = @ /\ s.depth # s.assetsDepth,
                          !.depth = IF @ > 0 THEN @ - 1 ELSE 0]
           x == Listing(v)
<1>1. /\ DOMAIN x = ViewFields /\ x.depth = 3 /\ x.inAssets = TRUE
      /\ \A f \in {"list", "live", "tag", "date", "title", "prerelease", "files", "skipped",
                   "isDraft", "zip", "where", "name", "size", "path"} : x[f] = v[f]
  <2>1. DOMAIN v = ViewFields
    BY DEF AmongFields
  <2>2. /\ DOMAIN x = ViewFields /\ x.depth = 3 /\ x.inAssets = TRUE
        /\ \A f \in ViewFields \ {"depth", "inAssets"} : x[f] = v[f]
    BY <2>1, ListingIs
  <2> HIDE DEF x
  <2>3. QED
    BY <2>2 DEF ViewFields
<1> HIDE DEF x
<1>2. Agrees(s, x)
  BY DEF x
<1>3. s.depth = 3 /\ s.assetsDepth = 3 /\ DOMAIN s = JsonFields
  BY <1>1, <1>2 DEF Agrees
<1> DEFINE r == [s EXCEPT !.inAssets = FALSE, !.depth = 2]
<1>31. t = r
  <2>1. (s.inAssets /\ s.depth # s.assetsDepth) = FALSE
    BY <1>3
  <2>2. (IF s.depth > 0 THEN s.depth - 1 ELSE 0) = 2
    BY <1>3
  <2>3. QED
    BY <2>1, <2>2
<1>4. /\ DOMAIN t = JsonFields /\ t.depth = 2 /\ t.inAssets = FALSE
      /\ \A f \in JsonFields \ {"depth", "inAssets"} : t[f] = s[f]
  <2>1. /\ DOMAIN r = JsonFields /\ r.depth = 2 /\ r.inAssets = FALSE
        /\ \A f \in JsonFields \ {"depth", "inAssets"} : r[f] = s[f]
    BY <1>3 DEF JsonFields
  <2> HIDE DEF t, r
  <2>2. QED
    BY <1>31, <2>1
<1> HIDE DEF t
<1>5. \A f \in {"collecting", "list", "cur", "asset", "isDraft", "zip"} : t[f] = s[f]
  BY <1>4 DEF JsonFields
<1>6. Agrees(t, v)
  BY <1>1, <1>2, <1>4, <1>5 DEF Agrees, AmongFields
<1>7. QED
  BY <1>6 DEF t, Native!CloseBracket

\* The release with its files, as many as fit.
WithFiles(v, items) ==
  IF ~v.live THEN v
  ELSE [v EXCEPT !.files = FilesOf(BestFiles(items)),
                 !.skipped = Len(items) - Len(BestFiles(items))]

\* The assets of a release give its files and how many were left out.
LEMMA AssetsRead ==
  ASSUME NEW v, AmongFields(v), v.live => v.files = <<>> /\ v.skipped = 0,
         NEW items \in Seq(Asset), \A i \in 1 .. Len(items) : ProperAsset(items[i])
  PROVE  Steps("assets", v, Native!Array([i \in 1 .. Len(items) |-> Native!AssetJson(items[i])]),
               WithFiles(v, items))
<1> DEFINE J == [i \in 1 .. Len(items) |-> Native!AssetJson(items[i])]
           F == FilesOf(items)
           x == Listing(v)
           w == WithFiles(v, items)
<1>1. PICK N \in Nat : N = Len(items)
  OBVIOUS
<1>2. /\ F \in Seq(FileSet) /\ Len(F) = N
      /\ \A i \in 1 .. N : F[i] = Native!FileOf(items[i])
  BY <1>1, FilesOfIs
<1> HIDE DEF F
<1>3. /\ DOMAIN x = ViewFields /\ x.depth = 3 /\ x.inAssets = TRUE
      /\ \A f \in ViewFields \ {"depth", "inAssets"} : x[f] = v[f]
  BY ListingIs DEF AmongFields
<1>4. AmongFiles(x) /\ x.live = v.live /\ x.files = v.files /\ x.skipped = v.skipped
  BY <1>3 DEF AmongFiles, AmongFields, ViewFields
<1> HIDE DEF x
<1>5. ASSUME NEW i \in 1 .. N PROVE J[i] = Native!AssetJson(items[i]) /\ J[i] \in Seq(Tokens)
  <2>1. Steps("any", x, Native!AssetJson(items[i]), WithFile(x, Native!FileOf(items[i])))
    BY <1>1, <1>4, AssetRead
  <2>2. QED
    BY <1>1, <2>1 DEF Steps
<1>6. J \in Seq(Seq(Tokens)) /\ Len(J) = N
  BY <1>1, <1>5
<1> HIDE DEF J
<1>7. PICK c \in [0 .. N -> Accepted(FileSet)] :
        /\ c[0] = [kept |-> <<>>, skipped |-> 0]
        /\ \A n \in 1 .. N : c[n] = Proxy!Take(c[n - 1], F[n])
        /\ Proxy!SelectAssets(F) = c[N]
  BY <1>2, Selecting
<1> DEFINE V == [n \in 0 .. N |-> IF v.live THEN [x EXCEPT !.files = c[n].kept, !.skipped = c[n].skipped]
                                  ELSE x]
<1>8. ASSUME NEW n \in 0 .. N
      PROVE  /\ DOMAIN V[n] = ViewFields
             /\ \A f \in ViewFields \ {"files", "skipped"} : V[n][f] = x[f]
             /\ v.live => V[n].files = c[n].kept /\ V[n].skipped = c[n].skipped
             /\ ~v.live => V[n] = x
  <2> DEFINE z == [x EXCEPT !.files = c[n].kept, !.skipped = c[n].skipped]
  <2>1. V[n] = IF v.live THEN z ELSE x
    OBVIOUS
  <2>2. /\ DOMAIN z = ViewFields /\ z.files = c[n].kept /\ z.skipped = c[n].skipped
        /\ \A f \in ViewFields \ {"files", "skipped"} : z[f] = x[f]
    BY <1>3 DEF ViewFields
  <2> HIDE DEF z, V
  <2>3. QED
    BY <1>3, <2>1, <2>2
<1> HIDE DEF V
<1>9. ASSUME NEW n \in 0 .. N PROVE AmongFiles(V[n]) /\ V[n].live = v.live
  BY <1>4, <1>8 DEF AmongFiles, ViewFields
<1>10. ASSUME NEW i \in 1 .. N PROVE Steps("any", V[i - 1], J[i], V[i])
  <2>1. PICK n \in 0 .. N : n = i - 1
    BY <1>1
  <2>2. i \in 0 .. N
    OBVIOUS
  <2> DEFINE z == WithFile(V[n], F[i])
  <2>3. Steps("any", V[n], J[i], z)
    <3>1. AmongFiles(V[n]) /\ ProperAsset(items[i])
      BY <1>1, <1>9
    <3>2. Steps("any", V[n], Native!AssetJson(items[i]), WithFile(V[n], Native!FileOf(items[i])))
      BY <3>1, AssetRead
    <3>3. QED
      BY <1>2, <1>5, <3>2
  <2>4. Alike(z, V[i])
    <3>1. CASE ~v.live
      <4>1. z = V[n] /\ V[n] = x /\ V[i] = x
        BY <1>8, <1>9, <2>2, <3>1 DEF WithFile
      <4>2. QED
        BY <1>3, <4>1 DEF Alike
    <3>2. CASE v.live
      <4>1. c[i] = Proxy!Take(c[n], F[i])
        BY <1>7, <2>1
      <4>2. V[n].files = c[n].kept /\ V[n].skipped = c[n].skipped /\ V[n].live
        BY <1>8, <1>9, <3>2
      <4>3. V[i].files = c[i].kept /\ V[i].skipped = c[i].skipped
        BY <1>8, <2>2, <3>2
      <4>4. \A f \in ViewFields \ {"files", "skipped"} : V[n][f] = V[i][f]
        BY <1>8, <2>2
      <4>5. DOMAIN V[n] = ViewFields /\ DOMAIN V[i] = ViewFields
        BY <1>8, <2>2
      <4>6. CASE Len(c[n].kept) < MaxAssets
        <5>1. z = [V[n] EXCEPT !.files = Append(c[n].kept, F[i])]
          BY <4>2, <4>6 DEF WithFile
        <5>2. c[i].kept = Append(c[n].kept, F[i]) /\ c[i].skipped = c[n].skipped
          BY <4>1, <4>6 DEF Proxy!Take
        <5>3. /\ DOMAIN z = ViewFields /\ z.files = c[i].kept
              /\ \A f \in ViewFields \ {"files"} : z[f] = V[n][f]
          BY <4>5, <5>1, <5>2 DEF ViewFields
        <5>4. z.skipped = c[i].skipped
          BY <4>2, <5>2, <5>3 DEF ViewFields
        <5> HIDE DEF z
        <5>5. QED
          BY <4>3, <4>4, <4>5, <5>3, <5>4 DEF Alike
      <4>7. CASE ~(Len(c[n].kept) < MaxAssets)
        <5>1. z = [V[n] EXCEPT !.files = Native!GfAssetOffer(c[n].kept, F[i]), !.skipped = c[n].skipped + 1]
          BY <4>2, <4>7 DEF WithFile
        <5>2. c[i].kept = Native!GfAssetOffer(c[n].kept, F[i]) /\ c[i].skipped = c[n].skipped + 1
          BY <4>1, <4>7, ProxyOffer DEF Proxy!Take
        <5>3. /\ DOMAIN z = ViewFields /\ z.files = c[i].kept /\ z.skipped = c[i].skipped
              /\ \A f \in ViewFields \ {"files", "skipped"} : z[f] = V[n][f]
          BY <4>5, <5>1, <5>2 DEF ViewFields
        <5> HIDE DEF z
        <5>4. QED
          BY <4>3, <4>4, <4>5, <5>3 DEF Alike
      <4>8. QED
        BY <4>6, <4>7
    <3>3. v.live \in BOOLEAN \/ v.live \notin BOOLEAN
      OBVIOUS
    <3>4. QED
      BY <3>1, <3>2
  <2> HIDE DEF z
  <2>5. Alike(V[n], V[n])
    BY <1>8 DEF Alike
  <2>6. Steps("any", V[n], J[i], V[i])
    BY <2>3, <2>4, <2>5, StepsAlike
  <2>7. QED
    BY <2>1, <2>6
<1>11. Steps("any", V[0], Native!Commas(J), V[N])
  BY <1>6, <1>10, ItemsRead
<1>12. Alike(x, V[0])
  <2>1. 0 \in 0 .. N
    OBVIOUS
  <2>2. c[0].kept = <<>> /\ c[0].skipped = 0
    BY <1>7
  <2>3. v.live => V[0].files = x.files /\ V[0].skipped = x.skipped
    BY <1>4, <1>8, <2>1, <2>2
  <2>4. ~v.live => V[0] = x
    BY <1>8, <2>1
  <2>5. QED
    BY <1>3, <1>8, <2>1, <2>3, <2>4 DEF Alike
<1>13. /\ DOMAIN w = ViewFields
       /\ \A f \in ViewFields \ {"files", "skipped"} : w[f] = v[f]
       /\ v.live => /\ w.files = FilesOf(BestFiles(items))
                    /\ w.skipped = Len(items) - Len(BestFiles(items))
       /\ ~v.live => w = v
  <2> DEFINE z == [v EXCEPT !.files = FilesOf(BestFiles(items)),
                            !.skipped = Len(items) - Len(BestFiles(items))]
  <2>1. w = IF v.live THEN z ELSE v
    BY DEF WithFiles
  <2>2. DOMAIN v = ViewFields
    BY DEF AmongFields
  <2>3. /\ DOMAIN z = ViewFields /\ z.files = FilesOf(BestFiles(items))
        /\ z.skipped = Len(items) - Len(BestFiles(items))
        /\ \A f \in ViewFields \ {"files", "skipped"} : z[f] = v[f]
    BY <2>2 DEF ViewFields
  <2> HIDE DEF z, w
  <2>4. QED
    BY <2>1, <2>2, <2>3
<1>14. DOMAIN v = ViewFields
  BY DEF AmongFields
<1> HIDE DEF w
<1>15. AmongFields(w)
  BY <1>13 DEF AmongFields, ViewFields
<1>16. Alike(V[N], Listing(w))
  <2> DEFINE y == Listing(w)
  <2>1. /\ DOMAIN y = ViewFields /\ y.depth = 3 /\ y.inAssets = TRUE
        /\ \A f \in ViewFields \ {"depth", "inAssets"} : y[f] = w[f]
    BY <1>13, ListingIs
  <2> HIDE DEF y
  <2>2. N \in 0 .. N
    OBVIOUS
  <2>3. v.live => V[N].files = w.files /\ V[N].skipped = w.skipped
    <3>1. /\ c[N].kept = BestFiles(F) /\ c[N].skipped = Len(F) - Len(BestFiles(F))
      BY <1>2, <1>7, SelectsBest
    <3>2. BestFiles(F) = FilesOf(BestFiles(items)) /\ BestFiles(items) \in Seq(Asset)
      BY ChosenByName DEF F
    <3>3. Len(FilesOf(BestFiles(items))) = Len(BestFiles(items))
      BY <3>2, FilesOfIs
    <3>4. QED
      BY <1>1, <1>2, <1>8, <1>13, <2>2, <3>1, <3>2, <3>3
  <2>4. ~v.live => V[N].files = w.files /\ V[N].skipped = w.skipped
    BY <1>3, <1>8, <1>13, <2>2 DEF ViewFields
  <2>5. V[N].files = y.files /\ V[N].skipped = y.skipped
    BY <2>1, <2>3, <2>4 DEF ViewFields
  <2>6. V[N].depth = y.depth /\ V[N].inAssets = y.inAssets
    BY <1>3, <1>8, <2>1, <2>2 DEF ViewFields
  <2>7. \A f \in ViewFields \ {"files", "skipped", "depth", "inAssets"} : V[N][f] = y[f]
    BY <1>3, <1>8, <1>13, <2>1, <2>2
  <2>8. Alike(V[N], y)
    BY <1>8, <2>1, <2>2, <2>5, <2>6, <2>7 DEF Alike
  <2>9. QED
    BY <2>8 DEF y
<1>17. Steps("any", x, Native!Commas(J), Listing(w))
  BY <1>11, <1>12, <1>16, StepsAlike
<1>18. \A s : Agrees(s, v) /\ Ready(s, "assets") => Agrees(Native!OpenBracket(s), x)
  BY OpenAssets DEF x
<1>19. \A s : Agrees(s, Listing(w)) => Agrees(Native!CloseBracket(s), w)
  BY <1>15, CloseAssets
<1>20. Steps("assets", v, Native!Array(J), w)
  BY <1>17, <1>18, <1>19, ArrayRead
<1>21. QED
  BY <1>20 DEF J, w

(***************************************************************************)
(* A release, from its opening brace to its closing one.                   *)
(***************************************************************************)

\* Between two releases.
AmongReleases(v) == /\ DOMAIN v = ViewFields /\ v.depth = 1 /\ v.inAssets = FALSE
                    /\ v.where = "none" /\ v.live = FALSE

RoomIn(v) == Len(v.list) < MaxReleases

\* A release has begun; behind a full list its fields go nowhere.
ReleaseBegun(v) ==
  [v EXCEPT !.depth = 2, !.live = RoomIn(v), !.tag = Native!NoText, !.date = Native!NoText,
            !.title = Native!NoText, !.prerelease = FALSE, !.files = <<>>, !.skipped = 0,
            !.isDraft = FALSE, !.zip = Native!NoText]

\* Its fields are empty.
LEMMA ReleaseBegunIs ==
  ASSUME NEW v, AmongReleases(v)
  PROVE  LET x == ReleaseBegun(v) IN
         /\ DOMAIN x = ViewFields /\ x.depth = 2 /\ x.inAssets = FALSE /\ x.where = "none"
         /\ x.list = v.list /\ x.live = RoomIn(v) /\ x.tag = Native!NoText
         /\ x.date = Native!NoText /\ x.title = Native!NoText /\ x.prerelease = FALSE
         /\ x.files = <<>> /\ x.skipped = 0 /\ x.isDraft = FALSE /\ x.zip = Native!NoText
BY DEF AmongReleases, ReleaseBegun, ViewFields

\* The opening brace of a release finds it its place.
LEMMA OpenRelease ==
  ASSUME NEW v, AmongReleases(v), NEW s, Agrees(s, v)
  PROVE  Agrees(Native!OpenBrace(s), ReleaseBegun(v))
<1> DEFINE x == ReleaseBegun(v)
           c == IF Native!RoomForRelease(s) THEN Native!NewCur ELSE Native!NoCur
           d == [s EXCEPT !.depth = @ + 1]
           t == [d EXCEPT !.cur = c, !.dropped = IF Native!RoomForRelease(s) THEN @ ELSE @ + 1,
                          !.isDraft = FALSE, !.inAssets = FALSE, !.zip = Native!NoText]
<1>1. /\ DOMAIN x = ViewFields /\ x.depth = 2 /\ x.inAssets = FALSE /\ x.where = "none"
      /\ x.list = v.list /\ x.live = RoomIn(v) /\ x.tag = Native!NoText
      /\ x.date = Native!NoText /\ x.title = Native!NoText /\ x.prerelease = FALSE
      /\ x.files = <<>> /\ x.skipped = 0 /\ x.isDraft = FALSE /\ x.zip = Native!NoText
  BY ReleaseBegunIs
<1> HIDE DEF x
<1>2. s.depth = 1 /\ DOMAIN s = JsonFields /\ s.list = v.list /\ s.asset.where = "none"
  BY DEF Agrees, AmongReleases
<1>3. /\ DOMAIN d = JsonFields /\ d.depth = 2 /\ \A f \in JsonFields \ {"depth"} : d[f] = s[f]
  BY <1>2 DEF JsonFields
<1>4. Native!OpenBrace(s) = t
  BY <1>3 DEF Native!OpenBrace
<1> HIDE DEF d
<1>5. Native!RoomForRelease(s) <=> RoomIn(v)
  BY <1>2 DEF Native!RoomForRelease, RoomIn
<1>6. /\ DOMAIN c = CurFields /\ c.tag = Native!NoText /\ c.date = Native!NoText
      /\ c.title = Native!NoText /\ c.prerelease = FALSE /\ c.files = <<>> /\ c.skipped = 0
      /\ c.live = RoomIn(v)
  <2>1. RoomIn(v) \in BOOLEAN
    BY DEF RoomIn
  <2>2. QED
    BY <1>5, <2>1 DEF Native!NewCur, Native!NoCur, CurFields
<1> HIDE DEF c
<1>7. /\ DOMAIN t = JsonFields /\ t.cur = c /\ t.isDraft = FALSE /\ t.inAssets = FALSE
      /\ t.zip = Native!NoText
      /\ \A f \in JsonFields \ {"cur", "dropped", "isDraft", "inAssets", "zip"} : t[f] = d[f]
  BY <1>3 DEF JsonFields
<1> HIDE DEF t
<1>8. t.depth = 2 /\ t.collecting = s.collecting /\ t.list = s.list /\ t.asset = s.asset
  BY <1>3, <1>7 DEF JsonFields
<1>9. ~s.collecting /\ DOMAIN s.asset = AssetFields
  BY DEF Agrees
<1>10. Agrees(t, x)
  BY <1>1, <1>2, <1>6, <1>7, <1>8, <1>9 DEF Agrees
<1>11. QED
  BY <1>4, <1>10 DEF x

\* A release of an answer: it has a tag and a date of creation.
ProperRelease(r) == /\ r.tag # Native!NoText /\ r.created # Native!NoText
                    /\ \A i \in 1 .. Len(r.assets) : ProperAsset(r.assets[i])

\* What has been read of a release when it ends.
ReadOf(v, r, y) ==
  /\ DOMAIN y = ViewFields /\ y.depth = 2 /\ y.inAssets = FALSE /\ y.where = "none"
  /\ y.list = v.list /\ y.live = RoomIn(v)
  /\ y.live => /\ y.tag = r.tag /\ y.title = r.name /\ y.date = r.created
               /\ y.prerelease = (r.prerelease = "true") /\ y.isDraft = (r.draft = "true")
               /\ y.files = FilesOf(BestFiles(r.assets))
               /\ y.skipped = Len(r.assets) - Len(BestFiles(r.assets))
               /\ y.zip = r.zip

\* Everything there is to read in a release.
LEMMA FieldsRead ==
  ASSUME NEW v, AmongReleases(v), NEW r \in Release, ProperRelease(r)
  PROVE  \E y, fields : /\ ReadOf(v, r, y) /\ Native!ReleaseJson(r) = Native!Object(fields)
                        /\ Steps("key", ReleaseBegun(v), Native!Commas(fields), y)
<1> DEFINE x0 == ReleaseBegun(v)
           x1 == StoredIn(x0, "tag_name", r.tag)
           x2 == StoredIn(x1, "name", r.name)
           x3 == StoredIn(x2, "draft", r.draft)
           x4 == StoredIn(x3, "prerelease", r.prerelease)
           x5 == StoredIn(x4, "created_at", r.created)
           x6 == StoredIn(x5, "published_at", r.published)
           x7 == WithFiles(x6, r.assets)
           x8 == StoredIn(x7, "zipball_url", r.zip)
           A  == Native!Array([i \in 1 .. Len(r.assets) |-> Native!AssetJson(r.assets[i])])
           f0 == Native!Field("author", Native!Person)
           f1 == Native!Field("tag_name", <<Native!Str(r.tag)>>)
           f2 == Native!Field("name", <<Native!Text(r.name)>>)
           f3 == Native!Field("draft", <<Native!Lit(r.draft)>>)
           f4 == Native!Field("prerelease", <<Native!Lit(r.prerelease)>>)
           f5 == Native!Field("created_at", <<Native!Str(r.created)>>)
           f6 == Native!Field("published_at", <<Native!Text(r.published)>>)
           f7 == Native!Field("assets", A)
           f8 == Native!Field("zipball_url", <<Native!Str(r.zip)>>)
<1>1. /\ r.tag \in Texts /\ r.name \in Texts /\ r.draft \in Texts /\ r.prerelease \in Texts
      /\ r.created \in Texts /\ r.published \in Texts /\ r.zip \in Texts
      /\ r.assets \in Seq(Asset)
  BY DEF Release, Texts
<1>2. \A y \in Texts : /\ IsValue(Native!Str(y), y) /\ IsValue(Native!Lit(y), y)
                       /\ IsValue(Native!Text(y), y)
  BY DEF IsValue, Native!Text
<1>3. /\ "tag_name" \in ReleaseKeys /\ "name" \in ReleaseKeys /\ "draft" \in ReleaseKeys
      /\ "prerelease" \in ReleaseKeys /\ "created_at" \in ReleaseKeys
      /\ "published_at" \in ReleaseKeys /\ "zipball_url" \in ReleaseKeys
      /\ "author" \notin ReleaseKeys /\ "assets" \notin ReleaseKeys
  BY DEF ReleaseKeys
<1>4. /\ "tag_name" \in Texts /\ "name" \in Texts /\ "draft" \in Texts /\ "prerelease" \in Texts
      /\ "created_at" \in Texts /\ "published_at" \in Texts /\ "zipball_url" \in Texts
      /\ "author" \in Texts /\ "assets" \in Texts
  BY DEF Texts, Words
<1> DEFINE Here0(x) == /\ DOMAIN x = ViewFields /\ x.depth = 2 /\ x.inAssets = FALSE
                       /\ x.where = "none" /\ x.list = v.list /\ x.live = RoomIn(v)
<1>5. /\ Here0(x0)
      /\ x0.live => /\ x0.tag = Native!NoText
      /\ x0.date = Native!NoText /\ x0.title = Native!NoText /\ x0.prerelease = FALSE
      /\ x0.files = <<>> /\ x0.skipped = 0 /\ x0.isDraft = FALSE /\ x0.zip = Native!NoText
  BY ReleaseBegunIs
<1> HIDE DEF x0
<1>6. /\ Here0(x1)
      /\ x1.live => /\ x1.tag = r.tag /\ x1.title = Native!NoText /\ x1.date = Native!NoText
                    /\ x1.prerelease = FALSE /\ x1.isDraft = FALSE /\ x1.files = <<>>
                    /\ x1.skipped = 0 /\ x1.zip = Native!NoText
  BY <1>5 DEF StoredIn, ViewFields
<1> HIDE DEF x1
<1>7. /\ Here0(x2)
      /\ x2.live => /\ x2.tag = r.tag /\ x2.title = r.name /\ x2.date = Native!NoText
                    /\ x2.prerelease = FALSE /\ x2.isDraft = FALSE /\ x2.files = <<>>
                    /\ x2.skipped = 0 /\ x2.zip = Native!NoText
  BY <1>6 DEF StoredIn, ViewFields
<1> HIDE DEF x2
<1>8. /\ Here0(x3)
      /\ x3.live => /\ x3.tag = r.tag /\ x3.title = r.name /\ x3.date = Native!NoText
                    /\ x3.prerelease = FALSE /\ x3.isDraft = (r.draft = "true")
                    /\ x3.files = <<>> /\ x3.skipped = 0 /\ x3.zip = Native!NoText
  BY <1>7 DEF StoredIn, ViewFields
<1> HIDE DEF x3
<1>9. /\ Here0(x4)
      /\ x4.live => /\ x4.tag = r.tag /\ x4.title = r.name /\ x4.date = Native!NoText
                    /\ x4.prerelease = (r.prerelease = "true") /\ x4.isDraft = (r.draft = "true")
                    /\ x4.files = <<>> /\ x4.skipped = 0 /\ x4.zip = Native!NoText
  BY <1>8 DEF StoredIn, ViewFields
<1> HIDE DEF x4
<1>10. /\ Here0(x5)
       /\ x5.live => /\ x5.tag = r.tag /\ x5.title = r.name /\ x5.date = r.created
                     /\ x5.prerelease = (r.prerelease = "true") /\ x5.isDraft = (r.draft = "true")
                     /\ x5.files = <<>> /\ x5.skipped = 0 /\ x5.zip = Native!NoText
  BY <1>9 DEF StoredIn, ViewFields
<1> HIDE DEF x5
<1>11. /\ Here0(x6)
       /\ x6.live => /\ x6.tag = r.tag /\ x6.title = r.name /\ x6.date = r.created
                     /\ x6.prerelease = (r.prerelease = "true") /\ x6.isDraft = (r.draft = "true")
                     /\ x6.files = <<>> /\ x6.skipped = 0 /\ x6.zip = Native!NoText
  BY <1>10 DEF StoredIn, ViewFields, ProperRelease
<1> HIDE DEF x6
<1>12. /\ Here0(x7)
       /\ x7.live => /\ x7.tag = r.tag /\ x7.title = r.name /\ x7.date = r.created
                     /\ x7.prerelease = (r.prerelease = "true") /\ x7.isDraft = (r.draft = "true")
                     /\ x7.files = FilesOf(BestFiles(r.assets))
                     /\ x7.skipped = Len(r.assets) - Len(BestFiles(r.assets))
                     /\ x7.zip = Native!NoText
  BY <1>11 DEF WithFiles, ViewFields
<1> HIDE DEF x7
<1>13. /\ Here0(x8)
       /\ x8.live => /\ x8.tag = r.tag /\ x8.title = r.name /\ x8.date = r.created
                     /\ x8.prerelease = (r.prerelease = "true") /\ x8.isDraft = (r.draft = "true")
                     /\ x8.files = FilesOf(BestFiles(r.assets))
                     /\ x8.skipped = Len(r.assets) - Len(BestFiles(r.assets))
                     /\ x8.zip = r.zip
  BY <1>12 DEF StoredIn, ViewFields
<1> HIDE DEF x8
<1>14. Steps("key", x0, f0, x0)
  <2>1. ~Wanted(x0, "author")
    BY <1>3, <1>5 DEF Wanted
  <2>2. Steps("any", x0, Native!Person, x0)
    BY <1>5, PersonRead
  <2>3. QED
    BY <1>4, <2>1, <2>2, FieldOf
<1>15. Steps("key", x0, f1, x1)
  BY <1>1, <1>2, <1>3, <1>4, <1>5, ReleaseField DEF x1
<1>16. Steps("key", x1, f2, x2)
  BY <1>1, <1>2, <1>3, <1>4, <1>6, ReleaseField DEF x2
<1>17. Steps("key", x2, f3, x3)
  BY <1>1, <1>2, <1>3, <1>4, <1>7, ReleaseField DEF x3
<1>18. Steps("key", x3, f4, x4)
  BY <1>1, <1>2, <1>3, <1>4, <1>8, ReleaseField DEF x4
<1>19. Steps("key", x4, f5, x5)
  BY <1>1, <1>2, <1>3, <1>4, <1>9, ReleaseField DEF x5
<1>20. Steps("key", x5, f6, x6)
  BY <1>1, <1>2, <1>3, <1>4, <1>10, ReleaseField DEF x6
<1>21. Steps("key", x6, f7, x7)
  <2>1. AmongFields(x6)
    BY <1>11 DEF AmongFields
  <2>2. Steps("assets", x6, A, x7)
    BY <1>1, <1>11, <2>1, AssetsRead DEF x7, ProperRelease
  <2>3. ~Wanted(x6, "assets")
    BY <1>3, <1>11 DEF Wanted
  <2> HIDE DEF A
  <2>4. QED
    BY <1>4, <2>2, <2>3, FieldOf
<1>22. Steps("key", x7, f8, x8)
  BY <1>1, <1>2, <1>3, <1>4, <1>12, ReleaseField DEF x8
<1> HIDE DEF f0, f1, f2, f3, f4, f5, f6, f7, f8
<1>23. /\ f0 \in Seq(Tokens) /\ f1 \in Seq(Tokens) /\ f2 \in Seq(Tokens) /\ f3 \in Seq(Tokens)
       /\ f4 \in Seq(Tokens) /\ f5 \in Seq(Tokens) /\ f6 \in Seq(Tokens) /\ f7 \in Seq(Tokens)
       /\ f8 \in Seq(Tokens)
  BY <1>14, <1>15, <1>16, <1>17, <1>18, <1>19, <1>20, <1>21, <1>22 DEF Steps
<1>24. Steps("key", x0, Native!Commas(<<f0>>), x0)
  BY <1>14, FirstFields
<1>25. Steps("key", x0, Native!Commas(<<f0, f1>>), x1)
  <2>1. <<f0, f1>> = Append(<<f0>>, f1) /\ <<f0>> \in Seq(Seq(Tokens))
    BY <1>23
  <2>2. QED
    BY <1>15, <1>24, <2>1, StepsNext
<1>26. Steps("key", x0, Native!Commas(<<f0, f1, f2>>), x2)
  <2>1. <<f0, f1, f2>> = Append(<<f0, f1>>, f2) /\ <<f0, f1>> \in Seq(Seq(Tokens))
    BY <1>23
  <2>2. QED
    BY <1>16, <1>25, <2>1, StepsNext
<1>27. Steps("key", x0, Native!Commas(<<f0, f1, f2, f3>>), x3)
  <2>1. <<f0, f1, f2, f3>> = Append(<<f0, f1, f2>>, f3) /\ <<f0, f1, f2>> \in Seq(Seq(Tokens))
    BY <1>23
  <2>2. QED
    BY <1>17, <1>26, <2>1, StepsNext
<1>28. Steps("key", x0, Native!Commas(<<f0, f1, f2, f3, f4>>), x4)
  <2>1. /\ <<f0, f1, f2, f3, f4>> = Append(<<f0, f1, f2, f3>>, f4)
        /\ <<f0, f1, f2, f3>> \in Seq(Seq(Tokens))
    BY <1>23
  <2>2. QED
    BY <1>18, <1>27, <2>1, StepsNext
<1>29. Steps("key", x0, Native!Commas(<<f0, f1, f2, f3, f4, f5>>), x5)
  <2>1. /\ <<f0, f1, f2, f3, f4, f5>> = Append(<<f0, f1, f2, f3, f4>>, f5)
        /\ <<f0, f1, f2, f3, f4>> \in Seq(Seq(Tokens))
    BY <1>23
  <2>2. QED
    BY <1>19, <1>28, <2>1, StepsNext
<1>30. Steps("key", x0, Native!Commas(<<f0, f1, f2, f3, f4, f5, f6>>), x6)
  <2>1. /\ <<f0, f1, f2, f3, f4, f5, f6>> = Append(<<f0, f1, f2, f3, f4, f5>>, f6)
        /\ <<f0, f1, f2, f3, f4, f5>> \in Seq(Seq(Tokens))
    BY <1>23
  <2>2. QED
    BY <1>20, <1>29, <2>1, StepsNext
<1> DEFINE fs == <<f0, f1, f2, f3, f4, f5, f6, f7>>
<1>31. Steps("key", x0, Native!Commas(fs), x7) /\ fs \in Seq(Seq(Tokens))
  <2>1. /\ fs = Append(<<f0, f1, f2, f3, f4, f5, f6>>, f7)
        /\ <<f0, f1, f2, f3, f4, f5, f6>> \in Seq(Seq(Tokens))
    BY <1>23
  <2>2. fs \in Seq(Seq(Tokens))
    BY <1>23
  <2>3. QED
    BY <1>21, <1>30, <2>1, <2>2, StepsNext
<1>32. Native!ReleaseJson(r) = Native!Object(fs \o (IF r.zip = Native!NoText THEN <<>> ELSE <<f8>>))
  BY DEF Native!ReleaseJson, f0, f1, f2, f3, f4, f5, f6, f7, f8
<1> HIDE DEF fs, A
<1>33. CASE r.zip = Native!NoText
  <2>1. fs \o <<>> = fs
    BY <1>31
  <2>2. Native!ReleaseJson(r) = Native!Object(fs)
    BY <1>32, <1>33, <2>1
  <2>3. ReadOf(v, r, x7)
    BY <1>12, <1>33 DEF ReadOf
  <2>4. QED
    BY <1>31, <2>2, <2>3 DEF x0
<1>34. CASE r.zip # Native!NoText
  <2>1. fs \o <<f8>> = Append(fs, f8)
    BY <1>23, <1>31
  <2>2. Native!ReleaseJson(r) = Native!Object(Append(fs, f8))
    BY <1>32, <1>34, <2>1
  <2>3. ReadOf(v, r, x8)
    BY <1>13, <1>34 DEF ReadOf
  <2>4. Steps("key", x0, Native!Commas(Append(fs, f8)), x8)
    BY <1>22, <1>31, StepsNext
  <2>5. QED
    BY <2>2, <2>3, <2>4 DEF x0
<1>35. QED
  BY <1>33, <1>34

\* json.c chooses among the files as the proxy does.
LEMMA NativeBest == ASSUME NEW items PROVE Native!BestFiles(items) = BestFiles(items)
<1>1. \A name : Native!Rank(name) = Rank(name)
  BY DEF Native!Rank, Rank
<1>2. \A i, rank : Native!CountUpTo(items, i, rank) = CountUpTo(items, i, rank)
  <2> TAKE i, rank
  <2>1. {j \in 1 .. i : Native!Rank(items[j].name) = rank} = {j \in 1 .. i : Rank(items[j].name) = rank}
    BY <1>1
  <2>2. Native!CountUpTo(items, i, rank)
          = Native!Cardinality({j \in 1 .. i : Native!Rank(items[j].name) = rank})
    BY DEF Native!CountUpTo
  <2>3. \A S : Native!Cardinality(S) = Cardinality(S)
    BY DEF Native!Cardinality, Cardinality
  <2>4. QED
    BY <2>1, <2>2, <2>3 DEF CountUpTo
<1>3. Native!OthersThatFit(items) = OthersThatFit(items)
  BY <1>2 DEF Native!OthersThatFit, OthersThatFit
<1>4. \A i : Native!Stays(items, i) <=> Stays(items, i)
  BY <1>2, <1>3 DEF Native!Stays, Stays
<1>5. [i \in 1 .. Len(items) |-> IF Native!Stays(items, i) THEN <<items[i]>> ELSE <<>>]
        = [i \in 1 .. Len(items) |-> IF Stays(items, i) THEN <<items[i]>> ELSE <<>>]
  BY <1>4
<1>6. QED
  BY <1>5, NativeFlattenSeq DEF Native!BestFiles, BestFiles

EntryFields == {"tag", "date", "title", "prerelease", "files", "skipped"}

\* A release as it is shown differs from the expected one in two fields only.
LEMMA ShownFieldsAre ==
  ASSUME NEW r
  PROVE  LET q == Native!Expected(r)
         IN Native!NativeEntry(r) =
              [tag |-> q.tag, date |-> r.created,
               title |-> IF r.name = Native!NoText THEN r.tag ELSE r.name,
               prerelease |-> q.prerelease, files |-> q.files, skipped |-> q.skipped]
<1> DEFINE q == Native!Expected(r)
           t == IF r.name = Native!NoText THEN r.tag ELSE r.name
           e == [q EXCEPT !.date = r.created, !.title = t]
<1>1. q = [tag |-> q.tag, date |-> q.date, title |-> q.title, prerelease |-> q.prerelease,
           files |-> q.files, skipped |-> q.skipped]
  <2> DEFINE g == Native!BestFiles(r.assets)
             fits == r.zip # Native!NoText /\ Len(g) < MaxAssets
             a == IF r.published \in {Native!Null, Native!NoText} THEN r.created ELSE r.published
             b == IF r.name \in {Native!Null, Native!NoText} THEN r.tag ELSE r.name
             c == r.prerelease = "true"
             f == [i \in 1 .. Len(g) |-> Native!FileOf(g[i])]
                    \o IF fits THEN <<Native!Source(r)>> ELSE <<>>
             k == Len(r.assets) - Len(g) + IF r.zip # Native!NoText /\ ~fits THEN 1 ELSE 0
  <2>1. q = [tag |-> r.tag, date |-> a, title |-> b, prerelease |-> c, files |-> f, skipped |-> k]
    BY Zenon DEF Native!Expected
  <2> HIDE DEF q, a, b, c, f, k
  <2>2. QED
    BY <2>1
<1>2. Native!NativeEntry(r) = e
  BY Zenon DEF Native!NativeEntry
<1> HIDE DEF q, t
<1>3. e = [tag |-> q.tag, date |-> r.created, title |-> t, prerelease |-> q.prerelease,
           files |-> q.files, skipped |-> q.skipped]
  <2>1. DOMAIN q = EntryFields
    BY <1>1 DEF EntryFields
  <2>2. DOMAIN e = EntryFields /\ e = [f \in EntryFields |-> e[f]]
    BY <2>1
  <2>3. /\ e.tag = q.tag /\ e.date = r.created /\ e.title = t
        /\ e.prerelease = q.prerelease /\ e.files = q.files /\ e.skipped = q.skipped
    BY <2>1 DEF EntryFields
  <2> HIDE DEF e
  <2>4. QED
    BY <2>2, <2>3 DEF EntryFields
<1> HIDE DEF e
<1>4. QED
  BY <1>2, <1>3, Zenon DEF q, t

\* The release as it is shown, field by field.
LEMMA ExpectedIs ==
  ASSUME NEW r \in Release, ProperRelease(r)
  PROVE  LET e == Native!NativeEntry(r)
             F == FilesOf(BestFiles(r.assets))
             k == Len(r.assets) - Len(BestFiles(r.assets))
         IN /\ DOMAIN e = EntryFields /\ e.tag = r.tag /\ e.date = r.created
            /\ e.title = IF r.name = Native!NoText THEN r.tag ELSE r.name
            /\ e.prerelease = (r.prerelease = "true")
            /\ e.files = IF r.zip = Native!NoText \/ Len(F) >= MaxAssets THEN F
                         ELSE Append(F, Native!Source(r))
            /\ e.skipped = IF r.zip # Native!NoText /\ Len(F) >= MaxAssets THEN k + 1 ELSE k
            /\ k \in Int
<1> DEFINE e == Native!NativeEntry(r)
           B == BestFiles(r.assets)
           F == FilesOf(B)
           k == Len(r.assets) - Len(B)
           fits == r.zip # Native!NoText /\ Len(B) < MaxAssets
           d == r.created
           n == IF r.name = Native!NoText THEN r.tag ELSE r.name
           g == F \o IF fits THEN <<Native!Source(r)>> ELSE <<>>
           m == k + IF r.zip # Native!NoText /\ ~fits THEN 1 ELSE 0
<1>1. Native!BestFiles(r.assets) = B
  BY NativeBest
<1>2. e = [tag |-> r.tag, date |-> d, title |-> n, prerelease |-> r.prerelease = "true",
           files |-> g, skipped |-> m]
  <2> DEFINE q == Native!Expected(r)
             c == r.prerelease = "true"
             a == IF r.published \in {Native!Null, Native!NoText} THEN r.created ELSE r.published
             b == IF r.name \in {Native!Null, Native!NoText} THEN r.tag ELSE r.name
  <2>1. q = [tag |-> r.tag, date |-> a, title |-> b, prerelease |-> c, files |-> g, skipped |-> m]
    BY <1>1 DEF Native!Expected, FilesOf
  <2> HIDE DEF q, a, b, c, g, m
  <2>2. q.tag = r.tag /\ q.prerelease = c /\ q.files = g /\ q.skipped = m
    BY <2>1
  <2>3. e = [tag |-> q.tag, date |-> d, title |-> n, prerelease |-> q.prerelease,
             files |-> q.files, skipped |-> q.skipped]
    BY ShownFieldsAre DEF q
  <2>4. QED
    BY <2>2, <2>3 DEF c
<1>3. r.assets \in Seq(Asset)
  BY DEF Release
<1>4. B \in Seq(Asset)
  BY <1>3, ChosenByName
<1>5. F \in Seq(FileSet) /\ Len(F) = Len(B)
  BY <1>4, FilesOfIs
<1>6. Len(B) \in Nat /\ Len(r.assets) \in Nat /\ MaxAssets \in Nat
  BY <1>3, <1>4, ChoiceAssumption
<1> HIDE DEF B, F
<1>9. k \in Int
  BY <1>6
<1>10. fits <=> r.zip # Native!NoText /\ ~(Len(F) >= MaxAssets)
  BY <1>5, <1>6
<1>11. g = IF r.zip = Native!NoText \/ Len(F) >= MaxAssets THEN F ELSE Append(F, Native!Source(r))
  <2> DEFINE z == Native!Source(r)
  <2> HIDE DEF z
  <2>1. F \o <<>> = F /\ F \o <<z>> = Append(F, z)
    BY <1>5
  <2>2. QED
    BY <1>10, <2>1 DEF z
<1> HIDE DEF k
<1>12. m = IF r.zip # Native!NoText /\ Len(F) >= MaxAssets THEN k + 1 ELSE k
  BY <1>9, <1>10
<1> HIDE DEF d, n, g, m, fits
<1>13. /\ DOMAIN e = EntryFields /\ e.tag = r.tag /\ e.date = d /\ e.title = n
       /\ e.prerelease = (r.prerelease = "true") /\ e.files = g /\ e.skipped = m
  BY <1>2 DEF EntryFields
<1> HIDE DEF e
<1>14. QED
  BY <1>9, <1>11, <1>12, <1>13 DEF e, F, B, k, d, n

\* The list with one more release, if it is no draft and there is room.
WithRelease(v, r) ==
  IF RoomIn(v) /\ r.draft # "true" THEN [v EXCEPT !.list = Append(v.list, Native!NativeEntry(r))] ELSE v

\* Nothing but the list changes.
LEMMA WithReleaseIs ==
  ASSUME NEW v, DOMAIN v = ViewFields, NEW r
  PROVE  /\ DOMAIN WithRelease(v, r) = ViewFields
         /\ \A f \in ViewFields \ {"list"} : WithRelease(v, r)[f] = v[f]
         /\ WithRelease(v, r).list = IF RoomIn(v) /\ r.draft # "true"
                                     THEN Append(v.list, Native!NativeEntry(r)) ELSE v.list
<1> DEFINE z == [v EXCEPT !.list = Append(v.list, Native!NativeEntry(r))]
<1>1. /\ DOMAIN z = ViewFields /\ \A f \in ViewFields \ {"list"} : z[f] = v[f]
      /\ z.list = Append(v.list, Native!NativeEntry(r))
  BY DEF ViewFields
<1>2. WithRelease(v, r) = IF RoomIn(v) /\ r.draft # "true" THEN z ELSE v
  BY DEF WithRelease
<1> HIDE DEF z
<1>3. QED
  BY <1>1, <1>2

\* A release that has been read goes into the list as it is expected.
LEMMA EntryMade ==
  ASSUME NEW v, NEW r \in Release, ProperRelease(r), NEW y, ReadOf(v, r, y), RoomIn(v),
         r.draft # "true", NEW s, Agrees(s, y)
  PROVE  LET t == Native!EndRelease(s) IN
         /\ DOMAIN t = JsonFields /\ t.cur = Native!NoCur
         /\ t.list = Append(s.list, Native!NativeEntry(r))
         /\ \A f \in JsonFields \ {"cur", "list"} : t[f] = s[f]
<1> DEFINE B == FilesOf(BestFiles(r.assets))
           k == Len(r.assets) - Len(BestFiles(r.assets))
           d == [s.cur EXCEPT !.title = s.cur.tag]
           c == IF s.cur.title = Native!NoText THEN [s EXCEPT !.cur.title = s.cur.tag] ELSE s
           z == Native!AddSourceZip(c)
           e == [f \in DOMAIN z.cur \ {"live"} |-> z.cur[f]]
           x == Native!NativeEntry(r)
           src == [name |-> SourceName[c.cur.tag], size |-> "0", path |-> c.zip]
<1>1. /\ DOMAIN s = JsonFields /\ DOMAIN s.cur = CurFields /\ s.cur.live = TRUE
  BY DEF Agrees, ReadOf, RoomIn
<1>2. /\ s.cur.tag = r.tag /\ s.cur.title = r.name /\ s.cur.date = r.created
      /\ s.cur.prerelease = (r.prerelease = "true") /\ s.isDraft = (r.draft = "true")
      /\ s.cur.files = B /\ s.cur.skipped = k /\ s.zip = r.zip
  BY DEF Agrees, ReadOf
<1>3. r.tag # Native!NoText
  BY DEF ProperRelease
<1>4. /\ DOMAIN x = EntryFields /\ x.tag = r.tag /\ x.date = r.created
      /\ x.title = IF r.name = Native!NoText THEN r.tag ELSE r.name
      /\ x.prerelease = (r.prerelease = "true")
      /\ x.files = IF r.zip = Native!NoText \/ Len(B) >= MaxAssets THEN B
                   ELSE Append(B, Native!Source(r))
      /\ x.skipped = IF r.zip # Native!NoText /\ Len(B) >= MaxAssets THEN k + 1 ELSE k
      /\ k \in Int
  BY ExpectedIs
<1> HIDE DEF x, B, k
<1>5. /\ DOMAIN c = JsonFields /\ DOMAIN c.cur = CurFields
      /\ \A f \in JsonFields \ {"cur"} : c[f] = s[f]
      /\ \A f \in CurFields \ {"title"} : c.cur[f] = s.cur[f]
      /\ c.cur.title = IF r.name = Native!NoText THEN r.tag ELSE r.name
  <2>1. CASE s.cur.title = Native!NoText
    <3>1. c = [s EXCEPT !.cur = d]
      BY <2>1, <1>1 DEF JsonFields
    <3>2. /\ DOMAIN d = CurFields /\ d.title = s.cur.tag
          /\ \A f \in CurFields \ {"title"} : d[f] = s.cur[f]
      BY <1>1 DEF CurFields
    <3> HIDE DEF d
    <3>3. DOMAIN c = JsonFields /\ c.cur = d /\ \A f \in JsonFields \ {"cur"} : c[f] = s[f]
      BY <1>1, <3>1 DEF JsonFields
    <3> HIDE DEF c
    <3>4. QED
      BY <1>2, <2>1, <3>2, <3>3
  <2>2. CASE s.cur.title # Native!NoText
    BY <1>1, <1>2, <2>2
  <2>3. QED
    BY <2>1, <2>2
<1> HIDE DEF c
<1>6. /\ c.cur.tag = r.tag /\ c.cur.date = r.created /\ c.cur.live = TRUE
      /\ c.cur.prerelease = (r.prerelease = "true") /\ c.cur.files = B /\ c.cur.skipped = k
      /\ c.zip = r.zip
  BY <1>1, <1>2, <1>5 DEF CurFields, JsonFields
<1>7. src = Native!Source(r)
  BY <1>6 DEF Native!Source
<1> HIDE DEF src
<1>8. /\ DOMAIN z = JsonFields /\ DOMAIN z.cur = CurFields
      /\ \A f \in JsonFields \ {"cur"} : z[f] = c[f]
      /\ \A f \in CurFields \ {"files", "skipped"} : z.cur[f] = c.cur[f]
      /\ z.cur.files = x.files /\ z.cur.skipped = x.skipped
  <2>1. CASE c.zip = Native!NoText
    <3>1. z = c
      BY <2>1 DEF Native!AddSourceZip
    <3>2. x.files = B /\ x.skipped = k
      BY <1>4, <1>6, <2>1
    <3>3. QED
      BY <1>5, <1>6, <3>1, <3>2
  <2>2. CASE c.zip # Native!NoText /\ Len(c.cur.files) >= MaxAssets
    <3> DEFINE q == [c.cur EXCEPT !.skipped = c.cur.skipped + 1]
    <3>1. z = [c EXCEPT !.cur.skipped = @ + 1]
      BY <2>2 DEF Native!AddSourceZip
    <3>2. z = [c EXCEPT !.cur = q]
      BY <1>5, <3>1 DEF JsonFields
    <3>3. /\ DOMAIN q = CurFields /\ q.skipped = c.cur.skipped + 1
          /\ \A f \in CurFields \ {"skipped"} : q[f] = c.cur[f]
      BY <1>5 DEF CurFields
    <3> HIDE DEF q
    <3>4. DOMAIN z = JsonFields /\ z.cur = q /\ \A f \in JsonFields \ {"cur"} : z[f] = c[f]
      BY <1>5, <3>2 DEF JsonFields
    <3>5. q.files = B /\ q.skipped = k + 1
      BY <1>6, <3>3 DEF CurFields
    <3>6. x.files = B /\ x.skipped = k + 1
      BY <1>4, <1>6, <2>2
    <3> HIDE DEF z
    <3>7. QED
      BY <3>3, <3>4, <3>5, <3>6
  <2>3. CASE c.zip # Native!NoText /\ ~(Len(c.cur.files) >= MaxAssets)
    <3> DEFINE q == [c.cur EXCEPT !.files = Append(c.cur.files, src)]
    <3>1. z = [c EXCEPT !.cur.files = Append(@, src)]
      BY <2>3 DEF Native!AddSourceZip, src
    <3>2. z = [c EXCEPT !.cur = q]
      BY <1>5, <3>1 DEF JsonFields
    <3>3. /\ DOMAIN q = CurFields /\ q.files = Append(c.cur.files, src)
          /\ \A f \in CurFields \ {"files"} : q[f] = c.cur[f]
      BY <1>5 DEF CurFields
    <3> HIDE DEF q
    <3>4. DOMAIN z = JsonFields /\ z.cur = q /\ \A f \in JsonFields \ {"cur"} : z[f] = c[f]
      BY <1>5, <3>2 DEF JsonFields
    <3>5. q.files = Append(B, src) /\ q.skipped = k
      BY <1>6, <3>3 DEF CurFields
    <3>6. x.files = Append(B, src) /\ x.skipped = k
      BY <1>4, <1>6, <1>7, <2>3
    <3> HIDE DEF z
    <3>7. QED
      BY <3>3, <3>4, <3>5, <3>6
  <2>4. QED
    BY <2>1, <2>2, <2>3
<1>9. Native!EndRelease(s) = [z EXCEPT !.list = Append(@, e), !.cur = Native!NoCur]
  BY <1>1, <1>2, <1>3 DEF Native!EndRelease, c
<1> HIDE DEF z
<1>10. e = x
  <2>1. DOMAIN e = EntryFields
    BY <1>8 DEF CurFields, EntryFields
  <2>2. \A f \in EntryFields : e[f] = z.cur[f]
    BY <1>8 DEF CurFields, EntryFields
  <2>3. e = [f \in EntryFields |-> z.cur[f]]
    BY <1>8 DEF CurFields, EntryFields
  <2>4. /\ z.cur.tag = x.tag /\ z.cur.date = x.date /\ z.cur.title = x.title
        /\ z.cur.prerelease = x.prerelease /\ z.cur.files = x.files /\ z.cur.skipped = x.skipped
    BY <1>4, <1>5, <1>6, <1>8 DEF CurFields
  <2>5. \A f \in EntryFields : z.cur[f] = x[f]
    BY <2>4 DEF EntryFields
  <2>6. x = [f \in EntryFields |-> x[f]]
    <3> DEFINE q == Native!Expected(r)
               n == IF r.name = Native!NoText THEN r.tag ELSE r.name
    <3> HIDE DEF q, n
    <3>1. x = [tag |-> q.tag, date |-> r.created, title |-> n, prerelease |-> q.prerelease,
               files |-> q.files, skipped |-> q.skipped]
      BY ShownFieldsAre DEF x, q, n
    <3>2. x = [tag |-> x.tag, date |-> x.date, title |-> x.title, prerelease |-> x.prerelease,
               files |-> x.files, skipped |-> x.skipped]
      BY <3>1
    <3>3. QED
      BY <3>2 DEF EntryFields
  <2> HIDE DEF e
  <2>7. QED
    BY <2>3, <2>5, <2>6
<1> HIDE DEF e
<1>11. /\ DOMAIN Native!EndRelease(s) = JsonFields /\ Native!EndRelease(s).cur = Native!NoCur
       /\ Native!EndRelease(s).list = Append(z.list, e)
       /\ \A f \in JsonFields \ {"cur", "list"} : Native!EndRelease(s)[f] = z[f]
  BY <1>8, <1>9 DEF JsonFields
<1>12. z.list = s.list
  BY <1>5, <1>8 DEF JsonFields
<1>13. QED
  BY <1>5, <1>8, <1>10, <1>11, <1>12 DEF x

\* A release has ended.
LEMMA CloseRelease ==
  ASSUME NEW v, AmongReleases(v), NEW r \in Release, ProperRelease(r), NEW y, ReadOf(v, r, y),
         NEW s, Agrees(s, y)
  PROVE  Agrees(Native!CloseBrace(s), WithRelease(v, r))
<1> DEFINE w == WithRelease(v, r)
           e == Native!EndRelease(s)
           t == [e EXCEPT !.depth = IF @ > 0 THEN @ - 1 ELSE 0]
<1>1. /\ DOMAIN s = JsonFields /\ s.depth = 2 /\ DOMAIN s.asset = AssetFields /\ ~s.collecting
      /\ s.inAssets = FALSE /\ s.asset.where = "none" /\ s.cur.live = RoomIn(v) /\ s.list = v.list
  BY DEF Agrees, ReadOf
<1>2. Native!CloseBrace(s) = t
  BY <1>1 DEF Native!CloseBrace
<1>3. /\ DOMAIN w = ViewFields /\ \A f \in ViewFields \ {"list"} : w[f] = v[f]
      /\ w.list = IF RoomIn(v) /\ r.draft # "true" THEN Append(v.list, Native!NativeEntry(r)) ELSE v.list
  BY WithReleaseIs DEF AmongReleases
<1> HIDE DEF w
<1>4. w.depth = 1 /\ w.inAssets = FALSE /\ w.where = "none" /\ w.live = FALSE
  BY <1>3 DEF AmongReleases, ViewFields
<1>5. /\ DOMAIN e = JsonFields /\ e.cur = Native!NoCur /\ e.list = w.list
      /\ \A f \in JsonFields \ {"cur", "list"} : e[f] = s[f]
  <2>1. CASE RoomIn(v) /\ r.draft # "true"
    <3>1. /\ DOMAIN e = JsonFields /\ e.cur = Native!NoCur
          /\ e.list = Append(s.list, Native!NativeEntry(r))
          /\ \A f \in JsonFields \ {"cur", "list"} : e[f] = s[f]
      BY <2>1, EntryMade
    <3> HIDE DEF e
    <3>2. QED
      BY <1>1, <1>3, <2>1, <3>1
  <2>2. CASE ~(RoomIn(v) /\ r.draft # "true")
    <3>1. y.live => y.isDraft = (r.draft = "true")
      BY DEF ReadOf
    <3>2. s.cur.live = y.live /\ (y.live => s.isDraft = y.isDraft)
      BY DEF Agrees
    <3>3. ~(s.cur.live /\ ~s.isDraft)
      BY <1>1, <2>2, <3>1, <3>2
    <3>4. e = [s EXCEPT !.cur = Native!NoCur]
      BY <3>3 DEF Native!EndRelease
    <3>5. /\ DOMAIN e = JsonFields /\ e.cur = Native!NoCur
          /\ \A f \in JsonFields \ {"cur"} : e[f] = s[f]
      BY <1>1, <3>4 DEF JsonFields
    <3> HIDE DEF e
    <3>6. e.list = w.list
      BY <1>1, <1>3, <2>2, <3>5 DEF JsonFields
    <3>7. QED
      BY <3>5, <3>6
  <2>3. QED
    BY <2>1, <2>2
<1> HIDE DEF e
<1>6. e.depth = 2
  BY <1>1, <1>5 DEF JsonFields
<1>7. /\ DOMAIN t = JsonFields /\ t.depth = 1 /\ \A f \in JsonFields \ {"depth"} : t[f] = e[f]
  BY <1>5, <1>6 DEF JsonFields
<1> HIDE DEF t
<1>8. /\ t.collecting = s.collecting /\ t.inAssets = s.inAssets /\ t.asset = s.asset
      /\ t.list = w.list /\ t.cur = Native!NoCur
  BY <1>5, <1>7 DEF JsonFields
<1>9. DOMAIN Native!NoCur = CurFields /\ Native!NoCur.live = FALSE
  BY DEF Native!NoCur, Native!NewCur, CurFields
<1>10. Agrees(t, w)
  BY <1>1, <1>3, <1>4, <1>7, <1>8, <1>9 DEF Agrees
<1>11. QED
  BY <1>2, <1>10 DEF w

\* A release of an answer, as a whole.
LEMMA ReleaseRead ==
  ASSUME NEW v, AmongReleases(v), NEW r \in Release, ProperRelease(r)
  PROVE  Steps("any", v, Native!ReleaseJson(r), WithRelease(v, r))
<1>1. PICK y, fields : /\ ReadOf(v, r, y) /\ Native!ReleaseJson(r) = Native!Object(fields)
                       /\ Steps("key", ReleaseBegun(v), Native!Commas(fields), y)
  BY FieldsRead
<1>2. \A s : Agrees(s, v) => Agrees(Native!OpenBrace(s), ReleaseBegun(v))
  BY OpenRelease
<1>3. \A s : Agrees(s, y) => Agrees(Native!CloseBrace(s), WithRelease(v, r))
  BY <1>1, CloseRelease
<1>4. Steps("any", v, Native!Object(fields), WithRelease(v, r))
  BY <1>1, <1>2, <1>3, ObjectRead
<1>5. QED
  BY <1>1, <1>4

(***************************************************************************)
(* The whole answer.                                                       *)
(***************************************************************************)

\* What is expected of the releases K: as many as there is room for.
Awaited(K) == [i \in 1 .. AtMost(Len(K), MaxReleases) |-> Native!NativeEntry(K[i])]

\* One more is expected, if there is room.
LEMMA AwaitedMore ==
  ASSUME NEW S, NEW K \in Seq(S), NEW r \in S
  PROVE  /\ Awaited(Append(K, r)) = IF Len(K) < MaxReleases
                                    THEN Append(Awaited(K), Native!NativeEntry(r)) ELSE Awaited(K)
         /\ Native!IsSeq(Awaited(K)) /\ Len(Awaited(K)) = AtMost(Len(K), MaxReleases)
         /\ Awaited(<<>>) = <<>>
<1> DEFINE f(x) == Native!NativeEntry(x)
           E == {f(x) : x \in S}
           F(L) == [i \in 1 .. AtMost(Len(L), MaxReleases) |-> f(L[i])]
           A == Append(K, r)
<1>1. \A L : Awaited(L) = F(L)
  BY DEF Awaited
<1>2. \A x \in S : f(x) \in E
  OBVIOUS
<1> HIDE DEF f, E
<1>3. PICK n \in Nat : n = Len(K)
  OBVIOUS
<1>4. A \in Seq(S) /\ Len(A) = n + 1 /\ A[n + 1] = r /\ \A i \in 1 .. n : A[i] = K[i]
  BY <1>3
<1> HIDE DEF A
<1>5. PICK M \in Nat : M = MaxReleases
  BY ChoiceAssumption
<1>6. ASSUME NEW L \in Seq(S), NEW m, m = AtMost(Len(L), M)
      PROVE  F(L) \in Seq(E) /\ Len(F(L)) = m /\ \A i \in 1 .. m : F(L)[i] = f(L[i])
  <2>1. m \in Nat /\ m <= Len(L)
    BY <1>6 DEF AtMost
  <2>2. \A i \in 1 .. m : L[i] \in S
    BY <2>1
  <2>3. F(L) = [i \in 1 .. m |-> f(L[i])]
    BY <1>5, <1>6
  <2>4. \A i \in 1 .. m : f(L[i]) \in E
    BY <1>2, <2>2
  <2> DEFINE g == F(L)
  <2>5. g = [i \in 1 .. m |-> f(L[i])]
    BY <2>3
  <2> HIDE DEF g, F
  <2>6. g \in Seq(E) /\ Len(g) = m /\ \A i \in 1 .. m : g[i] = f(L[i])
    BY <2>1, <2>4, <2>5
  <2>7. QED
    BY <2>6 DEF g
<1> HIDE DEF F
<1>7. F(<<>>) = <<>>
  <2>0. <<>> \in Seq(S)
    OBVIOUS
  <2>1. PICK L \in Seq(S) : L = <<>>
    BY <2>0
  <2>2. PICK m \in Nat : m = 0 /\ m = AtMost(Len(L), M)
    BY <2>1 DEF AtMost
  <2>3. F(L) \in Seq(E) /\ Len(F(L)) = m
    BY <1>6, <2>2
  <2>4. QED
    BY <2>1, <2>2, <2>3, EmptySeq
<1>8. CASE n < M
  <2>1. AtMost(Len(K), M) = n /\ AtMost(Len(A), M) = n + 1
    BY <1>3, <1>4, <1>5, <1>8 DEF AtMost
  <2>2. F(K) \in Seq(E) /\ Len(F(K)) = n /\ \A i \in 1 .. n : F(K)[i] = f(K[i])
    BY <1>6, <2>1
  <2>3. F(A) \in Seq(E) /\ Len(F(A)) = n + 1 /\ \A i \in 1 .. n + 1 : F(A)[i] = f(A[i])
    BY <1>4, <1>6, <2>1
  <2>4. f(r) \in E
    BY <1>2
  <2> DEFINE g == F(K)
             b == Append(g, f(r))
  <2> HIDE DEF g
  <2>5. b \in Seq(E) /\ Len(b) = n + 1 /\ b[n + 1] = f(r) /\ \A i \in 1 .. n : b[i] = g[i]
    BY <2>2, <2>4 DEF g
  <2> HIDE DEF b
  <2>6. \A i \in 1 .. n + 1 : i = n + 1 \/ i \in 1 .. n
    OBVIOUS
  <2>7. \A i \in 1 .. n + 1 : F(A)[i] = b[i]
    BY <1>4, <2>2, <2>3, <2>5, <2>6 DEF g
  <2>8. F(A) = b
    BY <2>3, <2>5, <2>7, SameSeq
  <2>9. QED
    BY <1>1, <1>3, <1>5, <1>7, <1>8, <2>1, <2>2, <2>8, InSeq DEF A, b, g, f
<1>9. CASE ~(n < M)
  <2>1. AtMost(Len(K), M) = M /\ AtMost(Len(A), M) = M /\ M <= n
    BY <1>3, <1>4, <1>5, <1>9 DEF AtMost
  <2>2. F(K) \in Seq(E) /\ Len(F(K)) = M /\ \A i \in 1 .. M : F(K)[i] = f(K[i])
    BY <1>6, <2>1
  <2>3. F(A) \in Seq(E) /\ Len(F(A)) = M /\ \A i \in 1 .. M : F(A)[i] = f(A[i])
    BY <1>4, <1>6, <2>1
  <2>4. \A i \in 1 .. M : i \in 1 .. n
    BY <2>1
  <2>5. \A i \in 1 .. M : F(A)[i] = F(K)[i]
    BY <1>4, <2>2, <2>3, <2>4
  <2>6. F(A) = F(K)
    BY <2>2, <2>3, <2>5, SameSeq
  <2>7. QED
    BY <1>1, <1>3, <1>5, <1>7, <1>9, <2>1, <2>2, <2>6, InSeq DEF A
<1>10. QED
  BY <1>8, <1>9

\* The answers that are read are proper ones.
LEMMA ProperAnswers ==
  ASSUME NEW a \in Inputs
  PROVE  a \in Seq(Release) /\ \A i \in 1 .. Len(a) : a[i] \in Release /\ ProperRelease(a[i])
<1>1. a \in Seq(Release)
  BY AnswersAssumption
<1>2. Native!NoText = NoText /\ Native!Null = Null
  BY DEF Native!NoText, NoText, Native!Null, Null
<1>3. ASSUME NEW i \in 1 .. Len(a) PROVE a[i] \in Release /\ ProperRelease(a[i])
  <2>1. a[i] \in Release /\ a[i] \in ToSet(a)
    BY <1>1 DEF ToSet
  <2>2. PICK r : r = a[i]
    OBVIOUS
  <2>3. /\ r.tag # NoText /\ r.created # NoText
        /\ \A f \in ToSet(r.assets) : f.name # NoText /\ f.url # NoText
    BY <2>1, <2>2, InputsAssumption
  <2>4. ASSUME NEW k \in 1 .. Len(r.assets) PROVE ProperAsset(r.assets[k])
    <3>1. r.assets \in Seq(Asset)
      BY <2>1, <2>2 DEF Release
    <3>2. r.assets[k] \in Asset /\ r.assets[k] \in ToSet(r.assets)
      BY <3>1 DEF ToSet
    <3>3. PICK f : f = r.assets[k]
      OBVIOUS
    <3>4. f.name \in STRING /\ f.size \in STRING /\ f.url \in STRING
      BY <3>2, <3>3 DEF Asset
    <3>5. f.name # NoText /\ f.url # NoText
      BY <2>3, <3>2, <3>3
    <3>6. QED
      BY <1>2, <3>3, <3>4, <3>5 DEF ProperAsset, Texts
  <2>5. QED
    BY <1>2, <2>1, <2>2, <2>3, <2>4 DEF ProperRelease
<1>4. QED
  BY <1>1, <1>3

\* The parser at the start and among the releases of the answer.
AtStart == [depth |-> 0, inAssets |-> FALSE, list |-> <<>>, live |-> FALSE, tag |-> Native!NoText,
            date |-> Native!NoText, title |-> Native!NoText, prerelease |-> FALSE,
            files |-> <<>>, skipped |-> 0, isDraft |-> FALSE, zip |-> Native!NoText,
            where |-> "none", name |-> Native!NoText, size |-> Native!NoText,
            path |-> Native!NoText]
Outside(list) == [AtStart EXCEPT !.list = list]
Among(list)   == [Outside(list) EXCEPT !.depth = 1]

\* What both have in common.
ListOnly(v, list) == /\ DOMAIN v = ViewFields /\ v.list = list /\ v.inAssets = FALSE
                     /\ v.where = "none" /\ v.live = FALSE
                     /\ \A f \in ViewFields \ {"depth", "list"} : v[f] = AtStart[f]

\* All that counts is the list and the depth.
LEMMA ListOnlyIs ==
  ASSUME NEW l
  PROVE  /\ ListOnly(Outside(l), l) /\ Outside(l).depth = 0
         /\ ListOnly(Among(l), l) /\ Among(l).depth = 1
<1> DEFINE v == Outside(l)
           w == Among(l)
<1>1. /\ DOMAIN AtStart = ViewFields /\ AtStart.inAssets = FALSE /\ AtStart.where = "none"
      /\ AtStart.live = FALSE /\ AtStart.depth = 0
  BY DEF AtStart, ViewFields
<1>2. /\ DOMAIN v = ViewFields /\ v.list = l
      /\ \A f \in ViewFields \ {"list"} : v[f] = AtStart[f]
  BY <1>1 DEF Outside, ViewFields
<1>3. w = [v EXCEPT !.depth = 1]
  BY DEF Among
<1> HIDE DEF v
<1>4. /\ DOMAIN w = ViewFields /\ w.depth = 1
      /\ \A f \in ViewFields \ {"depth"} : w[f] = v[f]
  BY <1>2, <1>3 DEF ViewFields
<1> HIDE DEF w
<1>5. ListOnly(v, l) /\ v.depth = 0
  BY <1>1, <1>2 DEF ListOnly, ViewFields
<1>6. ListOnly(w, l)
  BY <1>4, <1>5 DEF ListOnly, ViewFields
<1>7. QED
  BY <1>4, <1>5, <1>6 DEF v, w

\* gf_json_init.
LEMMA StartAgrees == Agrees(Native!GfJsonInit, Outside(<<>>))
<1> DEFINE s == Native!GfJsonInit
           v == Outside(<<>>)
<1>1. /\ DOMAIN s = JsonFields /\ s.depth = 0 /\ s.inAssets = FALSE /\ s.collecting = FALSE
      /\ s.cur = Native!NoCur /\ s.asset = Native!NoAsset /\ s.list = <<>>
  BY DEF Native!GfJsonInit, JsonFields
<1>2. DOMAIN Native!NoAsset = AssetFields /\ Native!NoAsset.where = "none"
  BY DEF Native!NoAsset, Native!NewAsset, AssetFields
<1>3. DOMAIN Native!NoCur = CurFields /\ Native!NoCur.live = FALSE
  BY DEF Native!NoCur, Native!NewCur, CurFields
<1>4. /\ DOMAIN v = ViewFields /\ v.depth = 0 /\ v.list = <<>>
      /\ v.inAssets = FALSE /\ v.where = "none" /\ v.live = FALSE
  BY ListOnlyIs DEF ListOnly
<1> HIDE DEF s, v
<1>5. Agrees(s, v)
  BY <1>1, <1>2, <1>3, <1>4 DEF Agrees
<1>6. QED
  BY <1>5 DEF s, v

\* The brackets of the answer.
LEMMA OuterBrackets ==
  ASSUME NEW l, NEW s
  PROVE  /\ Agrees(s, Outside(l)) => Agrees(Native!OpenBracket(s), Among(l))
         /\ Agrees(s, Among(l)) => Agrees(Native!CloseBracket(s), Outside(l))
<1> DEFINE v == Outside(l)
           w == Among(l)
<1>1. /\ DOMAIN v = ViewFields /\ v.depth = 0 /\ v.list = l
      /\ v.inAssets = FALSE /\ v.where = "none" /\ v.live = FALSE
  BY ListOnlyIs DEF ListOnly
<1>2. /\ DOMAIN w = ViewFields /\ w.depth = 1 /\ w.list = l
      /\ w.inAssets = FALSE /\ w.where = "none" /\ w.live = FALSE
  BY ListOnlyIs DEF ListOnly
<1> HIDE DEF v, w
<1>3. ASSUME Agrees(s, v) PROVE Agrees(Native!OpenBracket(s), w)
  <2> DEFINE t == [s EXCEPT !.depth = @ + 1]
  <2>1. DOMAIN s = JsonFields /\ s.depth = 0
    BY <1>1, <1>3 DEF Agrees
  <2>2. /\ DOMAIN t = JsonFields /\ t.depth = 1 /\ \A f \in JsonFields \ {"depth"} : t[f] = s[f]
    BY <2>1 DEF JsonFields
  <2>3. Native!OpenBracket(s) = t
    BY <2>2 DEF Native!OpenBracket
  <2> HIDE DEF t
  <2>4. \A f \in {"collecting", "list", "cur", "asset", "inAssets"} : t[f] = s[f]
    BY <2>2 DEF JsonFields
  <2>5. t.collecting = s.collecting /\ t.list = s.list /\ t.cur = s.cur /\ t.asset = s.asset
        /\ t.inAssets = s.inAssets
    BY <2>4
  <2>6. Agrees(t, w)
    BY <1>1, <1>2, <1>3, <2>2, <2>5 DEF Agrees
  <2>7. QED
    BY <2>3, <2>6
<1>4. ASSUME Agrees(s, w) PROVE Agrees(Native!CloseBracket(s), v)
  <2> DEFINE t == [s EXCEPT !.inAssets = @ /\ s.depth # s.assetsDepth,
                            !.depth = IF @ > 0 THEN @ - 1 ELSE 0]
             r == [s EXCEPT !.inAssets = FALSE, !.depth = 0]
  <2>1. DOMAIN s = JsonFields /\ s.depth = 1 /\ s.inAssets = FALSE
    BY <1>2, <1>4 DEF Agrees
  <2>2. t = r
    <3>1. (s.inAssets /\ s.depth # s.assetsDepth) = FALSE
      BY <2>1
    <3>2. (IF s.depth > 0 THEN s.depth - 1 ELSE 0) = 0
      BY <2>1
    <3>3. QED
      BY <3>1, <3>2
  <2>3. Native!CloseBracket(s) = t
    BY DEF Native!CloseBracket
  <2>4. /\ DOMAIN r = JsonFields /\ r.depth = 0 /\ r.inAssets = FALSE
        /\ \A f \in JsonFields \ {"depth", "inAssets"} : r[f] = s[f]
    BY <2>1 DEF JsonFields
  <2> HIDE DEF t, r
  <2>5. r.collecting = s.collecting /\ r.list = s.list /\ r.cur = s.cur /\ r.asset = s.asset
    BY <2>4 DEF JsonFields
  <2>6. Agrees(r, v)
    BY <1>1, <1>2, <1>4, <2>4, <2>5 DEF Agrees
  <2>7. QED
    BY <2>2, <2>3, <2>6
<1>5. QED
  BY <1>3, <1>4 DEF v, w

\* One release after the other: those that are published, as they are expected.
LEMMA AnswerRead ==
  ASSUME NEW a \in Inputs
  PROVE  Steps("any", Outside(<<>>), Native!Json(a), Outside(Native!NativeList(a)))
<1> DEFINE N == Len(a)
           P == [i \in 1 .. N |-> IF a[i].draft = "true" THEN <<>> ELSE <<a[i]>>]
           J == [i \in 1 .. N |-> Native!ReleaseJson(a[i])]
<1>1. a \in Seq(Release) /\ \A i \in 1 .. N : a[i] \in Release /\ ProperRelease(a[i])
  BY ProperAnswers
<1>2. N \in Nat
  BY <1>1
<1>3. P \in Seq(Seq(Release)) /\ Len(P) = N
      /\ \A i \in 1 .. N : P[i] = IF a[i].draft = "true" THEN <<>> ELSE <<a[i]>>
  <2> HIDE DEF N
  <2>1. \A i \in 1 .. N : (IF a[i].draft = "true" THEN <<>> ELSE <<a[i]>>) \in Seq(Release)
    BY <1>1
  <2>2. QED
    BY <1>2, <2>1
<1>4. Native!Published(a) = FlattenSeq(P)
  BY NativeFlattenSeq DEF Native!Published
<1>5. \A i \in 1 .. N : J[i] = Native!ReleaseJson(a[i])
  OBVIOUS
<1>6. J = [i \in 1 .. N |-> J[i]] /\ Native!Json(a) = Native!Array(J)
  BY DEF Native!Json
<1> HIDE DEF N, P, J
<1>7. PICK c \in [0 .. N -> Seq(Release)] : Flattens(c, P, N)
  BY <1>3, Flattening
<1> DEFINE V == [n \in 0 .. N |-> Among(Awaited(c[n]))]
<1>8. \A n \in 0 .. N : V[n] = Among(Awaited(c[n])) /\ c[n] \in Seq(Release)
  OBVIOUS
<1> HIDE DEF V
<1>9. ASSUME NEW i \in 1 .. N PROVE Steps("any", V[i - 1], J[i], V[i]) /\ J[i] \in Seq(Tokens)
  <2>1. PICK n \in 0 .. N : n = i - 1
    BY <1>2
  <2>2. i \in 0 .. N
    OBVIOUS
  <2>3. PICK k : k = Awaited(c[n])
    OBVIOUS
  <2>4. PICK v : v = Among(k)
    OBVIOUS
  <2>41. ListOnly(v, k) /\ v.depth = 1
    BY <2>4, ListOnlyIs
  <2>42. PICK l : l = Awaited(c[i])
    OBVIOUS
  <2>43. PICK w : w = Among(l)
    OBVIOUS
  <2>44. ListOnly(w, l) /\ w.depth = 1
    BY <2>43, ListOnlyIs
  <2>5. PICK r : r = a[i]
    OBVIOUS
  <2>6. r \in Release /\ ProperRelease(r)
    BY <1>1, <2>5
  <2>7. /\ DOMAIN v = ViewFields /\ v.depth = 1 /\ v.list = Awaited(c[n])
        /\ v.inAssets = FALSE /\ v.where = "none" /\ v.live = FALSE
        /\ \A f \in ViewFields \ {"depth", "list"} : v[f] = AtStart[f]
    BY <2>3, <2>41 DEF ListOnly
  <2>8. /\ DOMAIN w = ViewFields /\ w.depth = 1 /\ w.list = Awaited(c[i])
        /\ \A f \in ViewFields \ {"depth", "list"} : w[f] = AtStart[f]
    BY <2>42, <2>44 DEF ListOnly
  <2>9. AmongReleases(v)
    BY <2>7 DEF AmongReleases
  <2>10. Steps("any", v, J[i], WithRelease(v, r))
    BY <1>5, <2>5, <2>6, <2>9, ReleaseRead
  <2>11. /\ DOMAIN WithRelease(v, r) = ViewFields
         /\ \A f \in ViewFields \ {"list"} : WithRelease(v, r)[f] = v[f]
         /\ WithRelease(v, r).list = IF RoomIn(v) /\ r.draft # "true"
                                     THEN Append(v.list, Native!NativeEntry(r)) ELSE v.list
    BY <2>7, WithReleaseIs
  <2>12. PICK K \in Seq(Release) : K = c[n]
    BY <1>8
  <2>13. c[i] = K \o P[i]
    BY <1>7, <2>1, <2>12 DEF Flattens
  <2>14. /\ Awaited(Append(K, r)) = IF Len(K) < MaxReleases
                                    THEN Append(Awaited(K), Native!NativeEntry(r)) ELSE Awaited(K)
         /\ Len(Awaited(K)) = AtMost(Len(K), MaxReleases)
    BY <2>6, <2>12, AwaitedMore
  <2>15. RoomIn(v) <=> Len(K) < MaxReleases
    <3>1. AtMost(Len(K), MaxReleases) < MaxReleases <=> Len(K) < MaxReleases
      BY <2>12, ChoiceAssumption DEF AtMost
    <3>2. QED
      BY <2>7, <2>12, <2>14, <3>1 DEF RoomIn
  <2>16. WithRelease(v, r).list = w.list
    <3>1. CASE r.draft = "true"
      <4>1. P[i] = <<>>
        BY <1>3, <2>5, <3>1
      <4>2. c[i] = K
        BY <2>12, <2>13, <4>1
      <4>3. QED
        BY <2>7, <2>8, <2>11, <2>12, <3>1, <4>2
    <3>2. CASE r.draft # "true"
      <4>1. P[i] = <<r>>
        BY <1>3, <2>5, <3>2
      <4>2. c[i] = Append(K, r)
        BY <2>6, <2>12, <2>13, <4>1
      <4>3. QED
        BY <2>7, <2>8, <2>11, <2>12, <2>14, <2>15, <3>2, <4>2
    <3>3. QED
      BY <3>1, <3>2
  <2>17. ASSUME NEW f \in ViewFields PROVE WithRelease(v, r)[f] = w[f]
    <3>1. CASE f = "list"
      BY <2>16, <3>1
    <3>2. CASE f = "depth"
      <4>1. WithRelease(v, r).depth = v.depth
        BY <2>11 DEF ViewFields
      <4>2. QED
        BY <2>7, <2>8, <3>2, <4>1
    <3>3. CASE f # "list" /\ f # "depth"
      BY <2>7, <2>8, <2>11, <3>3
    <3>4. QED
      BY <3>1, <3>2, <3>3
  <2>18. Alike(WithRelease(v, r), w) /\ Alike(v, v)
    BY <2>7, <2>8, <2>11, <2>17 DEF Alike
  <2>19. Steps("any", v, J[i], w)
    BY <2>10, <2>18, StepsAlike
  <2>20. V[i - 1] = v /\ V[i] = w
    BY <1>8, <2>1, <2>2, <2>3, <2>4, <2>42, <2>43
  <2>21. QED
    BY <2>19, <2>20 DEF Steps
<1>10. J \in Seq(Seq(Tokens)) /\ Len(J) = N
  <2>1. \A i \in 1 .. N : J[i] \in Seq(Tokens)
    BY <1>9
  <2>2. QED
    BY <1>2, <1>6, <2>1
<1>11. Steps("any", V[0], Native!Commas(J), V[N])
  BY <1>9, <1>10, ItemsRead
<1>12. V[0] = Among(<<>>)
  <2>1. 0 \in 0 .. N /\ c[0] = <<>>
    BY <1>2, <1>7 DEF Flattens
  <2>2. Awaited(<<>>) = <<>>
    <3>1. Len(<<>>) = 0 /\ AtMost(0, MaxReleases) = 0
      BY ChoiceAssumption DEF AtMost
    <3>2. QED
      BY <3>1 DEF Awaited
  <2>3. QED
    BY <1>8, <2>1, <2>2
<1>13. V[N] = Among(Native!NativeList(a))
  <2>1. N \in 0 .. N /\ Native!Published(a) = c[N]
    BY <1>2, <1>4, <1>7 DEF Flattens
  <2>2. PICK K \in Seq(Release) : K = c[N]
    BY <1>8, <2>1
  <2>3. (IF Len(K) < MaxReleases THEN Len(K) ELSE MaxReleases) = AtMost(Len(K), MaxReleases)
    BY ChoiceAssumption DEF AtMost
  <2>4. Native!NativeList(a) = Awaited(K)
    BY <2>1, <2>2, <2>3 DEF Native!NativeList, Awaited
  <2>5. QED
    BY <1>8, <2>1, <2>2, <2>4
<1>14. \A s : Agrees(s, Outside(<<>>)) /\ Ready(s, "any") => Agrees(Native!OpenBracket(s), Among(<<>>))
  BY OuterBrackets
<1>15. \A s : Agrees(s, Among(Native!NativeList(a)))
                => Agrees(Native!CloseBracket(s), Outside(Native!NativeList(a)))
  BY OuterBrackets
<1>16. Steps("any", Among(<<>>), Native!Commas(J), Among(Native!NativeList(a)))
  BY <1>11, <1>12, <1>13
<1>17. Steps("any", Outside(<<>>), Native!Array(J), Outside(Native!NativeList(a)))
  <2> DEFINE v == Outside(<<>>)
             x == Among(<<>>)
             y == Among(Native!NativeList(a))
             w == Outside(Native!NativeList(a))
  <2> HIDE DEF v, x, y, w
  <2>1. Steps("any", x, Native!Commas(J), y)
    BY <1>16 DEF x, y
  <2>2. \A s : Agrees(s, v) /\ Ready(s, "any") => Agrees(Native!OpenBracket(s), x)
    BY <1>14 DEF v, x
  <2>3. \A s : Agrees(s, y) => Agrees(Native!CloseBracket(s), w)
    BY <1>15 DEF y, w
  <2>4. Steps("any", v, Native!Array(J), w)
    BY <2>1, <2>2, <2>3, ArrayRead
  <2>5. QED
    BY <2>4 DEF v, w
<1>18. QED
  BY <1>6, <1>17

(***************************************************************************)
(* The list only grows.                                                    *)
(***************************************************************************)

\* The same list.
SameEntries(s, t) == DOMAIN t = JsonFields /\ t.list = s.list

\* Values leave the list as it is.
LEMMA ValuesKeep ==
  ASSUME NEW s, DOMAIN s = JsonFields
  PROVE  SameEntries(s, Native!ValueDone(s)) /\ SameEntries(s, Native!DoneIfCollecting(s))
<1>1. SameEntries(s, Native!StoreReleaseField(s))
  <2> DEFINE c == s.cur
             At(key, old) == IF s.key = key THEN s.val ELSE old
             Is(key, old) == IF s.key = key THEN s.val = "true" ELSE old
             x == [c EXCEPT
                    !.tag = At("tag_name", c.tag), !.title = At("name", c.title),
                    !.date = IF c.date = Native!NoText /\ s.key \in {"published_at", "created_at"}
                             THEN s.val ELSE c.date,
                    !.prerelease = Is("prerelease", c.prerelease)]
             d == Is("draft", s.isDraft)
             z == At("zipball_url", s.zip)
  <2>1. Native!StoreReleaseField(s)
          = IF ~c.live THEN s ELSE [s EXCEPT !.cur = x, !.isDraft = d, !.zip = z]
    BY DEF Native!StoreReleaseField
  <2> HIDE DEF x, d, z, c
  <2>2. SameEntries(s, [s EXCEPT !.cur = x, !.isDraft = d, !.zip = z])
    BY DEF SameEntries, JsonFields
  <2>3. QED
    BY <2>1, <2>2 DEF SameEntries
<1>2. SameEntries(s, Native!StoreAssetField(s))
  <2> DEFINE a == s.asset
             At(key, old) == IF s.key = key THEN s.val ELSE old
             x == [a EXCEPT !.name = At("name", a.name), !.size = At("size", a.size),
                            !.path = At("browser_download_url", a.path)]
  <2>1. Native!StoreAssetField(s) = IF a.where = "none" THEN s ELSE [s EXCEPT !.asset = x]
    BY DEF Native!StoreAssetField
  <2> HIDE DEF x, a
  <2>2. SameEntries(s, [s EXCEPT !.asset = x])
    BY DEF SameEntries, JsonFields
  <2>3. QED
    BY <2>1, <2>2 DEF SameEntries
<1> DEFINE r == IF s.depth = 2 THEN Native!StoreReleaseField(s)
                ELSE IF Native!InAsset(s) THEN Native!StoreAssetField(s) ELSE s
<1>3. SameEntries(s, r)
  BY <1>1, <1>2 DEF SameEntries
<1>4. SameEntries(s, Native!ValueDone(s))
  <2>1. Native!ValueDone(s)
          = [r EXCEPT !.collecting = FALSE, !.val = Native!NoText, !.key = Native!NoText]
    BY DEF Native!ValueDone
  <2> HIDE DEF r
  <2>2. QED
    BY <1>3, <2>1 DEF SameEntries, JsonFields
<1>5. SameEntries(s, Native!DoneIfCollecting(s))
  BY <1>4 DEF Native!DoneIfCollecting, SameEntries
<1>6. QED
  BY <1>4, <1>5

\* Strings too.
LEMMA StringsKeep ==
  ASSUME NEW s, DOMAIN s = JsonFields, NEW y
  PROVE  SameEntries(s, Native!StringDone(s, y))
<1> DEFINE q == [s EXCEPT !.val = y]
           t == [s EXCEPT !.key = y, !.lastKey = y, !.readingKey = FALSE]
<1>1. SameEntries(s, q) /\ SameEntries(s, t) /\ SameEntries(s, s)
  BY DEF SameEntries, JsonFields
<1>2. SameEntries(q, Native!ValueDone(q))
  <2> HIDE DEF q
  <2>1. QED
    BY <1>1, ValuesKeep DEF SameEntries
<1>3. Native!StringDone(s, y)
        = IF s.readingKey THEN t ELSE IF s.collecting THEN Native!ValueDone(q) ELSE s
  BY DEF Native!StringDone
<1> HIDE DEF q, t
<1>4. QED
  BY <1>1, <1>2, <1>3 DEF SameEntries

\* So do opening tokens and closing brackets.
LEMMA OpeningKeeps ==
  ASSUME NEW s, DOMAIN s = JsonFields
  PROVE  /\ SameEntries(s, Native!OpenBrace(s)) /\ SameEntries(s, Native!OpenBracket(s))
         /\ SameEntries(s, Native!CloseBracket(s))
<1> DEFINE d == [s EXCEPT !.depth = @ + 1]
<1>1. SameEntries(s, d)
  BY DEF SameEntries, JsonFields
<1>2. SameEntries(s, Native!OpenBrace(s))
  <2> DEFINE c == IF Native!RoomForRelease(s) THEN Native!NewCur ELSE Native!NoCur
             n == IF Native!RoomForRelease(s) THEN d.dropped ELSE d.dropped + 1
             t == [d EXCEPT !.cur = c, !.dropped = n, !.isDraft = FALSE, !.inAssets = FALSE,
                            !.zip = Native!NoText]
             u == [d EXCEPT !.asset = Native!AssetPlace(d)]
  <2>1. Native!OpenBrace(s) = IF d.depth = 2 THEN t ELSE IF Native!InAsset(d) THEN u ELSE d
    BY DEF Native!OpenBrace
  <2> HIDE DEF d, c, n
  <2>2. SameEntries(d, t) /\ SameEntries(d, u)
    BY <1>1 DEF SameEntries, JsonFields
  <2> HIDE DEF t, u
  <2>3. QED
    BY <1>1, <2>1, <2>2 DEF SameEntries
<1>3. SameEntries(s, Native!OpenBracket(s))
  <2> DEFINE t == [d EXCEPT !.inAssets = TRUE, !.assetsDepth = d.depth]
  <2>1. Native!OpenBracket(s) = IF d.depth = 3 /\ d.lastKey = "assets" THEN t ELSE d
    BY DEF Native!OpenBracket
  <2> HIDE DEF d
  <2>2. SameEntries(d, t)
    BY <1>1 DEF SameEntries, JsonFields
  <2> HIDE DEF t
  <2>3. QED
    BY <1>1, <2>1, <2>2 DEF SameEntries
<1>4. SameEntries(s, Native!CloseBracket(s))
  <2> DEFINE a == s.inAssets /\ s.depth # s.assetsDepth
             n == IF s.depth > 0 THEN s.depth - 1 ELSE 0
  <2>1. Native!CloseBracket(s) = [s EXCEPT !.inAssets = a, !.depth = n]
    BY DEF Native!CloseBracket
  <2> HIDE DEF a, n
  <2>2. QED
    BY <2>1 DEF SameEntries, JsonFields
<1>5. QED
  BY <1>2, <1>3, <1>4

\* A closing brace may add a release.
Grown(s, t) == DOMAIN t = JsonFields /\ (t.list = s.list \/ \E e : t.list = Append(s.list, e))

\* It does nothing else to the list.
LEMMA ClosingAdds ==
  ASSUME NEW s, DOMAIN s = JsonFields
  PROVE  Grown(s, Native!CloseBrace(s))
<1>1. Grown(s, Native!EndRelease(s))
  <2> DEFINE c == IF s.cur.title = Native!NoText THEN [s EXCEPT !.cur.title = s.cur.tag] ELSE s
             z == Native!AddSourceZip(c)
             e == [f \in DOMAIN z.cur \ {"live"} |-> z.cur[f]]
             t == [z EXCEPT !.list = Append(@, e), !.cur = Native!NoCur]
             u == [s EXCEPT !.cur = Native!NoCur]
  <2>1. Native!EndRelease(s)
          = IF s.cur.live /\ ~s.isDraft /\ s.cur.tag # Native!NoText THEN t ELSE u
    BY DEF Native!EndRelease
  <2>2. SameEntries(s, c)
    BY DEF SameEntries, JsonFields
  <2> HIDE DEF c
  <2>3. SameEntries(c, z)
    <3> DEFINE src == [name |-> SourceName[c.cur.tag], size |-> "0", path |-> c.zip]
    <3>1. Native!AddSourceZip(c)
            = IF c.zip = Native!NoText THEN c
              ELSE IF Len(c.cur.files) >= MaxAssets THEN [c EXCEPT !.cur.skipped = @ + 1]
              ELSE [c EXCEPT !.cur.files = Append(@, src)]
      BY DEF Native!AddSourceZip
    <3> HIDE DEF src
    <3>2. /\ SameEntries(c, c) /\ SameEntries(c, [c EXCEPT !.cur.skipped = @ + 1])
          /\ SameEntries(c, [c EXCEPT !.cur.files = Append(@, src)])
      BY <2>2 DEF SameEntries, JsonFields
    <3>3. QED
      BY <3>1, <3>2
  <2> HIDE DEF z, e
  <2>4. DOMAIN t = JsonFields /\ t.list = Append(s.list, e)
    BY <2>2, <2>3 DEF SameEntries, JsonFields
  <2>5. DOMAIN u = JsonFields /\ u.list = s.list
    BY DEF JsonFields
  <2> HIDE DEF t, u
  <2>6. QED
    BY <2>1, <2>4, <2>5 DEF Grown
<1>2. Grown(s, Native!EndAsset(s))
  <2> DEFINE a == [name |-> s.asset.name, size |-> s.asset.size, path |-> s.asset.path]
             t == [s EXCEPT !.asset = Native!NoAsset]
             u == [s EXCEPT !.cur.files = Native!GfAssetOffer(@, a), !.cur.skipped = @ + 1,
                            !.asset = Native!NoAsset]
             x == [s EXCEPT !.cur.files = Append(@, a), !.asset = Native!NoAsset]
  <2>1. Native!EndAsset(s)
          = IF s.asset.where = "none" THEN s
            ELSE IF s.asset.name = Native!NoText \/ s.asset.path = Native!NoText THEN t
            ELSE IF s.asset.where = "spare" THEN u ELSE x
    BY DEF Native!EndAsset
  <2> HIDE DEF a
  <2>2. SameEntries(s, t) /\ SameEntries(s, u) /\ SameEntries(s, x) /\ SameEntries(s, s)
    BY DEF SameEntries, JsonFields
  <2> HIDE DEF t, u, x
  <2>3. QED
    BY <2>1, <2>2 DEF SameEntries, Grown
<1> DEFINE e == IF s.depth = 2 THEN Native!EndRelease(s)
                ELSE IF Native!InAsset(s) THEN Native!EndAsset(s) ELSE s
           n == IF e.depth > 0 THEN e.depth - 1 ELSE 0
<1>3. Native!CloseBrace(s) = [e EXCEPT !.depth = n]
  BY DEF Native!CloseBrace
<1>4. Grown(s, e)
  BY <1>1, <1>2 DEF Grown
<1> HIDE DEF e, n
<1>5. SameEntries(e, [e EXCEPT !.depth = n])
  BY <1>4 DEF Grown, SameEntries, JsonFields
<1>6. QED
  BY <1>3, <1>4, <1>5 DEF Grown, SameEntries

\* Every token does one or the other.
LEMMA TokenGrows ==
  ASSUME NEW s, DOMAIN s = JsonFields, NEW c
  PROVE  Grown(s, TokenDone(s, c))
<1> DEFINE d == Native!DoneIfCollecting(s)
           o == Native!OpenBrace(s)
           e == Native!CloseBrace(d)
<1>1. SameEntries(s, d) /\ SameEntries(s, o)
  BY ValuesKeep, OpeningKeeps
<1>2. PICK q : q = d
  OBVIOUS
<1>3. Grown(s, e) /\ SameEntries(s, Native!CloseBracket(d))
  <2>1. DOMAIN q = JsonFields /\ q.list = s.list
    BY <1>1, <1>2 DEF SameEntries
  <2>2. Grown(q, Native!CloseBrace(q)) /\ SameEntries(q, Native!CloseBracket(q))
    BY <2>1, ClosingAdds, OpeningKeeps
  <2>3. QED
    BY <1>2, <2>1, <2>2 DEF Grown, SameEntries
<1>4. TokenDone(s, c) =
        IF c.t = "str" THEN Native!StringDone(s, c.v)
        ELSE IF c.t = "lit" THEN IF s.collecting THEN [s EXCEPT !.val = c.v] ELSE s
        ELSE IF c.t = "brace" THEN [o EXCEPT !.readingKey = TRUE, !.key = Native!NoText]
        ELSE IF c.t = "end brace" THEN [e EXCEPT !.readingKey = FALSE]
        ELSE IF c.t = "bracket" THEN Native!OpenBracket(s)
        ELSE IF c.t = "end bracket" THEN Native!CloseBracket(d)
        ELSE IF c.t = "colon"
        THEN [s EXCEPT !.collecting = Native!WantValue(s), !.val = Native!NoText]
        ELSE [d EXCEPT !.readingKey = TRUE]
  BY DEF TokenDone
<1> HIDE DEF d, o, e
<1>5. /\ SameEntries(s, Native!StringDone(s, c.v)) /\ SameEntries(s, Native!OpenBracket(s))
  BY StringsKeep, OpeningKeeps
<1>6. SameEntries(s, [s EXCEPT !.val = c.v]) /\ SameEntries(s, s)
  BY DEF SameEntries, JsonFields
<1>7. SameEntries(s, [o EXCEPT !.readingKey = TRUE, !.key = Native!NoText])
  BY <1>1 DEF SameEntries, JsonFields
<1>8. Grown(s, [e EXCEPT !.readingKey = FALSE])
  <2>1. SameEntries(e, [e EXCEPT !.readingKey = FALSE])
    BY <1>3 DEF Grown, SameEntries, JsonFields
  <2>2. QED
    BY <1>3, <2>1 DEF Grown, SameEntries
<1>9. SameEntries(s, [s EXCEPT !.collecting = Native!WantValue(s), !.val = Native!NoText])
  BY DEF SameEntries, JsonFields
<1>10. SameEntries(s, [d EXCEPT !.readingKey = TRUE])
  BY <1>1 DEF SameEntries, JsonFields
<1>11. \A t : SameEntries(s, t) => Grown(s, t)
  BY DEF SameEntries, Grown
<1>12. QED
  BY <1>3, <1>4, <1>5, <1>6, <1>7, <1>8, <1>9, <1>10, <1>11

\* x is the beginning of y.
Leads(x, y) == /\ Native!IsSeq(x) /\ Native!IsSeq(y) /\ Len(x) <= Len(y)
               /\ \A i \in 1 .. Len(x) : x[i] = y[i]

\* A token leaves the beginning as it is.
LEMMA LeadsOn ==
  ASSUME NEW s, NEW t, Native!IsSeq(s.list), Grown(s, t)
  PROVE  Leads(s.list, t.list)
<1>1. PICK f : f = s.list
  OBVIOUS
<1>2. Len(f) \in Nat /\ Native!IsSeq(f)
  BY <1>1, AppendSeq
<1>3. CASE t.list = s.list
  BY <1>1, <1>2, <1>3 DEF Leads
<1>4. CASE \E e : t.list = Append(s.list, e)
  <2>1. PICK e : t.list = Append(f, e)
    BY <1>1, <1>4
  <2>2. /\ Native!IsSeq(Append(f, e)) /\ Len(Append(f, e)) = Len(f) + 1
        /\ \A i \in 1 .. Len(f) : Append(f, e)[i] = f[i]
    BY <1>2, AppendSeq
  <2>3. QED
    BY <1>1, <1>2, <2>1, <2>2 DEF Leads
<1>5. QED
  BY <1>3, <1>4 DEF Grown

\* The beginning of a beginning.
LEMMA LeadsFar ==
  ASSUME NEW x, NEW y, NEW z, Leads(x, y), Leads(y, z)
  PROVE  Leads(x, z)
<1>1. Len(x) \in Nat /\ Len(y) \in Nat /\ Len(z) \in Nat
  BY AppendSeq DEF Leads
<1>2. \A i \in 1 .. Len(x) : i \in 1 .. Len(y)
  BY <1>1 DEF Leads
<1>3. QED
  BY <1>1, <1>2 DEF Leads

\* Whatever is still to be fed, what is in the list stays there.
LEMMA RunsGrow ==
  ASSUME NEW s, DOMAIN s = JsonFields, Native!IsSeq(s.list),
         NEW xs \in Seq(Tokens), NEW t, Runs("native", s, xs, t)
  PROVE  DOMAIN t = JsonFields /\ Leads(s.list, t.list)
<1>1. PICK h : /\ h[0] = s /\ h[Len(xs)] = t
               /\ \A i \in 1 .. Len(xs) : h[i] = After("native", h[i - 1], xs[i])
  BY DEF Runs
<1>2. PICK N \in Nat : N = Len(xs)
  OBVIOUS
<1> DEFINE P(n) == n <= N => DOMAIN h[n] = JsonFields /\ Leads(s.list, h[n].list)
           T == {n \in Nat : P(n)}
<1>3. 0 \in T
  <2>1. Len(s.list) \in Nat
    BY AppendSeq
  <2>2. QED
    BY <1>1, <2>1 DEF Leads
<1>4. ASSUME NEW n \in T PROVE n + 1 \in T
  <2>1. n \in Nat /\ n + 1 \in Nat
    OBVIOUS
  <2>2. CASE n + 1 <= N
    <3>1. DOMAIN h[n] = JsonFields /\ Leads(s.list, h[n].list)
      BY <1>2, <2>1, <2>2
    <3>2. PICK j \in 1 .. Len(xs) : j = n + 1 /\ j - 1 = n
      BY <1>2, <2>1, <2>2
    <3>3. h[j] = After("native", h[j - 1], xs[j])
      BY <1>1
    <3>4. PICK q : q = h[n]
      OBVIOUS
    <3>5. PICK c : c = xs[j]
      OBVIOUS
    <3>6. h[n + 1] = TokenDone(q, c)
      BY <3>2, <3>3, <3>4, <3>5 DEF After
    <3>7. Grown(q, TokenDone(q, c))
      BY <3>1, <3>4, TokenGrows
    <3>8. Native!IsSeq(q.list)
      BY <3>1, <3>4 DEF Leads
    <3>9. PICK u : u = TokenDone(q, c)
      OBVIOUS
    <3>10. Leads(q.list, u.list) /\ DOMAIN u = JsonFields
      BY <3>7, <3>8, <3>9, LeadsOn DEF Grown
    <3>11. Leads(s.list, u.list)
      BY <3>1, <3>4, <3>10, LeadsFar
    <3>12. QED
      BY <2>1, <3>6, <3>9, <3>10, <3>11
  <2>3. CASE ~(n + 1 <= N)
    BY <2>1, <2>3
  <2>4. QED
    BY <2>2, <2>3
<1>5. T \subseteq Nat
  OBVIOUS
<1> HIDE DEF T
<1>6. T = Nat
  BY <1>3, <1>4, <1>5, Induction
<1>7. N \in T
  BY <1>6
<1>8. P(N)
  BY <1>7 DEF T
<1>9. QED
  BY <1>1, <1>2, <1>8

(***************************************************************************)
(* At every moment the list is the beginning of the one that is expected.  *)
(***************************************************************************)

\* The tokens that are left lead to the whole list.
Arrives(s, xs, list) ==
  \E t : Runs("native", s, xs, t) /\ Native!DoneIfCollecting(t).list = list

ListLeads ==
  /\ answer \in Inputs /\ tokens \in Seq(Tokens)
  /\ DOMAIN json = JsonFields /\ Leads(json.list, Native!NativeList(answer))
  /\ ~ended => Arrives(json, tokens, Native!NativeList(answer))
  /\ ended /\ tokens = <<>> => json.list = Native!NativeList(answer)

\* What is left leads to no other list.
LEMMA Arriving ==
  ASSUME NEW s, DOMAIN s = JsonFields, Native!IsSeq(s.list), NEW xs \in Seq(Tokens), NEW l,
         Arrives(s, xs, l)
  PROVE  Leads(s.list, l) /\ (xs = <<>> => Native!DoneIfCollecting(s).list = l)
<1>1. PICK t : Runs("native", s, xs, t) /\ Native!DoneIfCollecting(t).list = l
  BY DEF Arrives
<1>2. DOMAIN t = JsonFields /\ Leads(s.list, t.list)
  BY <1>1, RunsGrow
<1>3. t.list = l
  BY <1>1, <1>2, ValuesKeep DEF SameEntries
<1>4. xs = <<>> => t = s
  BY <1>1, RunsNone
<1>5. QED
  BY <1>1, <1>2, <1>3, <1>4

\* The invariant holds at the start.
LEMMA ListLeadsInit ==
  ASSUME Native!Init
  PROVE  ListLeads
<1>1. /\ answer \in Inputs /\ tokens = Native!Json(answer) /\ json = Native!GfJsonInit
      /\ ended = FALSE
  BY DEF Native!Init
<1>2. PICK a \in Inputs : a = answer
  BY <1>1
<1>3. Steps("any", Outside(<<>>), Native!Json(a), Outside(Native!NativeList(a)))
  BY AnswerRead
<1>4. PICK v : v = Outside(<<>>)
  OBVIOUS
<1>5. PICK w : w = Outside(Native!NativeList(a))
  OBVIOUS
<1>6. PICK s : s = json
  OBVIOUS
<1>7. Steps("any", v, tokens, w) /\ Agrees(s, v)
  BY <1>1, <1>2, <1>3, <1>4, <1>5, <1>6, StartAgrees
<1>8. tokens \in Seq(Tokens) /\ Reads(s, tokens, w)
  BY <1>7 DEF Steps, Ready
<1>9. w.list = Native!NativeList(a)
  BY <1>5, ListOnlyIs DEF ListOnly
<1>10. Arrives(s, tokens, Native!NativeList(a))
  <2>1. PICK u : Runs("native", s, tokens, u) /\ Agrees(Native!DoneIfCollecting(u), w)
    BY <1>8 DEF Reads
  <2>2. Native!DoneIfCollecting(u).list = w.list
    BY <2>1 DEF Agrees
  <2>3. QED
    BY <1>9, <2>1, <2>2 DEF Arrives
<1>11. DOMAIN s = JsonFields /\ Native!IsSeq(s.list)
  <2>1. s.list = <<>> /\ DOMAIN s = JsonFields
    BY <1>1, <1>6 DEF Native!GfJsonInit, JsonFields
  <2>2. QED
    BY <2>1, NoFiles
<1>12. Leads(s.list, Native!NativeList(a))
  BY <1>8, <1>10, <1>11, Arriving
<1>13. QED
  BY <1>1, <1>2, <1>6, <1>8, <1>10, <1>11, <1>12 DEF ListLeads

\* Every step of the native backend keeps it.
LEMMA ListLeadsStep ==
  ASSUME ListLeads, Native!Next
  PROVE  ListLeads'
<1> DEFINE l == Native!NativeList(answer)
<1>1. /\ answer \in Inputs /\ tokens \in Seq(Tokens) /\ DOMAIN json = JsonFields
      /\ Leads(json.list, l) /\ Native!IsSeq(json.list)
  BY DEF ListLeads, Leads
<1>2. CASE Native!FeedToken
  <2>1. /\ ~ended /\ tokens # <<>> /\ Native!GfJsonFeed(Head(tokens)) /\ tokens' = Tail(tokens)
        /\ answer' = answer /\ ended' = ended
    BY <1>2 DEF Native!FeedToken
  <2>2. PICK c \in Tokens : c = Head(tokens)
    BY <1>1, <2>1
  <2>3. json' = TokenDone(json, c)
    <3>1. Native!GfJsonFeed(c)
      BY <2>1, <2>2
    <3>2. QED
      BY <3>1 DEF Native!GfJsonFeed, TokenDone
  <2>4. PICK t : Runs("native", json, tokens, t) /\ Native!DoneIfCollecting(t).list = l
    BY <2>1 DEF ListLeads, Arrives
  <2>5. Runs("native", After("native", json, Head(tokens)), Tail(tokens), t)
    BY <1>1, <2>1, <2>4, RunsRest
  <2>6. After("native", json, Head(tokens)) = json'
    BY <2>2, <2>3 DEF After
  <2>7. tokens' \in Seq(Tokens)
    BY <1>1, <2>1
  <2>8. Arrives(json', tokens', l)
    BY <2>1, <2>4, <2>5, <2>6 DEF Arrives
  <2>9. Grown(json, json')
    BY <1>1, <2>3, TokenGrows
  <2>10. DOMAIN json' = JsonFields /\ Native!IsSeq(json'.list)
    BY <1>1, <2>9, LeadsOn DEF Grown, Leads
  <2>11. Leads(json'.list, l)
    BY <2>7, <2>8, <2>10, Arriving
  <2>12. Native!NativeList(answer)' = l
    BY <2>1
  <2> HIDE DEF l
  <2>13. QED
    BY <1>1, <2>1, <2>7, <2>8, <2>10, <2>11, <2>12 DEF ListLeads
<1>3. CASE Native!GfJsonFinish
  <2>1. /\ ~ended /\ json' = Native!DoneIfCollecting(json) /\ ended' = TRUE
        /\ answer' = answer /\ tokens' = tokens
    BY <1>3 DEF Native!GfJsonFinish
  <2>2. SameEntries(json, json')
    BY <1>1, <2>1, ValuesKeep
  <2>3. Arrives(json, tokens, l)
    BY <2>1 DEF ListLeads
  <2>4. tokens = <<>> => json'.list = l
    BY <1>1, <2>1, <2>3, Arriving
  <2>5. Native!NativeList(answer)' = l
    BY <2>1
  <2> HIDE DEF l
  <2>6. QED
    BY <1>1, <2>1, <2>2, <2>4, <2>5 DEF ListLeads, SameEntries
<1>4. CASE Native!Stopped
  BY <1>4 DEF Native!Stopped, Native!vars, ListLeads
<1>5. QED
  BY <1>2, <1>3, <1>4 DEF Native!Next

\* What leads to a list is the beginning that ListIsPrefix speaks of.
LEMMA LeadsIsPrefix ==
  ASSUME NEW x, NEW y, Leads(x, y)
  PROVE  Len(x) <= Len(y) /\ x = SubSeq(y, 1, Len(x))
<1> DEFINE S == ToSet(x) \cup ToSet(y)
<1>1. x \in Seq(ToSet(x)) /\ y \in Seq(ToSet(y))
  BY DEF Leads, Native!IsSeq, Native!ToSet, ToSet
<1>2. ToSet(x) \subseteq S /\ ToSet(y) \subseteq S
  OBVIOUS
<1> HIDE DEF S
<1>3. x \in Seq(S) /\ y \in Seq(S)
  BY <1>1, <1>2, SeqMonotonic
<1>4. PICK n \in Nat : n = Len(x)
  BY <1>3
<1>5. n <= Len(y) /\ \A i \in 1 .. n : x[i] = y[i]
  BY <1>4 DEF Leads
<1>6. SubSeq(y, 1, n) \in Seq(S) /\ Len(SubSeq(y, 1, n)) = n
      /\ \A i \in 1 .. n : SubSeq(y, 1, n)[i] = y[i]
  BY <1>3, <1>5
<1>7. x = SubSeq(y, 1, n)
  BY <1>3, <1>4, <1>5, <1>6, SameSeq
<1>8. QED
  BY <1>4, <1>5, <1>7

\* At every moment the list of the native backend is the beginning of the list
\* GitHub's answer stands for, and all of it when the answer came whole: the list
\* of json_reference.py but for the date, which is that of creation, and a name
\* that is null, which is shown as the word.
THEOREM PrefixOfExpected == Spec => []ListIsPrefix
<1> DEFINE Inv == backend = "native" => ListLeads
<1>1. Init => Inv
  BY ListLeadsInit DEF Init
<1>2. Inv /\ [Next]_vars => Inv'
  <2>1. SUFFICES ASSUME Inv, [Next]_vars, backend' = "native" PROVE ListLeads'
    OBVIOUS
  <2>2. CASE Next
    <3>1. CASE backend = "native" /\ Native!Next /\ UNCHANGED <<backend, proxyVars>>
      BY <2>1, <3>1, ListLeadsStep
    <3>2. CASE backend = "proxy" /\ Proxy!Next /\ UNCHANGED <<backend, nativeVars>>
      BY <2>1, <3>2
    <3>3. QED
      BY <2>2, <3>1, <3>2 DEF Next
  <2>3. CASE UNCHANGED vars
    BY <2>1, <2>3 DEF vars, nativeVars, ListLeads
  <2>4. QED
    BY <2>1, <2>2, <2>3
<1>3. Inv => ListIsPrefix
  <2>1. SUFFICES ASSUME ListLeads
        PROVE  Native!ListIsPrefix /\ Native!WholeAnswerWholeList
    BY DEF ListIsPrefix
  <2>2. Leads(json.list, Native!NativeList(answer))
    BY <2>1 DEF ListLeads
  <2>3. /\ Len(json.list) <= Len(Native!NativeList(answer))
        /\ json.list = SubSeq(Native!NativeList(answer), 1, Len(json.list))
    BY <2>2, LeadsIsPrefix
  <2>4. ended /\ tokens = <<>> => json.list = Native!NativeList(answer)
    BY <2>1 DEF ListLeads
  <2>5. QED
    BY <2>3, <2>4 DEF Native!ListIsPrefix, Native!WholeAnswerWholeList
<1>4. QED
  BY <1>1, <1>2, <1>3, PTL DEF Spec
=============================================================================
