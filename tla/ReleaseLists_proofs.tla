------------------------ MODULE ReleaseLists_proofs ------------------------
(***************************************************************************)
(* Three invariants of ReleaseLists: json.c stays within the arrays of the *)
(* list, what the user is told of an error is what the proxy said, and the *)
(* proxy's select_assets keeps the files protocol.md asks for.  At the end, *)
(* what the lines of a whole list make of the list of the proxy backend.   *)
(* The assumptions are those of ReleaseLists.                              *)
(***************************************************************************)
EXTENDS ReleaseLists, SequenceTheorems, FiniteSetTheorems, WellFoundedInduction, TLAPS

(***************************************************************************)
(* Induction over the naturals, for sets, and what it gives: functions that *)
(* are defined by recursion.                                               *)
(***************************************************************************)

\* A set of naturals that is not empty has a least member.
LEMMA Least == ASSUME NEW T, T \subseteq Nat, T # {}
  PROVE \E x \in T : \A y \in T : x <= y
<1>1. IsWellFoundedOn(OpToRel(<,Nat),Nat)
  BY NatLessThanWellFounded
<1>2. PICK x \in T : \A y \in T : ~(<<y,x>> \in OpToRel(<,Nat))
  BY <1>1, WFMin
<1>3. \A y \in T : ~(y < x)
  BY <1>2 DEF OpToRel
<1>4. \A y \in T : x <= y
  <2> TAKE y \in T
  <2>1. x \in Nat /\ y \in Nat /\ ~(y < x)
    BY <1>3
  <2>2. QED
    BY <2>1
<1>5. QED BY <1>4

\* A set of naturals up to n that is not empty has a greatest member.
LEMMA Greatest ==
  ASSUME NEW n \in Nat, NEW T, T \subseteq 1 .. n, T # {}
  PROVE  \E x \in T : \A y \in T : y <= x
<1> DEFINE U == {n - x : x \in T}
<1>1. U \subseteq Nat /\ U # {}
  <2>1. \A x \in T : n - x \in Nat
    OBVIOUS
  <2>2. PICK x : x \in T
    OBVIOUS
  <2>3. n - x \in U
    BY <2>2
  <2>4. QED
    BY <2>1, <2>3
<1>2. PICK u \in U : \A v \in U : u <= v
  <2> HIDE DEF U
  <2>1. QED
    BY <1>1, Least
<1>3. PICK x \in T : u = n - x
  OBVIOUS
<1>4. ASSUME NEW y \in T PROVE y <= x
  <2>1. n - x <= n - y
    BY <1>2, <1>3
  <2>2. x \in Nat /\ y \in Nat
    OBVIOUS
  <2>3. QED
    BY <2>1, <2>2
<1>5. QED
  BY <1>4

\* Induction for a set of naturals.
LEMMA Induction ==
  ASSUME NEW T, T \subseteq Nat, 0 \in T, \A n \in T : n + 1 \in T
  PROVE  T = Nat
<1>1. SUFFICES ASSUME Nat \ T # {} PROVE FALSE
  OBVIOUS
<1>2. PICK n \in Nat \ T : \A y \in Nat \ T : n <= y
  BY <1>1, Least
<1>3. n # 0 /\ n \in Nat
  OBVIOUS
<1>4. n - 1 \in Nat /\ ~(n <= n - 1)
  BY <1>3
<1>5. n - 1 \in T
  BY <1>2, <1>4
<1>6. n - 1 + 1 = n
  BY <1>3
<1>7. QED BY <1>5, <1>6, <1>2

\* A function on 0 .. n that starts with base and goes on by step.
Follows(f, base, step, n) == f[0] = base /\ \A i \in 1 .. n : f[i] = step[i][f[i - 1]]

\* Such a function goes on for one more step.
LEMMA FollowsOn ==
  ASSUME NEW G, NEW base, NEW N \in Nat, NEW step \in [1 .. N -> [G -> G]],
         NEW n \in Nat, n + 1 <= N, NEW f \in [0 .. n -> G], Follows(f, base, step, n)
  PROVE  \E g \in [0 .. n + 1 -> G] : Follows(g, base, step, n + 1)
<1> DEFINE e == step[n + 1][f[n]]
           g == [i \in 0 .. n + 1 |-> IF i = n + 1 THEN e ELSE f[i]]
<1>1. e \in G
  <2>1. n + 1 \in 1 .. N /\ f[n] \in G
    OBVIOUS
  <2>2. step[n + 1] \in [G -> G]
    BY <2>1
  <2>3. QED
    BY <2>1, <2>2
<1> HIDE DEF e
<1>2. g \in [0 .. n + 1 -> G] /\ g[n + 1] = e /\ \A i \in 0 .. n : g[i] = f[i]
  <2>1. \A i \in 0 .. n + 1 : i # n + 1 => i \in 0 .. n
    OBVIOUS
  <2>2. \A i \in 0 .. n : i \in 0 .. n + 1 /\ i # n + 1
    OBVIOUS
  <2>3. QED
    BY <1>1, <2>1, <2>2
<1> HIDE DEF g
<1>3. ASSUME NEW i \in 1 .. n + 1 PROVE g[i] = step[i][g[i - 1]]
  <2>1. CASE i = n + 1
    <3>1. i - 1 = n /\ n \in 0 .. n
      BY <2>1
    <3>2. g[i] = e /\ g[i - 1] = f[n]
      BY <1>2, <2>1, <3>1
    <3>3. QED
      BY <2>1, <3>2 DEF e
  <2>2. CASE i # n + 1
    <3>1. i \in 1 .. n /\ i \in 0 .. n /\ i - 1 \in 0 .. n
      BY <2>2
    <3>2. f[i] = step[i][f[i - 1]]
      BY <3>1 DEF Follows
    <3>3. QED
      BY <1>2, <3>1, <3>2
  <2>3. QED
    BY <2>1, <2>2
<1>4. g[0] = base
  <2>1. 0 \in 0 .. n
    OBVIOUS
  <2>2. QED
    BY <1>2, <2>1 DEF Follows
<1>5. QED
  BY <1>2, <1>3, <1>4 DEF Follows

\* Such a function exists, when every step stays in G.
LEMMA Recursion ==
  ASSUME NEW G, NEW base \in G, NEW N \in Nat, NEW step \in [1 .. N -> [G -> G]]
  PROVE  \E f \in [0 .. N -> G] : Follows(f, base, step, N)
<1> DEFINE P(n) == n <= N => \E f \in [0 .. n -> G] : Follows(f, base, step, n)
           T == {n \in Nat : P(n)}
<1>1. 0 \in T
  <2> DEFINE f == [i \in 0 .. 0 |-> base]
  <2>1. f \in [0 .. 0 -> G] /\ f[0] = base
    OBVIOUS
  <2> HIDE DEF f
  <2>2. Follows(f, base, step, 0)
    BY <2>1 DEF Follows
  <2>3. QED
    BY <2>1, <2>2
<1>2. ASSUME NEW n \in T PROVE n + 1 \in T
  <2>1. ASSUME n + 1 <= N PROVE \E g \in [0 .. n + 1 -> G] : Follows(g, base, step, n + 1)
    <3>1. n \in Nat /\ n <= N
      BY <2>1
    <3>2. PICK f \in [0 .. n -> G] : Follows(f, base, step, n)
      BY <3>1
    <3>3. QED
      BY <2>1, <3>1, <3>2, FollowsOn
  <2>2. QED
    BY <2>1
<1> HIDE DEF P
<1>3. T = Nat
  <2> HIDE DEF T
  <2>1. T \subseteq Nat
    BY DEF T
  <2>2. QED
    BY <1>1, <1>2, <2>1, Induction
<1>4. P(N)
  BY <1>3
<1>5. QED
  BY <1>4 DEF P

(***************************************************************************)
(* Sequences.                                                              *)
(***************************************************************************)

\* A sequence over any set is one over its own members.
LEMMA InSeq ==
  ASSUME NEW S, NEW f \in Seq(S)
  PROVE  Native!IsSeq(f)
<1>1. \A i \in 1 .. Len(f) : f[i] \in ToSet(f)
  BY DEF ToSet
<1>2. Len(f) \in Nat /\ f = [i \in 1 .. Len(f) |-> f[i]]
  OBVIOUS
<1>3. f \in Seq(ToSet(f))
  BY <1>1, <1>2
<1>4. QED
  BY <1>3 DEF Native!IsSeq, ToSet, Native!ToSet

\* One more member at the end.
LEMMA AppendSeq ==
  ASSUME NEW f, Native!IsSeq(f), NEW e
  PROVE  /\ Native!IsSeq(Append(f, e)) /\ Len(Append(f, e)) = Len(f) + 1
         /\ \A i \in 1 .. Len(f) : Append(f, e)[i] = f[i]
         /\ Append(f, e)[Len(f) + 1] = e
         /\ Len(f) \in Nat
<1> DEFINE S == ToSet(f) \cup {e}
<1>1. f \in Seq(S)
  BY SeqMonotonic DEF Native!IsSeq, ToSet, Native!ToSet
<1>2. \A i \in 1 .. Len(f) : f[i] \in ToSet(f)
  BY DEF ToSet, Native!IsSeq, Native!ToSet
<1> HIDE DEF S
<1>3. e \in S
  BY DEF S
<1>4. /\ Append(f, e) \in Seq(S) /\ Len(Append(f, e)) = Len(f) + 1 /\ Len(f) \in Nat
      /\ \A i \in 1 .. Len(f) : Append(f, e)[i] = f[i]
      /\ Append(f, e)[Len(f) + 1] = e
  BY <1>1, <1>3
<1>5. Append(f, e) \in Seq(ToSet(Append(f, e)))
  <2>1. \A i \in 1 .. Len(Append(f, e)) : Append(f, e)[i] \in ToSet(Append(f, e))
    BY <1>4 DEF ToSet
  <2>2. QED
    BY <1>4, <2>1
<1>6. QED
  BY <1>4, <1>5 DEF Native!IsSeq, ToSet, Native!ToSet

\* One member fewer, and no other.
LEMMA Removed ==
  ASSUME NEW S, NEW f \in Seq(S), NEW i \in 1 .. Len(f)
  PROVE  Native!RemoveAt(f, i) \in Seq(S) /\ Len(Native!RemoveAt(f, i)) = Len(f) - 1
<1> DEFINE g == SubSeq(f, 1, i - 1)
           h == SubSeq(f, i + 1, Len(f))
<1>1. g \in Seq(S) /\ Len(g) = i - 1
  <2>1. \A k \in 1 .. i - 1 : f[k] \in S
    OBVIOUS
  <2>2. i - 1 \in 0 .. Len(f)
    OBVIOUS
  <2>3. QED
    BY <2>1, <2>2
<1>2. h \in Seq(S) /\ Len(h) = Len(f) - i
  OBVIOUS
<1>3. Native!RemoveAt(f, i) = g \o h
  BY DEF Native!RemoveAt
<1> HIDE DEF g, h
<1>4. g \o h \in Seq(S) /\ Len(g \o h) = Len(g) + Len(h)
  BY <1>1, <1>2
<1>5. Len(f) \in Nat /\ i \in Int
  OBVIOUS
<1>6. QED
  BY <1>1, <1>2, <1>3, <1>4, <1>5

\* What is true of every part and kept by \o is true of the whole.
LEMMA Flattened ==
  ASSUME NEW G, \A s, t \in G : s \o t \in G, NEW seqs \in Seq(G), seqs # <<>>
  PROVE  FlattenSeq(seqs) \in G
<1> DEFINE N     == Len(seqs)
           Of(f) == f = [i \in 1 .. N |-> IF i = 1 THEN seqs[i] ELSE f[i - 1] \o seqs[i]]
           step  == [i \in 1 .. N - 1 |-> [s \in G |-> s \o seqs[i + 1]]]
           c     == CHOOSE f : Of(f)
           T     == {n \in Nat : n + 1 <= N => c[n + 1] \in G}
<1>1. /\ N \in Nat \ {0} /\ N - 1 \in Nat /\ \A i \in 1 .. N : seqs[i] \in G
      /\ \A i \in 1 .. N - 1 : i + 1 \in 1 .. N
  OBVIOUS
<1>2. step \in [1 .. N - 1 -> [G -> G]]
  <2> HIDE DEF N
  <2>1. QED
    BY <1>1
<1>3. \E f : Of(f)
  <2>1. PICK h \in [0 .. N - 1 -> G] : Follows(h, seqs[1], step, N - 1)
    <3> HIDE DEF step, N
    <3>1. seqs[1] \in G
      BY <1>1
    <3>2. QED
      BY <1>1, <1>2, <3>1, Recursion
  <2> DEFINE f == [i \in 1 .. N |-> h[i - 1]]
  <2> HIDE DEF N
  <2>2. ASSUME NEW i \in 1 .. N PROVE f[i] = IF i = 1 THEN seqs[i] ELSE f[i - 1] \o seqs[i]
    <3>1. CASE i = 1
      BY <2>1, <3>1 DEF Follows
    <3>2. CASE i # 1
      <4>1. i - 1 \in 1 .. N - 1 /\ i - 1 \in 1 .. N /\ i - 1 - 1 \in 0 .. N - 1 /\ i - 1 + 1 = i
        BY <1>1, <3>2
      <4>2. h[i - 1] = step[i - 1][h[i - 1 - 1]] /\ h[i - 1 - 1] \in G
        BY <2>1, <4>1 DEF Follows
      <4>3. step[i - 1][h[i - 1 - 1]] = h[i - 1 - 1] \o seqs[i]
        BY <4>1, <4>2
      <4>4. QED
        BY <3>2, <4>1, <4>2, <4>3
    <3>3. QED
      BY <3>1, <3>2
  <2>3. f = [i \in 1 .. N |-> f[i]]
    OBVIOUS
  <2> HIDE DEF f
  <2>4. QED
    BY <2>2, <2>3, Zenon
<1>4. Of(c)
  <2> HIDE DEF Of
  <2>1. QED
    BY <1>3, Zenon
<1> HIDE DEF c, N, step
<1>5. 0 \in T
  <2>1. 1 \in 1 .. N
    BY <1>1
  <2>2. c[1] = seqs[1]
    BY <1>4, <2>1
  <2>3. QED
    BY <1>1, <2>1, <2>2
<1>6. ASSUME NEW n \in T PROVE n + 1 \in T
  <2>1. n \in Nat
    OBVIOUS
  <2>2. ASSUME n + 1 + 1 <= N PROVE c[n + 1 + 1] \in G
    <3>1. PICK m \in 1 .. N : m = n + 1 + 1
      BY <1>1, <2>1, <2>2
    <3>2. m # 1 /\ m - 1 = n + 1 /\ n + 1 <= N
      BY <1>1, <2>1, <2>2, <3>1
    <3>3. c[n + 1] \in G /\ seqs[m] \in G
      BY <1>1, <3>2
    <3>4. c[m] = c[m - 1] \o seqs[m]
      BY <1>4, <3>2
    <3>5. QED
      BY <3>1, <3>2, <3>3, <3>4
  <2>3. QED
    BY <2>1, <2>2
<1>7. T = Nat
  <2>1. T \subseteq Nat
    OBVIOUS
  <2> HIDE DEF T
  <2>2. QED
    BY <1>5, <1>6, <2>1, Induction
<1>8. c[N] \in G
  <2>1. N - 1 + 1 = N /\ N <= N
    BY <1>1
  <2>2. N - 1 \in T
    <3> HIDE DEF T
    <3>1. QED
      BY <1>1, <1>7
  <2>3. QED
    BY <2>1, <2>2
<1>9. FlattenSeq(seqs) = c[N]
  BY <1>1, Zenon DEF FlattenSeq, c, N
<1>10. QED
  BY <1>8, <1>9

\* The copy of FlattenSeq in JsonParser is the same function.
LEMMA NativeFlattenSeq == ASSUME NEW seqs PROVE Native!FlattenSeq(seqs) = FlattenSeq(seqs)
BY DEF FlattenSeq, Native!FlattenSeq

(***************************************************************************)
(* The choice of files: as many as fit, of those that were offered.        *)
(***************************************************************************)

\* gf_asset_offer keeps files of S, as many as there were.
LEMMA Offer ==
  ASSUME NEW S, NEW files \in Seq(S), NEW a \in S
  PROVE  /\ Native!GfAssetOffer(files, a) \in Seq(S)
         /\ Len(Native!GfAssetOffer(files, a)) = Len(files)
<1> DEFINE lower == Native!Lower(files, Native!Rank(a.name))
           last  == CHOOSE i \in lower : \A j \in lower : j <= i
           rest  == Native!RemoveAt(files, last)
<1>1. lower \subseteq 1 .. Len(files) /\ Len(files) \in Nat
  BY DEF Native!Lower
<1> HIDE DEF lower
<1>2. CASE lower = {}
  BY <1>2 DEF Native!GfAssetOffer, lower
<1>3. CASE lower # {}
  <2>1. last \in lower
    <3>1. \E i \in lower : \A j \in lower : j <= i
      BY <1>1, <1>3, Greatest
    <3>2. QED
      BY <3>1
  <2>2. last \in 1 .. Len(files)
    BY <1>1, <2>1
  <2>3. Native!GfAssetOffer(files, a) = Append(rest, a)
    BY <1>3 DEF Native!GfAssetOffer, lower
  <2> HIDE DEF last
  <2>4. rest \in Seq(S) /\ Len(rest) = Len(files) - 1
    BY <2>2, Removed
  <2> HIDE DEF rest
  <2>5. QED
    BY <1>1, <2>3, <2>4
<1>4. QED
  BY <1>2, <1>3

\* A file that is pushed out makes room for exactly one.
LEMMA Offered ==
  ASSUME NEW files, Native!IsSeq(files), NEW a
  PROVE  /\ Native!IsSeq(Native!GfAssetOffer(files, a))
         /\ Len(Native!GfAssetOffer(files, a)) = Len(files)
<1> DEFINE S == Native!ToSet(files) \cup {a}
<1>1. files \in Seq(S) /\ a \in S
  BY SeqMonotonic DEF Native!IsSeq
<1> HIDE DEF S
<1>2. QED
  BY <1>1, Offer, InSeq

\* What select_assets keeps of files of S.
Accepted(S) == {acc \in [kept : Seq(S), skipped : Nat] : Len(acc.kept) <= MaxAssets}

\* Both backends push files out in the same way (files.c).
LEMMA ProxyOffer ==
  ASSUME NEW f, NEW a
  PROVE  Proxy!GfAssetOffer(f, a) = Native!GfAssetOffer(f, a)
BY DEF Proxy!GfAssetOffer, Native!GfAssetOffer, Proxy!Lower, Native!Lower, Proxy!Rank,
   Native!Rank, Proxy!RemoveAt, Native!RemoveAt

\* select_assets takes a file, or pushes one out for it.
LEMMA Taken ==
  ASSUME NEW S, NEW acc \in Accepted(S), NEW a \in S
  PROVE  Proxy!Take(acc, a) \in Accepted(S)
<1>1. /\ acc.kept \in Seq(S) /\ acc.skipped \in Nat /\ Len(acc.kept) <= MaxAssets
      /\ Len(acc.kept) \in Nat
  BY DEF Accepted
<1>2. CASE Len(acc.kept) < MaxAssets
  <2>1. Append(acc.kept, a) \in Seq(S) /\ Len(Append(acc.kept, a)) = Len(acc.kept) + 1
    BY <1>1
  <2>2. Len(acc.kept) + 1 <= MaxAssets
    BY <1>1, <1>2, ChoiceAssumption
  <2>3. Proxy!Take(acc, a) = [kept |-> Append(acc.kept, a), skipped |-> acc.skipped]
    BY <1>2 DEF Proxy!Take
  <2>4. QED
    BY <1>1, <2>1, <2>2, <2>3 DEF Accepted
<1>3. CASE ~(Len(acc.kept) < MaxAssets)
  <2> DEFINE k == Native!GfAssetOffer(acc.kept, a)
  <2>1. k \in Seq(S) /\ Len(k) = Len(acc.kept)
    BY <1>1, Offer
  <2> HIDE DEF k
  <2>2. Proxy!Take(acc, a) = [kept |-> k, skipped |-> acc.skipped + 1]
    BY <1>3, ProxyOffer DEF Proxy!Take, k
  <2>3. QED
    BY <1>1, <2>1, <2>2 DEF Accepted
<1>4. QED
  BY <1>2, <1>3

\* select_assets takes the files one after the other.
LEMMA Selecting ==
  ASSUME NEW S, NEW items \in Seq(S)
  PROVE  \E c \in [0 .. Len(items) -> Accepted(S)] :
           /\ c[0] = [kept |-> <<>>, skipped |-> 0]
           /\ \A n \in 1 .. Len(items) : c[n] = Proxy!Take(c[n - 1], items[n])
           /\ Proxy!SelectAssets(items) = c[Len(items)]
<1> DEFINE N    == Len(items)
           G    == Accepted(S)
           base == [kept |-> <<>>, skipped |-> 0]
           Of(f) == f = [n \in 0 .. N |-> IF n = 0 THEN base ELSE Proxy!Take(f[n - 1], items[n])]
           step == [n \in 1 .. N |-> [acc \in G |-> Proxy!Take(acc, items[n])]]
           c    == CHOOSE f : Of(f)
           T    == {n \in Nat : n <= N => c[n] \in G}
<1>1. N \in Nat /\ \A n \in 1 .. N : items[n] \in S
  OBVIOUS
<1>2. base \in G
  BY ChoiceAssumption DEF Accepted
<1>3. step \in [1 .. N -> [G -> G]]
  <2>1. \A n \in 1 .. N : \A acc \in G : Proxy!Take(acc, items[n]) \in G
    BY <1>1, Taken
  <2> HIDE DEF G
  <2>2. QED
    BY <2>1
<1> HIDE DEF base, N
<1>4. \E f : Of(f)
  <2>1. PICK f \in [0 .. N -> G] : Follows(f, base, step, N)
    <3> HIDE DEF step, G
    <3>1. QED
      BY <1>1, <1>2, <1>3, Recursion
  <2>2. ASSUME NEW n \in 0 .. N
        PROVE  f[n] = IF n = 0 THEN base ELSE Proxy!Take(f[n - 1], items[n])
    <3>1. CASE n = 0
      BY <2>1, <3>1 DEF Follows
    <3>2. CASE n # 0
      <4>1. n \in 1 .. N /\ n - 1 \in 0 .. N
        BY <1>1, <3>2
      <4>2. f[n] = step[n][f[n - 1]] /\ f[n - 1] \in G
        BY <2>1, <4>1 DEF Follows
      <4> HIDE DEF G
      <4>3. QED
        BY <3>2, <4>1, <4>2
    <3>3. QED
      BY <3>1, <3>2
  <2>3. f = [n \in 0 .. N |-> f[n]]
    BY <2>1
  <2>4. QED
    BY <2>2, <2>3, Zenon
<1>5. Of(c)
  <2> HIDE DEF Of
  <2>1. QED
    BY <1>4, Zenon
<1> HIDE DEF c, G, step
<1>6. 0 \in T
  BY <1>1, <1>2, <1>5
<1>7. ASSUME NEW n \in T PROVE n + 1 \in T
  <2>1. n \in Nat
    OBVIOUS
  <2>2. ASSUME n + 1 <= N PROVE c[n + 1] \in G
    <3>1. n + 1 \in 0 .. N /\ n + 1 \in 1 .. N /\ n + 1 # 0 /\ n + 1 - 1 = n /\ n <= N
      BY <1>1, <2>1, <2>2
    <3>2. c[n] \in G
      BY <3>1
    <3>3. c[n + 1] = Proxy!Take(c[n], items[n + 1])
      BY <1>5, <3>1
    <3>4. items[n + 1] \in S
      BY <1>1, <3>1
    <3>5. QED
      BY <3>2, <3>3, <3>4, Taken DEF G
  <2>3. QED
    BY <2>1, <2>2
<1>8. T = Nat
  <2>1. T \subseteq Nat
    OBVIOUS
  <2> HIDE DEF T
  <2>2. QED
    BY <1>6, <1>7, <2>1, Induction
<1>9. c \in [0 .. N -> G]
  <2>1. \A n \in 0 .. N : n \in Nat /\ n <= N
    BY <1>1
  <2>2. \A n \in 0 .. N : c[n] \in G
    BY <1>8, <2>1
  <2>3. \E h : c = [n \in 0 .. N |-> h[n]]
    <3>1. c = [n \in 0 .. N |-> c[n]]
      BY <1>5
    <3>2. QED
      BY <3>1
  <2>4. QED
    BY <2>2, <2>3
<1>10. Proxy!SelectAssets(items) = c[N]
  BY Zenon DEF Proxy!SelectAssets, c, N, base
<1>11. c[0] = base
  BY <1>1, <1>5
<1>12. \A n \in 1 .. N : c[n] = Proxy!Take(c[n - 1], items[n])
  <2>1. \A n \in 1 .. N : n \in 0 .. N /\ n # 0
    BY <1>1
  <2>2. QED
    BY <1>5, <2>1
<1>13. QED
  BY <1>9, <1>10, <1>11, <1>12 DEF G, N, base

\* select_assets keeps files it was given, and not too many.
LEMMA Selected ==
  ASSUME NEW S, NEW items \in Seq(S)
  PROVE  Proxy!SelectAssets(items) \in Accepted(S)
<1>1. Len(items) \in 0 .. Len(items)
  OBVIOUS
<1>2. QED
  BY <1>1, Selecting

(***************************************************************************)
(* json.c: every operation keeps JsonInv, which says what the fields of    *)
(* struct GFJson mean given what is open.                                  *)
(***************************************************************************)

\* The same but for texts and flags.
Same(s, t) ==
  /\ t.depth = s.depth /\ t.inAssets = s.inAssets /\ t.assetsDepth = s.assetsDepth
  /\ t.list = s.list /\ t.cur.live = s.cur.live /\ t.cur.files = s.cur.files
  /\ t.asset.where = s.asset.where
  /\ DOMAIN t = DOMAIN s /\ DOMAIN t.cur = DOMAIN s.cur /\ DOMAIN t.asset = DOMAIN s.asset

\* JsonInv does not depend on texts and flags.
LEMMA SameInv ==
  ASSUME NEW s, NEW t, NEW open, Same(s, t), Native!JsonInv(s, open)
  PROVE  Native!JsonInv(t, open)
BY DEF Same, Native!JsonInv, Native!Shaped, Native!Placed, Native!ArraysHold

\* The fields of struct GFJson, struct Release and struct Asset.
LEMMA Domains ==
  ASSUME NEW s, Native!Shaped(s)
  PROVE  /\ DOMAIN s = {"depth", "readingKey", "collecting", "key", "lastKey", "val", "inAssets",
                        "assetsDepth", "cur", "asset", "isDraft", "zip", "dropped", "list"}
         /\ DOMAIN s.cur = {"live", "tag", "date", "title", "prerelease", "files", "skipped"}
         /\ DOMAIN s.asset = {"where", "name", "size", "path"}
BY DEF Native!Shaped, Native!GfJsonInit, Native!NewCur, Native!NoAsset, Native!NewAsset

\* Storing a text leaves the places as they are (json.c 128-167).
LEMMA StoreReleaseField ==
  ASSUME NEW s, Native!Shaped(s)
  PROVE  Same(s, Native!StoreReleaseField(s))
BY Domains DEF Same, Native!StoreReleaseField

\* So does storing a text of a file (json.c 169-180).
LEMMA StoreAssetField ==
  ASSUME NEW s, Native!Shaped(s)
  PROVE  Same(s, Native!StoreAssetField(s))
BY Domains DEF Same, Native!StoreAssetField

\* So does the end of a value.
LEMMA ValueDone ==
  ASSUME NEW s, Native!Shaped(s)
  PROVE  Same(s, Native!ValueDone(s))
<1> DEFINE t == IF s.depth = 2 THEN Native!StoreReleaseField(s)
                ELSE IF Native!InAsset(s) THEN Native!StoreAssetField(s) ELSE s
<1>1. Same(s, t)
  BY StoreReleaseField, StoreAssetField DEF Same
<1> HIDE DEF t
<1>2. Same(s, [t EXCEPT !.collecting = FALSE, !.val = Native!NoText, !.key = Native!NoText])
  BY <1>1, Domains DEF Same
<1>3. QED
  BY <1>2 DEF Native!ValueDone, t

\* The end of a value keeps JsonInv.
LEMMA DoneIfCollecting ==
  ASSUME NEW s, NEW open, Native!JsonInv(s, open)
  PROVE  Native!JsonInv(Native!DoneIfCollecting(s), open)
<1>1. Same(s, Native!DoneIfCollecting(s))
  BY ValueDone DEF Native!DoneIfCollecting, Native!JsonInv, Same
<1>2. QED
  BY <1>1, SameInv

\* So does the end of a string, a key or a value.
LEMMA StringDone ==
  ASSUME NEW s, NEW open, Native!JsonInv(s, open), NEW v
  PROVE  Native!JsonInv(Native!StringDone(s, v), open)
<1> DEFINE t == [s EXCEPT !.val = v]
<1>1. Native!Shaped(s)
  BY DEF Native!JsonInv
<1>2. Same(s, t)
  BY <1>1, Domains DEF Same
<1>3. Native!JsonInv(t, open)
  <2> HIDE DEF t
  <2>1. QED
    BY <1>2, SameInv
<1>4. Native!JsonInv(Native!ValueDone(t), open)
  <2> HIDE DEF t
  <2>1. Same(t, Native!ValueDone(t))
    BY <1>3, ValueDone DEF Native!JsonInv
  <2>2. QED
    BY <1>3, <2>1, SameInv
<1>5. Same(s, [s EXCEPT !.key = v, !.lastKey = v, !.readingKey = FALSE])
  BY <1>1, Domains DEF Same
<1>6. Native!JsonInv([s EXCEPT !.key = v, !.lastKey = v, !.readingKey = FALSE], open)
  BY <1>5, SameInv
<1> HIDE DEF t
<1>7. QED
  BY <1>4, <1>6 DEF Native!StringDone, t

\* So do the assignments between the tokens.
LEMMA Marked ==
  ASSUME NEW s, NEW open, Native!JsonInv(s, open), NEW v
  PROVE  /\ Native!JsonInv([s EXCEPT !.val = v], open)
         /\ Native!JsonInv([s EXCEPT !.readingKey = v], open)
         /\ Native!JsonInv([s EXCEPT !.readingKey = TRUE, !.key = v], open)
         /\ Native!JsonInv([s EXCEPT !.collecting = v, !.val = Native!NoText], open)
<1>1. Native!Shaped(s)
  BY DEF Native!JsonInv
<1>2. Same(s, [s EXCEPT !.val = v])
  BY <1>1, Domains DEF Same
<1>3. Same(s, [s EXCEPT !.readingKey = v])
  BY <1>1, Domains DEF Same
<1>4. Same(s, [s EXCEPT !.readingKey = TRUE, !.key = v])
  BY <1>1, Domains DEF Same
<1>5. Same(s, [s EXCEPT !.collecting = v, !.val = Native!NoText])
  BY <1>1, Domains DEF Same
<1>6. QED
  BY <1>2, <1>3, <1>4, <1>5, SameInv

Brackets == {"brace", "bracket"}

\* What is open after one more.
LEMMA Opening ==
  ASSUME NEW open \in Seq(Brackets), NEW b \in Brackets, NEW d \in Nat, Len(open) = d
  PROVE  /\ Append(open, b) \in Seq(Brackets) /\ Len(Append(open, b)) = d + 1
         /\ \A i \in 1 .. d : Append(open, b)[i] = open[i]
         /\ Append(open, b)[d + 1] = b
OBVIOUS

\* A release starts without files.
LEMMA NoFiles == Native!IsSeq(<<>>) /\ Len(<<>>) = 0
BY DEF Native!IsSeq

\* The release in progress: none, or a new one.
LEMMA Releases ==
  /\ DOMAIN Native!NewCur = DOMAIN Native!NoCur
  /\ Native!NewCur.live = TRUE /\ Native!NoCur.live = FALSE
  /\ Native!NewCur.files = <<>> /\ Native!NoCur.files = <<>>
BY DEF Native!NewCur, Native!NoCur

\* An opening brace keeps JsonInv: a release or a file may start with it.
LEMMA OpenBrace ==
  ASSUME NEW s, NEW open \in Seq(Brackets), Native!JsonInv(s, open)
  PROVE  Native!JsonInv(Native!OpenBrace(s), Append(open, "brace"))
<1> DEFINE n == Append(open, "brace")
           d == [s EXCEPT !.depth = @ + 1]
<1>1. Native!Shaped(s) /\ Native!Placed(s, open) /\ Native!ArraysHold(s)
  BY DEF Native!JsonInv
<1>2. s.depth \in Nat /\ Len(open) = s.depth
  BY <1>1 DEF Native!Placed
<1>3. /\ Len(n) = s.depth + 1
      /\ \A i \in 1 .. s.depth : n[i] = open[i]
      /\ n[s.depth + 1] = "brace"
  BY <1>2, Opening DEF Brackets
<1>4. /\ d.depth = s.depth + 1 /\ d.inAssets = s.inAssets /\ d.assetsDepth = s.assetsDepth
      /\ d.list = s.list /\ d.cur = s.cur /\ d.asset = s.asset /\ DOMAIN d = DOMAIN s
  BY <1>1, Domains
<1> HIDE DEF n, d
<1>5. CASE d.depth = 2
  <2> DEFINE room == Native!RoomForRelease(s)
             c == IF room THEN Native!NewCur ELSE Native!NoCur
             t == [d EXCEPT !.cur = c, !.dropped = IF room THEN @ ELSE @ + 1,
                            !.isDraft = FALSE, !.inAssets = FALSE, !.zip = Native!NoText]
  <2>1. Native!OpenBrace(s) = t
    BY <1>5 DEF Native!OpenBrace, d
  <2> HIDE DEF c, room
  <2>2. /\ t.depth = d.depth /\ t.inAssets = FALSE /\ t.asset = s.asset /\ t.list = s.list
        /\ t.cur = c /\ DOMAIN t = DOMAIN s
    BY <1>1, <1>4, Domains
  <2> HIDE DEF t
  <2>3. s.depth = 1
    BY <1>2, <1>4, <1>5
  <2>4. s.asset.where = "none"
    BY <1>1, <2>3 DEF Native!Placed
  <2>5. /\ DOMAIN c = DOMAIN Native!NewCur /\ c.files = <<>>
        /\ c.live \in BOOLEAN /\ (c.live => room)
    BY Releases DEF c
  <2>6. Native!Shaped(t)
    BY <1>1, <2>2, <2>5, NoFiles DEF Native!Shaped
  <2>7. Native!Placed(t, n)
    BY <1>2, <1>3, <1>4, <1>5, <2>2, <2>3, <2>4 DEF Native!Placed
  <2>8. room => Len(s.list) < MaxReleases
    BY DEF room, Native!RoomForRelease
  <2>9. Native!ArraysHold(t)
    BY <1>1, <2>2, <2>4, <2>5, <2>8, NoFiles, ChoiceAssumption DEF Native!ArraysHold
  <2>10. QED
    BY <2>1, <2>6, <2>7, <2>9 DEF Native!JsonInv, n
<1>6. CASE d.depth # 2 /\ Native!InAsset(d)
  <2> DEFINE t == [d EXCEPT !.asset = Native!AssetPlace(d)]
  <2>1. Native!OpenBrace(s) = t
    BY <1>6 DEF Native!OpenBrace, d
  <2>2. /\ t.depth = d.depth /\ t.inAssets = s.inAssets /\ t.assetsDepth = s.assetsDepth
        /\ t.list = s.list /\ t.cur = s.cur /\ DOMAIN t = DOMAIN s
        /\ t.asset = Native!AssetPlace(d)
    BY <1>1, <1>4, Domains
  <2> HIDE DEF t
  <2>3. /\ DOMAIN t.asset = DOMAIN Native!NoAsset
        /\ t.asset.where = IF ~s.cur.live THEN "none"
                           ELSE IF Len(s.cur.files) < MaxAssets THEN "slot" ELSE "spare"
    BY <2>2, <1>4 DEF Native!AssetPlace, Native!NoAsset, Native!NewAsset
  <2>4. s.inAssets /\ d.depth = s.assetsDepth + 1
    BY <1>4, <1>6 DEF Native!InAsset
  <2>5. s.depth = 3 /\ s.assetsDepth = 3 /\ d.depth = 4
    BY <1>1, <1>2, <1>4, <2>4 DEF Native!Placed
  <2>6. Native!Shaped(t)
    BY <1>1, <2>2, <2>3 DEF Native!Shaped
  <2>7. Native!Placed(t, n)
    BY <1>1, <1>3, <2>2, <2>4, <2>5 DEF Native!Placed
  <2>8. Native!ArraysHold(t)
    BY <1>1, <2>2, <2>3 DEF Native!ArraysHold
  <2>9. QED
    BY <2>1, <2>6, <2>7, <2>8 DEF Native!JsonInv, n
<1>7. CASE d.depth # 2 /\ ~Native!InAsset(d)
  <2>1. Native!OpenBrace(s) = d
    BY <1>7 DEF Native!OpenBrace, d
  <2>2. Native!Shaped(d) /\ Native!ArraysHold(d)
    BY <1>1, <1>4 DEF Native!Shaped, Native!ArraysHold
  <2>3. Native!Placed(d, n)
    BY <1>1, <1>3, <1>4 DEF Native!Placed
  <2>4. QED
    BY <2>1, <2>2, <2>3 DEF Native!JsonInv, n
<1>8. QED
  BY <1>5, <1>6, <1>7

\* The same but for texts, flags and files, of which there are not too many.
SameRelease(s, t) ==
  /\ t.depth = s.depth /\ t.inAssets = s.inAssets /\ t.assetsDepth = s.assetsDepth
  /\ t.list = s.list /\ t.asset = s.asset
  /\ DOMAIN t = DOMAIN s /\ DOMAIN t.cur = DOMAIN s.cur
  /\ Native!IsSeq(t.cur.files) /\ Len(t.cur.files) <= MaxAssets

\* The source archive is added only where there is room.
LEMMA AddSourceZip ==
  ASSUME NEW s, Native!Shaped(s), Len(s.cur.files) <= MaxAssets
  PROVE  SameRelease(s, Native!AddSourceZip(s))
<1> DEFINE e == [name |-> SourceName[s.cur.tag], size |-> "0", path |-> s.zip]
<1>1. Native!IsSeq(s.cur.files) /\ Len(s.cur.files) \in Nat
  BY AppendSeq DEF Native!Shaped
<1>2. CASE s.zip = Native!NoText
  BY <1>1, <1>2 DEF SameRelease, Native!AddSourceZip
<1>3. CASE s.zip # Native!NoText /\ Len(s.cur.files) >= MaxAssets
  <2>1. Native!AddSourceZip(s) = [s EXCEPT !.cur.skipped = @ + 1]
    BY <1>3 DEF Native!AddSourceZip
  <2>2. QED
    BY <1>1, <2>1, Domains DEF SameRelease
<1>4. CASE s.zip # Native!NoText /\ ~(Len(s.cur.files) >= MaxAssets)
  <2>1. Native!AddSourceZip(s) = [s EXCEPT !.cur.files = Append(@, e)]
    BY <1>4 DEF Native!AddSourceZip
  <2> HIDE DEF e
  <2>2. Native!IsSeq(Append(s.cur.files, e)) /\ Len(Append(s.cur.files, e)) = Len(s.cur.files) + 1
    BY <1>1, AppendSeq
  <2>3. Len(s.cur.files) + 1 <= MaxAssets
    BY <1>1, <1>4, ChoiceAssumption
  <2>4. Native!AddSourceZip(s).cur.files = Append(s.cur.files, e)
    BY <2>1, Domains
  <2>5. /\ Native!AddSourceZip(s).depth = s.depth /\ Native!AddSourceZip(s).list = s.list
        /\ Native!AddSourceZip(s).inAssets = s.inAssets
        /\ Native!AddSourceZip(s).assetsDepth = s.assetsDepth
        /\ Native!AddSourceZip(s).asset = s.asset
        /\ DOMAIN Native!AddSourceZip(s) = DOMAIN s
        /\ DOMAIN Native!AddSourceZip(s).cur = DOMAIN s.cur
    BY <2>1, Domains
  <2>6. QED
    BY <2>2, <2>3, <2>4, <2>5 DEF SameRelease
<1>5. QED
  BY <1>2, <1>3, <1>4

\* The end of a release: it goes into the list, at a place claimed before.
LEMMA EndRelease ==
  ASSUME NEW s, Native!Shaped(s), Native!ArraysHold(s), s.asset.where = "none"
  PROVE  LET t == Native!EndRelease(s) IN
         /\ t.depth = s.depth /\ t.inAssets = s.inAssets /\ t.assetsDepth = s.assetsDepth
         /\ t.asset = s.asset /\ ~t.cur.live
         /\ Native!Shaped(t) /\ Native!ArraysHold(t)
<1> DEFINE t == Native!EndRelease(s)
           c == IF s.cur.title = Native!NoText THEN [s EXCEPT !.cur.title = s.cur.tag] ELSE s
           z == Native!AddSourceZip(c)
           r == [f \in DOMAIN z.cur \ {"live"} |-> z.cur[f]]
<1>1. Native!IsSeq(s.list) /\ Len(s.list) \in Nat
  BY AppendSeq DEF Native!Shaped
<1>2. CASE s.cur.live /\ ~s.isDraft /\ s.cur.tag # Native!NoText
  <2>1. t = [z EXCEPT !.list = Append(@, r), !.cur = Native!NoCur]
    BY <1>2 DEF Native!EndRelease
  <2>2. Same(s, c)
    BY Domains DEF Same
  <2>3. Native!Shaped(c) /\ Len(c.cur.files) <= MaxAssets /\ c.asset = s.asset
    <3>1. c.asset = s.asset
      BY Domains
    <3> HIDE DEF c
    <3>2. QED
      BY <1>2, <2>2, <3>1 DEF Same, Native!Shaped, Native!ArraysHold
  <2> HIDE DEF c
  <2>4. SameRelease(c, z)
    BY <2>3, AddSourceZip
  <2>5. r.files = z.cur.files
    BY <2>2, <2>4, Domains DEF SameRelease, Same
  <2> HIDE DEF z, r
  <2>6. /\ t.depth = s.depth /\ t.inAssets = s.inAssets /\ t.assetsDepth = s.assetsDepth
        /\ t.asset = s.asset /\ t.cur = Native!NoCur /\ t.list = Append(s.list, r)
        /\ DOMAIN t = DOMAIN s
    BY <2>1, <2>2, <2>3, <2>4, Domains DEF SameRelease, Same
  <2>7. Native!IsSeq(r.files) /\ Len(r.files) <= MaxAssets
    BY <2>4, <2>5 DEF SameRelease
  <2>8. /\ Native!IsSeq(t.list) /\ Len(t.list) = Len(s.list) + 1
        /\ \A i \in 1 .. Len(s.list) : t.list[i] = s.list[i]
        /\ t.list[Len(s.list) + 1] = r
    BY <1>1, <2>6, AppendSeq
  <2>9. \A i \in 1 .. Len(t.list) : i \in 1 .. Len(s.list) \/ i = Len(s.list) + 1
    BY <1>1, <2>8
  <2> HIDE DEF t
  <2>10. Native!Shaped(t)
    BY <2>6, <2>7, <2>8, <2>9, Releases, NoFiles DEF Native!Shaped
  <2>11. Len(s.list) < MaxReleases
    BY <1>2 DEF Native!ArraysHold
  <2>12. Len(t.list) <= MaxReleases
    BY <1>1, <2>8, <2>11, ChoiceAssumption
  <2>13. \A i \in 1 .. Len(t.list) : Len(t.list[i].files) <= MaxAssets
    BY <2>7, <2>8, <2>9 DEF Native!ArraysHold
  <2>14. ~t.cur.live
    BY <2>6, Releases
  <2>15. Native!ArraysHold(t)
    BY <2>6, <2>12, <2>13, <2>14 DEF Native!ArraysHold
  <2>16. QED
    BY <2>6, <2>10, <2>14, <2>15 DEF t
<1>3. CASE ~(s.cur.live /\ ~s.isDraft /\ s.cur.tag # Native!NoText)
  <2>1. t = [s EXCEPT !.cur = Native!NoCur]
    BY <1>3 DEF Native!EndRelease
  <2>2. /\ t.depth = s.depth /\ t.inAssets = s.inAssets /\ t.assetsDepth = s.assetsDepth
        /\ t.asset = s.asset /\ t.cur = Native!NoCur /\ t.list = s.list
        /\ DOMAIN t = DOMAIN s
    BY <2>1, Domains
  <2> HIDE DEF t
  <2>3. Native!Shaped(t) /\ Native!ArraysHold(t) /\ ~t.cur.live
    BY <2>2, Releases, NoFiles DEF Native!Shaped, Native!ArraysHold
  <2>4. QED
    BY <2>2, <2>3 DEF t
<1>4. QED
  BY <1>2, <1>3

\* The end of a file: it goes to its place, or is offered when there is none.
LEMMA EndAsset ==
  ASSUME NEW s, Native!Shaped(s), Native!ArraysHold(s)
  PROVE  LET t == Native!EndAsset(s) IN
         /\ t.depth = s.depth /\ t.inAssets = s.inAssets /\ t.assetsDepth = s.assetsDepth
         /\ t.cur.live = s.cur.live /\ t.asset.where = "none"
         /\ Native!Shaped(t) /\ Native!ArraysHold(t)
<1> DEFINE t == Native!EndAsset(s)
           a == [name |-> s.asset.name, size |-> s.asset.size, path |-> s.asset.path]
           offered == Native!GfAssetOffer(s.cur.files, a)
           longer == Append(s.cur.files, a)
<1>1. Native!IsSeq(s.cur.files) /\ Len(s.cur.files) \in Nat
  BY AppendSeq DEF Native!Shaped
<1>2. Native!IsSeq(offered) /\ Len(offered) = Len(s.cur.files)
  BY <1>1, Offered
<1>3. Native!IsSeq(longer) /\ Len(longer) = Len(s.cur.files) + 1
  BY <1>1, AppendSeq
<1>4. /\ Native!NoAsset.where = "none"
      /\ DOMAIN Native!NoAsset = {"where", "name", "size", "path"}
  BY DEF Native!NoAsset, Native!NewAsset
<1> HIDE DEF a, offered, longer
<1>5. CASE s.asset.where = "none"
  BY <1>5 DEF Native!EndAsset
<1>6. CASE /\ s.asset.where # "none"
           /\ s.asset.name = Native!NoText \/ s.asset.path = Native!NoText
  <2>1. t = [s EXCEPT !.asset = Native!NoAsset]
    BY <1>6 DEF Native!EndAsset
  <2>2. /\ t.depth = s.depth /\ t.inAssets = s.inAssets /\ t.assetsDepth = s.assetsDepth
        /\ t.asset = Native!NoAsset /\ t.cur = s.cur /\ t.list = s.list
        /\ DOMAIN t = DOMAIN s
    BY <2>1, Domains
  <2> HIDE DEF t
  <2>3. Native!Shaped(t) /\ Native!ArraysHold(t)
    BY <1>4, <2>2 DEF Native!Shaped, Native!ArraysHold
  <2>4. QED
    BY <1>4, <2>2, <2>3 DEF t
<1>7. CASE /\ s.asset.where = "spare"
           /\ ~(s.asset.name = Native!NoText \/ s.asset.path = Native!NoText)
  <2> DEFINE c == [s.cur EXCEPT !.files = offered, !.skipped = @ + 1]
  <2>1. t = [s EXCEPT !.cur.files = offered, !.cur.skipped = @ + 1, !.asset = Native!NoAsset]
    BY <1>7, Domains DEF Native!EndAsset, offered, a
  <2>2. c.live = s.cur.live /\ c.files = offered /\ DOMAIN c = DOMAIN s.cur
    BY Domains
  <2>3. t = [s EXCEPT !.cur = c, !.asset = Native!NoAsset]
    BY <2>1, Domains
  <2> HIDE DEF c
  <2>4. /\ t.depth = s.depth /\ t.inAssets = s.inAssets /\ t.assetsDepth = s.assetsDepth
        /\ t.asset = Native!NoAsset /\ t.cur.live = s.cur.live /\ t.cur.files = offered
        /\ t.list = s.list /\ DOMAIN t = DOMAIN s /\ DOMAIN t.cur = DOMAIN s.cur
    BY <2>3, <2>2, Domains
  <2> HIDE DEF t
  <2>5. Native!Shaped(t) /\ Native!ArraysHold(t)
    BY <1>2, <1>4, <2>4 DEF Native!Shaped, Native!ArraysHold
  <2>6. QED
    BY <1>4, <2>4, <2>5 DEF t
<1>8. CASE /\ s.asset.where = "slot"
           /\ ~(s.asset.name = Native!NoText \/ s.asset.path = Native!NoText)
  <2>1. t = [s EXCEPT !.cur.files = longer, !.asset = Native!NoAsset]
    BY <1>8, Domains DEF Native!EndAsset, longer, a
  <2>2. /\ t.depth = s.depth /\ t.inAssets = s.inAssets /\ t.assetsDepth = s.assetsDepth
        /\ t.asset = Native!NoAsset /\ t.cur.live = s.cur.live /\ t.cur.files = longer
        /\ t.list = s.list /\ DOMAIN t = DOMAIN s /\ DOMAIN t.cur = DOMAIN s.cur
    BY <2>1, Domains
  <2> HIDE DEF t
  <2>3. Len(s.cur.files) < MaxAssets
    BY <1>8 DEF Native!ArraysHold
  <2>4. Len(longer) <= MaxAssets
    BY <1>1, <1>3, <2>3, ChoiceAssumption
  <2>5. Native!Shaped(t) /\ Native!ArraysHold(t)
    BY <1>3, <1>4, <2>2, <2>4 DEF Native!Shaped, Native!ArraysHold
  <2>6. QED
    BY <1>4, <2>2, <2>5 DEF t
<1>9. s.asset.where \in {"none", "slot", "spare"}
  BY DEF Native!Shaped
<1>10. QED
  BY <1>5, <1>6, <1>7, <1>8, <1>9

\* A closing brace keeps JsonInv, when a brace is open.
LEMMA CloseBrace ==
  ASSUME NEW s, NEW open \in Seq(Brackets), Native!JsonInv(s, Append(open, "brace"))
  PROVE  Native!JsonInv(Native!CloseBrace(s), open)
<1> DEFINE n == Append(open, "brace")
           e == IF s.depth = 2 THEN Native!EndRelease(s)
                ELSE IF Native!InAsset(s) THEN Native!EndAsset(s) ELSE s
           t == [e EXCEPT !.depth = IF @ > 0 THEN @ - 1 ELSE 0]
<1>1. Native!Shaped(s) /\ Native!Placed(s, n) /\ Native!ArraysHold(s)
  BY DEF Native!JsonInv
<1>2. Len(open) \in Nat /\ Len(n) = Len(open) + 1 /\ n[Len(open) + 1] = "brace"
      /\ \A i \in 1 .. Len(open) : n[i] = open[i]
  BY DEF Brackets
<1> HIDE DEF n
<1>3. /\ s.depth \in Nat \ {0} /\ Len(open) = s.depth - 1
      /\ n[s.depth] = "brace" /\ \A i \in 1 .. s.depth - 1 : n[i] = open[i]
  <2>1. PICK d \in Nat : d = Len(open)
    BY <1>2
  <2>2. s.depth = d + 1
    BY <1>1, <1>2, <2>1 DEF Native!Placed
  <2>3. QED
    BY <1>2, <2>1, <2>2
<1>4. /\ e.depth = s.depth /\ e.inAssets = s.inAssets /\ e.assetsDepth = s.assetsDepth
      /\ (e.cur.live => s.cur.live /\ s.depth # 2)
      /\ (e.asset.where # "none" => s.asset.where # "none" /\ ~Native!InAsset(s))
      /\ Native!Shaped(e) /\ Native!ArraysHold(e)
  <2>1. CASE s.depth = 2
    <3>1. s.asset.where = "none"
      BY <1>1, <2>1 DEF Native!Placed
    <3>2. QED
      BY <1>1, <2>1, <3>1, EndRelease
  <2>2. CASE s.depth # 2 /\ Native!InAsset(s)
    BY <1>1, <2>2, EndAsset
  <2>3. CASE s.depth # 2 /\ ~Native!InAsset(s)
    BY <1>1, <2>3
  <2>4. QED
    BY <2>1, <2>2, <2>3
<1>5. Native!CloseBrace(s) = t
  BY DEF Native!CloseBrace
<1> HIDE DEF e
<1>6. /\ t.depth = s.depth - 1 /\ t.inAssets = e.inAssets /\ t.assetsDepth = e.assetsDepth
      /\ t.cur = e.cur /\ t.asset = e.asset /\ t.list = e.list /\ DOMAIN t = DOMAIN e
  BY <1>3, <1>4, Domains
<1> HIDE DEF t
<1>7. Native!Shaped(t) /\ Native!ArraysHold(t)
  BY <1>4, <1>6 DEF Native!Shaped, Native!ArraysHold
<1>8. Native!Placed(t, open)
  <2>1. t.depth \in Nat /\ Len(open) = t.depth
    BY <1>3, <1>6
  <2>2. t.cur.live => t.depth >= 2 /\ open[2] = "brace"
    BY <1>1, <1>3, <1>4, <1>6 DEF Native!Placed
  <2>3. t.inAssets => t.depth >= 3 /\ open[3] = "bracket" /\ t.assetsDepth = 3
    BY <1>1, <1>3, <1>4, <1>6 DEF Native!Placed
  <2>4. t.asset.where # "none" => t.inAssets /\ t.depth >= 4 /\ open[4] = "brace"
    BY <1>1, <1>3, <1>4, <1>6 DEF Native!Placed, Native!InAsset
  <2>5. QED
    BY <2>1, <2>2, <2>3, <2>4 DEF Native!Placed
<1>9. QED
  BY <1>5, <1>7, <1>8 DEF Native!JsonInv

\* An opening bracket keeps JsonInv: the list of files may start with it.
LEMMA OpenBracket ==
  ASSUME NEW s, NEW open \in Seq(Brackets), Native!JsonInv(s, open)
  PROVE  Native!JsonInv(Native!OpenBracket(s), Append(open, "bracket"))
<1> DEFINE n == Append(open, "bracket")
           d == [s EXCEPT !.depth = @ + 1]
           t == Native!OpenBracket(s)
<1>1. Native!Shaped(s) /\ Native!Placed(s, open) /\ Native!ArraysHold(s)
  BY DEF Native!JsonInv
<1>2. s.depth \in Nat /\ Len(open) = s.depth
  BY <1>1 DEF Native!Placed
<1>3. /\ Len(n) = s.depth + 1
      /\ \A i \in 1 .. s.depth : n[i] = open[i]
      /\ n[s.depth + 1] = "bracket"
  BY <1>2, Opening DEF Brackets
<1> HIDE DEF n
<1>4. /\ d.depth = s.depth + 1 /\ d.inAssets = s.inAssets /\ d.assetsDepth = s.assetsDepth
      /\ d.list = s.list /\ d.cur = s.cur /\ d.asset = s.asset /\ DOMAIN d = DOMAIN s
  BY <1>1, Domains
<1>5. /\ t.depth = s.depth + 1 /\ t.list = s.list /\ t.cur = s.cur /\ t.asset = s.asset
      /\ DOMAIN t = DOMAIN s /\ t.inAssets \in BOOLEAN
      /\ \/ t.inAssets = s.inAssets /\ t.assetsDepth = s.assetsDepth
         \/ t.inAssets /\ t.assetsDepth = 3 /\ t.depth = 3
  <2> HIDE DEF d
  <2>1. CASE d.depth = 3 /\ d.lastKey = "assets"
    <3>1. t = [d EXCEPT !.inAssets = TRUE, !.assetsDepth = d.depth]
      BY <2>1 DEF Native!OpenBracket, d
    <3>2. /\ t.depth = d.depth /\ t.list = d.list /\ t.cur = d.cur /\ t.asset = d.asset
          /\ DOMAIN t = DOMAIN d /\ t.inAssets = TRUE /\ t.assetsDepth = d.depth
      BY <1>1, <1>4, <3>1, Domains
    <3>3. QED
      BY <1>4, <2>1, <3>2
  <2>2. CASE ~(d.depth = 3 /\ d.lastKey = "assets")
    <3>1. t = d
      BY <2>2 DEF Native!OpenBracket, d
    <3>2. QED
      BY <1>1, <1>4, <3>1 DEF Native!Shaped
  <2>3. QED
    BY <2>1, <2>2
<1> HIDE DEF t, d
<1>6. Native!Shaped(t) /\ Native!ArraysHold(t)
  BY <1>1, <1>5 DEF Native!Shaped, Native!ArraysHold
<1>7. Native!Placed(t, n)
  BY <1>1, <1>2, <1>3, <1>5 DEF Native!Placed
<1>8. QED
  BY <1>6, <1>7 DEF Native!JsonInv, n, t

\* A closing bracket keeps JsonInv, when a bracket is open.
LEMMA CloseBracket ==
  ASSUME NEW s, NEW open \in Seq(Brackets), Native!JsonInv(s, Append(open, "bracket"))
  PROVE  Native!JsonInv(Native!CloseBracket(s), open)
<1> DEFINE n == Append(open, "bracket")
           t == Native!CloseBracket(s)
<1>1. Native!Shaped(s) /\ Native!Placed(s, n) /\ Native!ArraysHold(s)
  BY DEF Native!JsonInv
<1>2. Len(open) \in Nat /\ Len(n) = Len(open) + 1 /\ n[Len(open) + 1] = "bracket"
      /\ \A i \in 1 .. Len(open) : n[i] = open[i]
  BY DEF Brackets
<1> HIDE DEF n
<1>3. /\ s.depth \in Nat \ {0} /\ Len(open) = s.depth - 1
      /\ n[s.depth] = "bracket" /\ \A i \in 1 .. s.depth - 1 : n[i] = open[i]
  <2>1. PICK d \in Nat : d = Len(open)
    BY <1>2
  <2>2. s.depth = d + 1
    BY <1>1, <1>2, <2>1 DEF Native!Placed
  <2>3. QED
    BY <1>2, <2>1, <2>2
<1>4. /\ t.depth = s.depth - 1 /\ t.list = s.list /\ t.cur = s.cur /\ t.asset = s.asset
      /\ t.inAssets = (s.inAssets /\ s.depth # s.assetsDepth) /\ t.assetsDepth = s.assetsDepth
      /\ DOMAIN t = DOMAIN s
  BY <1>1, <1>3, Domains DEF Native!CloseBracket
<1>5. /\ t.inAssets => s.inAssets /\ s.depth # s.assetsDepth
      /\ s.inAssets /\ s.depth # s.assetsDepth => t.inAssets
  BY <1>4
<1> HIDE DEF t
<1>6. Native!Shaped(t) /\ Native!ArraysHold(t)
  BY <1>1, <1>4 DEF Native!Shaped, Native!ArraysHold
<1>7. Native!Placed(t, open)
  <2>1. t.depth \in Nat /\ Len(open) = t.depth
    BY <1>3, <1>4
  <2>2. t.cur.live => t.depth >= 2 /\ open[2] = "brace"
    BY <1>1, <1>3, <1>4 DEF Native!Placed
  <2>3. t.inAssets => t.depth >= 3 /\ open[3] = "bracket" /\ t.assetsDepth = 3
    BY <1>1, <1>3, <1>4, <1>5 DEF Native!Placed
  <2>4. t.asset.where # "none" => t.inAssets /\ t.depth >= 4 /\ open[4] = "brace"
    BY <1>1, <1>3, <1>4, <1>5 DEF Native!Placed
  <2>5. QED
    BY <2>1, <2>2, <2>3, <2>4 DEF Native!Placed
<1>8. QED
  BY <1>6, <1>7 DEF Native!JsonInv, t

\* What is open before and after the token c.
Bracket(open, c, after) ==
  IF c.t \in Brackets THEN after = Append(open, c.t)
  ELSE IF c.t = "end brace" THEN open = Append(after, "brace")
  ELSE IF c.t = "end bracket" THEN open = Append(after, "bracket")
  ELSE after = open

\* gf_json_feed keeps JsonInv for every token that fits what is open.
LEMMA FeedToken ==
  ASSUME NEW c, NEW open \in Seq(Brackets), NEW after \in Seq(Brackets),
         Bracket(open, c, after), Native!JsonInv(json, open), Native!GfJsonFeed(c)
  PROVE  Native!JsonInv(json', after)
<1>1. CASE c.t = "str" /\ json' = Native!StringDone(json, c.v)
  BY <1>1, StringDone DEF Bracket, Brackets
<1>2. CASE c.t = "lit" /\ json' = IF json.collecting THEN [json EXCEPT !.val = c.v] ELSE json
  <2>1. after = open
    BY <1>2 DEF Bracket, Brackets
  <2>2. Native!JsonInv([json EXCEPT !.val = c.v], open)
    BY Marked
  <2>3. QED
    BY <1>2, <2>1, <2>2
<1>3. CASE c.t = "brace" /\ json' = [Native!OpenBrace(json) EXCEPT !.readingKey = TRUE,
                                                                    !.key = Native!NoText]
  <2>1. after = Append(open, "brace")
    BY <1>3 DEF Bracket, Brackets
  <2>2. Native!JsonInv(Native!OpenBrace(json), after)
    BY <2>1, OpenBrace
  <2>3. QED
    BY <1>3, <2>2, Marked
<1>4. CASE /\ c.t = "end brace"
           /\ json' = [Native!CloseBrace(Native!DoneIfCollecting(json)) EXCEPT !.readingKey = FALSE]
  <2>1. open = Append(after, "brace")
    BY <1>4 DEF Bracket, Brackets
  <2>2. Native!JsonInv(Native!DoneIfCollecting(json), open)
    BY DoneIfCollecting
  <2>3. Native!JsonInv(Native!CloseBrace(Native!DoneIfCollecting(json)), after)
    BY <2>1, <2>2, CloseBrace
  <2>4. QED
    BY <1>4, <2>3, Marked
<1>5. CASE c.t = "bracket" /\ json' = Native!OpenBracket(json)
  <2>1. after = Append(open, "bracket")
    BY <1>5 DEF Bracket, Brackets
  <2>2. QED
    BY <1>5, <2>1, OpenBracket
<1>6. CASE c.t = "end bracket" /\ json' = Native!CloseBracket(Native!DoneIfCollecting(json))
  <2>1. open = Append(after, "bracket")
    BY <1>6 DEF Bracket, Brackets
  <2>2. Native!JsonInv(Native!DoneIfCollecting(json), open)
    BY DoneIfCollecting
  <2>3. QED
    BY <1>6, <2>1, <2>2, CloseBracket
<1>7. CASE c.t = "colon" /\ json' = [json EXCEPT !.collecting = Native!WantValue(json),
                                                  !.val = Native!NoText]
  <2>1. after = open
    BY <1>7 DEF Bracket, Brackets
  <2>2. QED
    BY <1>7, <2>1, Marked
<1>8. CASE c.t = "comma" /\ json' = [Native!DoneIfCollecting(json) EXCEPT !.readingKey = TRUE]
  <2>1. after = open
    BY <1>8 DEF Bracket, Brackets
  <2>2. Native!JsonInv(Native!DoneIfCollecting(json), open)
    BY DoneIfCollecting
  <2>3. QED
    BY <1>8, <2>1, <2>2, Marked
<1>9. QED
  BY <1>1, <1>2, <1>3, <1>4, <1>5, <1>6, <1>7, <1>8, Zenon DEF Native!GfJsonFeed

(***************************************************************************)
(* The braces and brackets of GitHub's answer match.                       *)
(***************************************************************************)

\* The texts of an answer; the provers do not take a literal for a STRING.
Words  == {"name", "size", "uploader", "browser_download_url", "author", "tag_name", "draft",
           "prerelease", "created_at", "published_at", "assets", "zipball_url", "someone", "1"}
Texts  == STRING \cup Words \cup {Native!NoText}
Tokens == [t : Brackets \cup {"end brace", "end bracket", "colon", "comma", "str", "lit"},
           v : Texts]

\* A history of what is open, from nothing to nothing again.
Nesting(toks, h) ==
  /\ h \in [0 .. Len(toks) -> Seq(Brackets)]
  /\ h[0] = <<>> /\ h[Len(toks)] = <<>>
  /\ \A i \in 1 .. Len(toks) : Bracket(h[i - 1], toks[i], h[i])
Nested == {toks \in Seq(Tokens) : \E h : Nesting(toks, h)}

\* A history shows that tokens match.
LEMMA NestingOf ==
  ASSUME NEW toks \in Seq(Tokens), NEW h, Nesting(toks, h)
  PROVE  toks \in Nested
BY DEF Nested

\* No token at all.
LEMMA Nothing == <<>> \in Nested
<1> DEFINE h == [i \in 0 .. 0 |-> <<>>]
<1>1. h \in [0 .. 0 -> Seq(Brackets)] /\ h[0] = <<>>
  OBVIOUS
<1>2. <<>> \in Seq(Tokens) /\ Len(<<>>) = 0 /\ 1 .. 0 = {}
  OBVIOUS
<1> HIDE DEF h
<1>3. Nesting(<<>>, h)
  BY <1>1, <1>2 DEF Nesting
<1>4. QED
  BY <1>2, <1>3, NestingOf

Plain(c) == c \in Tokens /\ c.t \notin Brackets /\ c.t # "end brace" /\ c.t # "end bracket"

\* A token that opens and closes nothing.
LEMMA OneToken ==
  ASSUME NEW c, Plain(c)
  PROVE  <<c>> \in Nested
<1> DEFINE h == [i \in 0 .. 1 |-> <<>>]
<1>1. h \in [0 .. 1 -> Seq(Brackets)] /\ h[0] = <<>> /\ h[1] = <<>>
  OBVIOUS
<1>2. <<c>> \in Seq(Tokens) /\ Len(<<c>>) = 1 /\ <<c>>[1] = c
  <2>1. c \in Tokens
    BY DEF Plain
  <2>2. QED
    BY <2>1
<1> HIDE DEF h
<1>3. ASSUME NEW i \in 1 .. 1 PROVE Bracket(h[i - 1], <<c>>[i], h[i])
  <2>1. i = 1 /\ i - 1 = 0
    OBVIOUS
  <2>2. QED
    BY <1>1, <1>2, <2>1 DEF Bracket, Plain
<1>4. Nesting(<<c>>, h)
  BY <1>1, <1>2, <1>3 DEF Nesting
<1>5. QED
  BY <1>2, <1>4, NestingOf

\* One after the other.
LEMMA Joined ==
  ASSUME NEW a \in Nested, NEW b \in Nested
  PROVE  a \o b \in Nested
<1>1. PICK g : Nesting(a, g)
  BY DEF Nested
<1>2. PICK h : Nesting(b, h)
  BY DEF Nested
<1>3. a \in Seq(Tokens) /\ b \in Seq(Tokens)
  BY DEF Nested
<1>4. PICK m \in Nat : m = Len(a)
  BY <1>3
<1>5. PICK n \in Nat : n = Len(b)
  BY <1>3
<1> DEFINE f == [i \in 0 .. m + n |-> IF i <= m THEN g[i] ELSE h[i - m]]
<1>6. /\ a \o b \in Seq(Tokens) /\ Len(a \o b) = m + n
      /\ \A i \in 1 .. m : (a \o b)[i] = a[i]
      /\ \A i \in m + 1 .. m + n : (a \o b)[i] = b[i - m]
  BY <1>3, <1>4, <1>5
<1>7. /\ g \in [0 .. m -> Seq(Brackets)] /\ g[0] = <<>> /\ g[m] = <<>>
      /\ \A i \in 1 .. m : Bracket(g[i - 1], a[i], g[i])
  BY <1>1, <1>4 DEF Nesting
<1>8. /\ h \in [0 .. n -> Seq(Brackets)] /\ h[0] = <<>> /\ h[n] = <<>>
      /\ \A i \in 1 .. n : Bracket(h[i - 1], b[i], h[i])
  BY <1>2, <1>5 DEF Nesting
<1>9. f \in [0 .. m + n -> Seq(Brackets)]
  <2>1. ASSUME NEW i \in 0 .. m + n PROVE (IF i <= m THEN g[i] ELSE h[i - m]) \in Seq(Brackets)
    <3>1. CASE i <= m
      BY <1>7, <3>1
    <3>2. CASE ~(i <= m)
      <4>1. i - m \in 0 .. n
        BY <3>2
      <4>2. QED
        BY <1>8, <3>2, <4>1
    <3>3. QED
      BY <3>1, <3>2
  <2>2. QED
    BY <2>1
<1>10. /\ \A i \in 0 .. m : f[i] = g[i]
       /\ \A i \in m + 1 .. m + n : f[i] = h[i - m]
  OBVIOUS
<1> HIDE DEF f
<1>11. f[0] = <<>> /\ f[m + n] = <<>> /\ f[m] = h[0]
  <2>1. 0 \in 0 .. m /\ m \in 0 .. m
    OBVIOUS
  <2>2. n = 0 => m + n = m
    OBVIOUS
  <2>3. n # 0 => m + n \in m + 1 .. m + n /\ m + n - m = n
    OBVIOUS
  <2>4. f[0] = <<>> /\ f[m] = <<>>
    BY <1>7, <1>10, <2>1
  <2>5. f[m + n] = <<>>
    <3>1. CASE n = 0
      BY <2>2, <2>4, <3>1
    <3>2. CASE n # 0
      BY <1>8, <1>10, <2>3, <3>2
    <3>3. QED
      BY <3>1, <3>2
  <2>6. QED
    BY <1>8, <2>4, <2>5
<1>12. ASSUME NEW i \in 1 .. m + n PROVE Bracket(f[i - 1], (a \o b)[i], f[i])
  <2>1. CASE i <= m
    <3>1. i \in 1 .. m /\ i \in 0 .. m /\ i - 1 \in 0 .. m
      BY <2>1
    <3>2. QED
      BY <1>6, <1>7, <1>10, <3>1
  <2>2. CASE ~(i <= m)
    <3>1. i \in m + 1 .. m + n /\ i - m \in 1 .. n /\ i - m - 1 = i - 1 - m
      BY <2>2
    <3>2. f[i - 1] = h[i - m - 1]
      <4>1. CASE i = m + 1
        <5>1. i - 1 = m /\ i - m - 1 = 0
          BY <4>1
        <5>2. QED
          BY <1>11, <5>1
      <4>2. CASE i # m + 1
        <5>1. i - 1 \in m + 1 .. m + n
          BY <2>2, <4>2
        <5>2. QED
          BY <1>10, <3>1, <5>1
      <4>3. QED
        BY <4>1, <4>2
    <3>3. QED
      BY <1>6, <1>8, <1>10, <3>1, <3>2
  <2>3. QED
    BY <2>1, <2>2
<1>13. Nesting(a \o b, f)
  BY <1>6, <1>9, <1>11, <1>12 DEF Nesting
<1>14. QED
  BY <1>6, <1>13, NestingOf

\* What goes on inside a bracket b.
LEMMA Inside ==
  ASSUME NEW b \in Brackets, NEW open \in Seq(Brackets), NEW after \in Seq(Brackets),
         NEW c, Bracket(open, c, after)
  PROVE  Bracket(<<b>> \o open, c, <<b>> \o after)
<1>1. ASSUME NEW x \in Seq(Brackets), NEW y \in Brackets
      PROVE  <<b>> \o Append(x, y) = Append(<<b>> \o x, y)
  OBVIOUS
<1>2. "brace" \in Brackets /\ "bracket" \in Brackets
  BY DEF Brackets
<1>3. CASE c.t \in Brackets
  BY <1>1, <1>3 DEF Bracket
<1>4. CASE c.t \notin Brackets /\ c.t = "end brace"
  <2>1. open = Append(after, "brace")
    BY <1>4 DEF Bracket
  <2>2. <<b>> \o open = Append(<<b>> \o after, "brace")
    BY <1>1, <1>2, <2>1
  <2>3. QED
    BY <1>4, <2>2 DEF Bracket
<1>5. CASE c.t \notin Brackets /\ c.t # "end brace" /\ c.t = "end bracket"
  <2>1. open = Append(after, "bracket")
    BY <1>5 DEF Bracket
  <2>2. <<b>> \o open = Append(<<b>> \o after, "bracket")
    BY <1>1, <1>2, <2>1
  <2>3. QED
    BY <1>5, <2>2 DEF Bracket
<1>6. CASE c.t \notin Brackets /\ c.t # "end brace" /\ c.t # "end bracket"
  BY <1>6 DEF Bracket
<1>7. QED
  BY <1>3, <1>4, <1>5, <1>6

\* An opening token of the kind b and the closing one of that kind.
Pair(o, b, e) ==
  /\ o \in Tokens /\ e \in Tokens /\ b \in Brackets /\ o.t = b
  /\ e.t = IF b = "brace" THEN "end brace" ELSE "end bracket"

\* Inside a pair of braces or brackets.
LEMMA Enclosed ==
  ASSUME NEW o, NEW b, NEW e, Pair(o, b, e), NEW a \in Nested
  PROVE  <<o>> \o a \o <<e>> \in Nested
<1>1. PICK h : Nesting(a, h)
  BY DEF Nested
<1>2. a \in Seq(Tokens)
  BY DEF Nested
<1>3. PICK n \in Nat : n = Len(a)
  BY <1>2
<1>4. o \in Tokens /\ e \in Tokens /\ b \in Brackets /\ o.t = b
  BY DEF Pair
<1> DEFINE w == <<o>> \o a \o <<e>>
           f == [i \in 0 .. n + 2 |-> IF i = 0 \/ i = n + 2 THEN <<>> ELSE <<b>> \o h[i - 1]]
<1>5. /\ w \in Seq(Tokens) /\ Len(w) = n + 2 /\ w[1] = o /\ w[n + 2] = e
      /\ \A i \in 2 .. n + 1 : w[i] = a[i - 1]
  <2>1. /\ <<o>> \o a \in Seq(Tokens) /\ Len(<<o>> \o a) = n + 1
        /\ (<<o>> \o a)[1] = o /\ \A i \in 2 .. n + 1 : (<<o>> \o a)[i] = a[i - 1]
    BY <1>2, <1>3, <1>4
  <2> DEFINE v == <<o>> \o a
  <2> HIDE DEF v
  <2>2. /\ v \o <<e>> \in Seq(Tokens) /\ Len(v \o <<e>>) = n + 2
        /\ (v \o <<e>>)[n + 2] = e /\ \A i \in 1 .. n + 1 : (v \o <<e>>)[i] = v[i]
    BY <1>4, <2>1 DEF v
  <2>3. QED
    BY <2>1, <2>2 DEF v
<1>6. /\ h \in [0 .. n -> Seq(Brackets)] /\ h[0] = <<>> /\ h[n] = <<>>
      /\ \A i \in 1 .. n : Bracket(h[i - 1], a[i], h[i])
  BY <1>1, <1>3 DEF Nesting
<1>7. /\ f \in [0 .. n + 2 -> Seq(Brackets)] /\ f[0] = <<>> /\ f[n + 2] = <<>>
      /\ \A i \in 1 .. n + 1 : f[i] = <<b>> \o h[i - 1]
  <2>1. ASSUME NEW i \in 0 .. n + 2, i # 0, i # n + 2
        PROVE  <<b>> \o h[i - 1] \in Seq(Brackets)
    <3>1. i - 1 \in 0 .. n
      BY <2>1
    <3>2. QED
      BY <1>4, <1>6, <3>1
  <2>2. QED
    BY <2>1
<1> HIDE DEF f, w
<1>8. <<b>> \o <<>> = Append(<<>>, b)
  BY <1>4
<1>9. ASSUME NEW i \in 1 .. n + 2 PROVE Bracket(f[i - 1], w[i], f[i])
  <2>1. CASE i = 1
    <3>1. f[i - 1] = <<>> /\ w[i] = o /\ f[i] = Append(<<>>, b)
      <4>1. i - 1 = 0 /\ 1 \in 1 .. n + 1
        BY <2>1
      <4>2. QED
        BY <1>5, <1>6, <1>7, <1>8, <2>1, <4>1
    <3>2. QED
      BY <1>4, <3>1 DEF Bracket
  <2>2. CASE i = n + 2
    <3>1. f[i - 1] = Append(<<>>, b) /\ w[i] = e /\ f[i] = <<>>
      <4>1. i - 1 = n + 1 /\ n + 1 \in 1 .. n + 1 /\ n + 1 - 1 = n
        BY <2>2
      <4>2. f[n + 1] = <<b>> \o h[n]
        BY <1>7, <4>1
      <4>3. QED
        BY <1>5, <1>6, <1>7, <1>8, <2>2, <4>1, <4>2
    <3>2. QED
      BY <3>1 DEF Bracket, Pair, Brackets
  <2>3. CASE i # 1 /\ i # n + 2
    <3>1. /\ i \in 2 .. n + 1 /\ i - 1 \in 1 .. n /\ i \in 1 .. n + 1 /\ i - 1 \in 1 .. n + 1
          /\ i - 1 - 1 \in 0 .. n /\ i - 1 \in 0 .. n
      BY <2>3
    <3>2. /\ f[i] = <<b>> \o h[i - 1] /\ f[i - 1] = <<b>> \o h[i - 1 - 1]
          /\ w[i] = a[i - 1]
      BY <1>5, <1>7, <3>1
    <3>3. Bracket(h[i - 1 - 1], a[i - 1], h[i - 1])
      BY <1>6, <3>1
    <3>4. h[i - 1] \in Seq(Brackets) /\ h[i - 1 - 1] \in Seq(Brackets)
      BY <1>6, <3>1
    <3>5. QED
      BY <1>4, <3>2, <3>3, <3>4, Inside
  <2>4. QED
    BY <2>1, <2>2, <2>3
<1>10. Nesting(w, f)
  BY <1>5, <1>7, <1>9 DEF Nesting
<1>11. QED
  BY <1>5, <1>10, NestingOf DEF w

\* The tokens of punctuation.
LEMMA Marks ==
  /\ Plain(Native!Sym("colon")) /\ Plain(Native!Sym("comma"))
  /\ Pair(Native!Sym("brace"), "brace", Native!Sym("end brace"))
  /\ Pair(Native!Sym("bracket"), "bracket", Native!Sym("end bracket"))
<1>1. Native!NoText \in Texts
  BY DEF Texts
<1>2. QED
  BY <1>1 DEF Plain, Pair, Tokens, Brackets, Native!Sym

\* With commas between them.
LEMMA NativeCommas ==
  ASSUME NEW seqs \in Seq(Nested)
  PROVE  Native!Commas(seqs) \in Nested
<1> DEFINE parts == [i \in 1 .. Len(seqs) |->
                       IF i = 1 THEN seqs[i] ELSE <<Native!Sym("comma")>> \o seqs[i]]
<1>1. Native!Commas(seqs) = FlattenSeq(parts)
  BY NativeFlattenSeq DEF Native!Commas
<1>2. <<Native!Sym("comma")>> \in Nested
  BY Marks, OneToken
<1>3. parts \in Seq(Nested)
  <2>1. \A i \in 1 .. Len(seqs) : seqs[i] \in Nested
    OBVIOUS
  <2>2. \A i \in 1 .. Len(seqs) : <<Native!Sym("comma")>> \o seqs[i] \in Nested
    BY <1>2, <2>1, Joined
  <2>3. Len(seqs) \in Nat
    OBVIOUS
  <2>4. QED
    BY <2>1, <2>2, <2>3
<1> HIDE DEF parts
<1>4. CASE parts # <<>>
  <2>1. FlattenSeq(parts) \in Nested
    BY <1>3, <1>4, Joined, Flattened
  <2>2. QED
    BY <1>1, <2>1
<1>5. CASE parts = <<>>
  BY <1>1, <1>5, Nothing DEF FlattenSeq
<1>6. QED
  BY <1>4, <1>5

\* The tokens of values.
LEMMA Values ==
  ASSUME NEW v \in Texts
  PROVE  Plain(Native!Str(v)) /\ Plain(Native!Lit(v))
BY DEF Plain, Tokens, Brackets, Native!Str, Native!Lit

\* A field of an object.
LEMMA Fields ==
  ASSUME NEW k \in Texts, NEW value \in Nested
  PROVE  Native!Field(k, value) \in Nested
<1>1. <<Native!Str(k)>> \in Nested /\ <<Native!Sym("colon")>> \in Nested
  BY Marks, Values, OneToken
<1>2. <<Native!Str(k), Native!Sym("colon")>> = <<Native!Str(k)>> \o <<Native!Sym("colon")>>
  OBVIOUS
<1>3. QED
  BY <1>1, <1>2, Joined DEF Native!Field

\* Objects and arrays of what matches.
LEMMA Objects ==
  ASSUME NEW seqs \in Seq(Nested)
  PROVE  Native!Object(seqs) \in Nested /\ Native!Array(seqs) \in Nested
BY NativeCommas, Enclosed, Marks DEF Native!Object, Native!Array

\* The texts that occur.
LEMMA Known ==
  /\ Words \subseteq Texts /\ STRING \subseteq Texts
  /\ "name" \in Words /\ "size" \in Words /\ "uploader" \in Words
  /\ "browser_download_url" \in Words /\ "author" \in Words /\ "tag_name" \in Words
  /\ "draft" \in Words /\ "prerelease" \in Words /\ "created_at" \in Words
  /\ "published_at" \in Words /\ "assets" \in Words /\ "zipball_url" \in Words
  /\ "someone" \in Words /\ "1" \in Words
BY DEF Texts, Words

\* A field with a text for a value.
LEMMA PlainFields ==
  ASSUME NEW k \in Words, NEW v \in Texts
  PROVE  /\ Native!Field(k, <<Native!Str(v)>>) \in Nested
         /\ Native!Field(k, <<Native!Lit(v)>>) \in Nested
         /\ Native!Field(k, <<Native!Text(v)>>) \in Nested
<1>1. k \in Texts
  BY Known
<1>2. <<Native!Str(v)>> \in Nested /\ <<Native!Lit(v)>> \in Nested
  BY Values, OneToken
<1>3. <<Native!Text(v)>> \in Nested
  BY <1>2 DEF Native!Text
<1>4. QED
  BY <1>1, <1>2, <1>3, Fields

\* The nested object of an author or an uploader.
LEMMA PersonNested == Native!Person \in Nested
<1> DEFINE a == Native!Field("name", <<Native!Str("someone")>>)
           b == Native!Field("size", <<Native!Lit("1")>>)
<1>1. a \in Nested /\ b \in Nested
  BY Known, PlainFields
<1> HIDE DEF a, b
<1> DEFINE fields == <<a, b>>
<1>2. fields \in Seq(Nested)
  BY <1>1
<1>3. Native!Person = Native!Object(fields)
  BY DEF Native!Person, a, b
<1> HIDE DEF fields
<1>4. QED
  BY <1>2, <1>3, Objects

\* The object of a file.
LEMMA AssetNested ==
  ASSUME NEW a \in Native!Asset
  PROVE  Native!AssetJson(a) \in Nested
<1> DEFINE f1 == Native!Field("name", <<Native!Str(a.name)>>)
           f2 == Native!Field("uploader", Native!Person)
           f3 == Native!Field("size", <<Native!Lit(a.size)>>)
           f4 == Native!Field("browser_download_url", <<Native!Str(a.url)>>)
<1>1. a.name \in Texts /\ a.size \in Texts /\ a.url \in Texts
  BY Known DEF Native!Asset
<1>2. f1 \in Nested /\ f3 \in Nested /\ f4 \in Nested
  BY <1>1, Known, PlainFields
<1>3. f2 \in Nested
  BY Known, PersonNested, Fields
<1> HIDE DEF f1, f2, f3, f4
<1> DEFINE fields == <<f1, f2, f3, f4>>
<1>4. fields \in Seq(Nested)
  BY <1>2, <1>3
<1>5. Native!AssetJson(a) = Native!Object(fields)
  BY DEF Native!AssetJson, f1, f2, f3, f4
<1> HIDE DEF fields
<1>6. QED
  BY <1>4, <1>5, Objects

\* The object of a release.
LEMMA ReleaseNested ==
  ASSUME NEW r \in Native!Release
  PROVE  Native!ReleaseJson(r) \in Nested
<1> DEFINE assets == [i \in 1 .. Len(r.assets) |-> Native!AssetJson(r.assets[i])]
           f1 == Native!Field("author", Native!Person)
           f2 == Native!Field("tag_name", <<Native!Str(r.tag)>>)
           f3 == Native!Field("name", <<Native!Text(r.name)>>)
           f4 == Native!Field("draft", <<Native!Lit(r.draft)>>)
           f5 == Native!Field("prerelease", <<Native!Lit(r.prerelease)>>)
           f6 == Native!Field("created_at", <<Native!Str(r.created)>>)
           f7 == Native!Field("published_at", <<Native!Text(r.published)>>)
           f8 == Native!Field("assets", Native!Array(assets))
           f9 == Native!Field("zipball_url", <<Native!Str(r.zip)>>)
           always == <<f1, f2, f3, f4, f5, f6, f7, f8>>
           last == IF r.zip = Native!NoText THEN <<>> ELSE <<f9>>
<1>1. /\ r.tag \in Texts /\ r.name \in Texts /\ r.draft \in Texts /\ r.prerelease \in Texts
      /\ r.created \in Texts /\ r.published \in Texts /\ r.zip \in Texts
      /\ r.assets \in Seq(Native!Asset)
  BY Known DEF Native!Release
<1>2. f2 \in Nested /\ f3 \in Nested /\ f4 \in Nested /\ f5 \in Nested
  BY <1>1, Known, PlainFields
<1>3. f6 \in Nested /\ f7 \in Nested /\ f9 \in Nested
  BY <1>1, Known, PlainFields
<1>4. f1 \in Nested
  BY Known, PersonNested, Fields
<1>5. f8 \in Nested
  <2>1. Len(r.assets) \in Nat /\ \A i \in 1 .. Len(r.assets) : r.assets[i] \in Native!Asset
    BY <1>1
  <2>2. \A i \in 1 .. Len(r.assets) : Native!AssetJson(r.assets[i]) \in Nested
    BY <2>1, AssetNested
  <2>3. assets \in Seq(Nested)
    BY <2>1, <2>2
  <2> HIDE DEF assets
  <2>4. QED
    BY <2>3, Known, Objects, Fields
<1>6. Native!ReleaseJson(r) = Native!Object(always \o last)
  BY DEF Native!ReleaseJson
<1> HIDE DEF f1, f2, f3, f4, f5, f6, f7, f8, f9
<1>7. always \in Seq(Nested)
  BY <1>2, <1>3, <1>4, <1>5
<1>8. last \in Seq(Nested)
  BY <1>3
<1> HIDE DEF always, last
<1>9. always \o last \in Seq(Nested)
  BY <1>7, <1>8
<1>10. QED
  BY <1>6, <1>9, Objects

\* The braces and brackets of an answer match.
LEMMA JsonNested ==
  ASSUME NEW a \in Seq(Native!Release)
  PROVE  Native!Json(a) \in Nested
<1> DEFINE items == [i \in 1 .. Len(a) |-> Native!ReleaseJson(a[i])]
<1>1. Len(a) \in Nat /\ \A i \in 1 .. Len(a) : a[i] \in Native!Release
  OBVIOUS
<1>2. \A i \in 1 .. Len(a) : Native!ReleaseJson(a[i]) \in Nested
  BY <1>1, ReleaseNested
<1>3. items \in Seq(Nested)
  BY <1>1, <1>2
<1> HIDE DEF items
<1>4. QED
  BY <1>3, Objects DEF Native!Json, items

(***************************************************************************)
(* The invariant of the native backend: what is open fits what was read, and *)
(* the rest of the answer can go on from there.                            *)
(***************************************************************************)

\* The rest of the answer can go on from what is open.
Continues(toks, open) ==
  /\ toks \in Seq(Tokens)
  /\ \E h \in [0 .. Len(toks) -> Seq(Brackets)] :
       h[0] = open /\ \A i \in 1 .. Len(toks) : Bracket(h[i - 1], toks[i], h[i])

Parsing == \E open \in Seq(Brackets) : Native!JsonInv(json, open) /\ Continues(tokens, open)
NativeInv == backend = "native" => Parsing

\* A whole answer begins with nothing open.
LEMMA Begins ==
  ASSUME NEW toks \in Nested
  PROVE  Continues(toks, <<>>)
<1>1. PICK h : Nesting(toks, h)
  BY DEF Nested
<1>2. QED
  BY <1>1 DEF Nesting, Continues, Nested

\* After its first token what is left goes on.
LEMMA GoesOn ==
  ASSUME NEW toks, NEW open, Continues(toks, open), toks # <<>>
  PROVE  \E after \in Seq(Brackets) :
           Bracket(open, Head(toks), after) /\ Continues(Tail(toks), after)
<1>1. toks \in Seq(Tokens)
  BY DEF Continues
<1>2. PICK n \in Nat : Len(toks) = n + 1
  <2>1. Len(toks) \in Nat \ {0}
    BY <1>1
  <2>2. Len(toks) - 1 \in Nat /\ Len(toks) = Len(toks) - 1 + 1
    BY <2>1
  <2>3. QED
    BY <2>2
<1>3. PICK h \in [0 .. n + 1 -> Seq(Brackets)] :
        h[0] = open /\ \A i \in 1 .. n + 1 : Bracket(h[i - 1], toks[i], h[i])
  BY <1>2 DEF Continues
<1> DEFINE g == [i \in 0 .. n |-> h[i + 1]]
<1>4. /\ Tail(toks) \in Seq(Tokens) /\ Len(Tail(toks)) = n
      /\ \A i \in 1 .. n : Tail(toks)[i] = toks[i + 1]
      /\ Head(toks) = toks[1]
  BY <1>1, <1>2
<1>5. g \in [0 .. n -> Seq(Brackets)] /\ g[0] = h[1]
  OBVIOUS
<1>6. ASSUME NEW i \in 1 .. n PROVE Bracket(g[i - 1], Tail(toks)[i], g[i])
  <2>1. i + 1 \in 1 .. n + 1 /\ i + 1 - 1 = i /\ i - 1 + 1 = i /\ i - 1 \in 0 .. n /\ i \in 0 .. n
    OBVIOUS
  <2>2. g[i - 1] = h[i + 1 - 1] /\ g[i] = h[i + 1] /\ Tail(toks)[i] = toks[i + 1]
    BY <1>4, <2>1
  <2>3. Bracket(h[i + 1 - 1], toks[i + 1], h[i + 1])
    BY <1>3, <2>1
  <2> HIDE DEF g
  <2>4. QED
    BY <2>2, <2>3
<1> HIDE DEF g
<1>7. Continues(Tail(toks), h[1])
  BY <1>4, <1>5, <1>6 DEF Continues
<1>8. Bracket(open, Head(toks), h[1]) /\ h[1] \in Seq(Brackets)
  <2>1. 1 \in 1 .. n + 1 /\ 1 - 1 = 0 /\ 1 \in 0 .. n + 1
    OBVIOUS
  <2>2. QED
    BY <1>3, <1>4, <2>1
<1>9. QED
  BY <1>7, <1>8

\* gf_json_init establishes JsonInv.
LEMMA Starts == Native!JsonInv(Native!GfJsonInit, <<>>)
<1> DEFINE s == Native!GfJsonInit
<1>1. /\ s.depth = 0 /\ s.inAssets = FALSE /\ s.cur = Native!NoCur /\ s.asset = Native!NoAsset
      /\ s.list = <<>> /\ DOMAIN s = DOMAIN Native!GfJsonInit
  BY DEF Native!GfJsonInit
<1>2. /\ Native!NoAsset.where = "none"
      /\ DOMAIN Native!NoAsset = {"where", "name", "size", "path"}
  BY DEF Native!NoAsset, Native!NewAsset
<1> HIDE DEF s
<1>3. Native!Shaped(s)
  <2>1. DOMAIN s.cur = DOMAIN Native!NewCur /\ s.cur.live \in BOOLEAN /\ Native!IsSeq(s.cur.files)
    BY <1>1, Releases, NoFiles
  <2>2. Native!IsSeq(s.list) /\ \A i \in 1 .. Len(s.list) : Native!IsSeq(s.list[i].files)
    BY <1>1, NoFiles
  <2>3. DOMAIN s.asset = DOMAIN Native!NoAsset /\ s.asset.where = "none"
    BY <1>1, <1>2
  <2>4. s.inAssets \in BOOLEAN
    BY <1>1
  <2>5. QED
    BY <1>1, <2>1, <2>2, <2>3, <2>4 DEF Native!Shaped
<1>4. Native!Placed(s, <<>>)
  BY <1>1, <1>2, Releases, NoFiles DEF Native!Placed
<1>5. Native!ArraysHold(s)
  BY <1>1, <1>2, Releases, NoFiles, ChoiceAssumption DEF Native!ArraysHold
<1>6. QED
  BY <1>3, <1>4, <1>5 DEF Native!JsonInv, s

\* The invariant holds at the start.
LEMMA NativeInit == Init => NativeInv
<1>1. SUFFICES ASSUME Init, backend = "native" PROVE Parsing
  BY DEF NativeInv
<1>2. answer \in Inputs /\ tokens = Native!Json(answer) /\ json = Native!GfJsonInit
  BY <1>1 DEF Init, Native!Init
<1>3. answer \in Seq(Native!Release)
  BY <1>2, AnswersAssumption DEF Release, Asset, Native!Release, Native!Asset
<1>4. Continues(tokens, <<>>)
  BY <1>2, <1>3, JsonNested, Begins
<1>5. <<>> \in Seq(Brackets)
  OBVIOUS
<1>6. Native!JsonInv(json, <<>>)
  BY <1>2, Starts
<1>7. QED
  BY <1>4, <1>5, <1>6 DEF Parsing

\* Every step of the native backend keeps it.
LEMMA NativeStep ==
  ASSUME Parsing, Native!Next
  PROVE  Parsing'
<1>1. PICK open \in Seq(Brackets) : Native!JsonInv(json, open) /\ Continues(tokens, open)
  BY DEF Parsing
<1>2. CASE Native!FeedToken
  <2>1. tokens # <<>> /\ Native!GfJsonFeed(Head(tokens)) /\ tokens' = Tail(tokens)
    BY <1>2 DEF Native!FeedToken
  <2>2. PICK after \in Seq(Brackets) :
          Bracket(open, Head(tokens), after) /\ Continues(Tail(tokens), after)
    BY <1>1, <2>1, GoesOn
  <2>3. PICK c : c = Head(tokens)
    OBVIOUS
  <2>4. Native!JsonInv(json', after)
    BY <1>1, <2>1, <2>2, <2>3, FeedToken
  <2>5. QED
    BY <2>1, <2>2, <2>4 DEF Parsing
<1>3. CASE Native!GfJsonFinish
  BY <1>1, <1>3, DoneIfCollecting DEF Native!GfJsonFinish, Parsing
<1>4. CASE Native!Stopped
  BY <1>1, <1>4 DEF Native!Stopped, Native!vars, Parsing
<1>5. QED
  BY <1>2, <1>3, <1>4 DEF Native!Next

\* json.c stays within the arrays of the list, whatever releases GitHub tells of
\* and wherever its answer is cut off.
THEOREM ArraysHold == Spec => []WithinArrays
<1>1. Init => NativeInv
  BY NativeInit
<1>2. NativeInv /\ [Next]_vars => NativeInv'
  <2>1. SUFFICES ASSUME NativeInv, [Next]_vars, backend' = "native" PROVE Parsing'
    BY DEF NativeInv
  <2>2. CASE Next
    <3>1. CASE backend = "native" /\ Native!Next /\ UNCHANGED <<backend, proxyVars>>
      BY <2>1, <3>1, NativeStep DEF NativeInv
    <3>2. CASE backend = "proxy" /\ Proxy!Next /\ UNCHANGED <<backend, nativeVars>>
      BY <2>1, <3>2
    <3>3. QED
      BY <2>2, <3>1, <3>2 DEF Next
  <2>3. CASE UNCHANGED vars
    BY <2>1, <2>3 DEF vars, nativeVars, NativeInv, Parsing
  <2>4. QED
    BY <2>1, <2>2, <2>3
<1>3. NativeInv => WithinArrays
  BY DEF NativeInv, Parsing, WithinArrays, Native!WithinArrays, Native!JsonInv
<1>4. QED
  BY <1>1, <1>2, <1>3, PTL DEF Spec

(***************************************************************************)
(* The lines of an answer without an error report no error, whatever is left *)
(* of the last one.                                                        *)
(***************************************************************************)

\* A line that reports no error, whatever is left of it.
Harmless(line) ==
  /\ Native!IsSeq(line)
  /\ line[1] # "#STATUS" \/ line = <<"#STATUS", "OK">>
AllHarmless(s) == Native!IsSeq(s) /\ \A k \in 1 .. Len(s) : Harmless(s[k])

\* A sequence of lines that report no error.
LEMMA HarmlessSeq ==
  ASSUME NEW U, \A line \in U : Harmless(line), NEW s \in Seq(U)
  PROVE  AllHarmless(s)
BY InSeq DEF AllHarmless

\* Such a sequence is one over its own lines.
LEMMA HarmlessMembers ==
  ASSUME NEW s, AllHarmless(s)
  PROVE  s \in Seq(ToSet(s)) /\ \A line \in ToSet(s) : Harmless(line)
BY DEF AllHarmless, Native!IsSeq, Native!ToSet, ToSet

\* One after the other.
LEMMA HarmlessJoined ==
  ASSUME NEW a, AllHarmless(a), NEW b, AllHarmless(b)
  PROVE  AllHarmless(a \o b)
<1> DEFINE U == ToSet(a) \cup ToSet(b)
<1>1. /\ a \in Seq(ToSet(a)) /\ \A line \in ToSet(a) : Harmless(line)
      /\ b \in Seq(ToSet(b)) /\ \A line \in ToSet(b) : Harmless(line)
  BY HarmlessMembers
<1>2. \A line \in U : Harmless(line)
  BY <1>1
<1>3. a \in Seq(U) /\ b \in Seq(U)
  BY <1>1, SeqMonotonic
<1> HIDE DEF U
<1>4. a \o b \in Seq(U)
  BY <1>3
<1>5. QED
  BY <1>2, <1>4, HarmlessSeq

\* Any number of them.
LEMMA HarmlessFlattened ==
  ASSUME NEW n \in Nat, NEW f, \A i \in 1 .. n : AllHarmless(f[i]), f = [i \in 1 .. n |-> f[i]]
  PROVE  AllHarmless(FlattenSeq(f))
<1> DEFINE U == UNION {ToSet(f[i]) : i \in 1 .. n}
<1>1. \A i \in 1 .. n : f[i] \in Seq(ToSet(f[i])) /\ \A line \in ToSet(f[i]) : Harmless(line)
  BY HarmlessMembers
<1>2. \A line \in U : Harmless(line)
  BY <1>1
<1>3. \A i \in 1 .. n : f[i] \in Seq(U)
  <2> TAKE i \in 1 .. n
  <2>1. ToSet(f[i]) \subseteq U
    OBVIOUS
  <2> HIDE DEF U
  <2>2. QED
    BY <1>1, <2>1, SeqMonotonic
<1> HIDE DEF U
<1>4. f \in Seq(Seq(U)) /\ Len(f) = n
  BY <1>3
<1>5. CASE f # <<>>
  <2>1. \A s, t \in Seq(U) : s \o t \in Seq(U)
    OBVIOUS
  <2>2. FlattenSeq(f) \in Seq(U)
    <3> DEFINE G == Seq(U)
    <3>1. f \in Seq(G) /\ \A s, t \in G : s \o t \in G
      BY <1>4, <2>1
    <3> HIDE DEF G
    <3>2. FlattenSeq(f) \in G
      BY <1>5, <3>1, Flattened
    <3>3. QED
      BY <3>2 DEF G
  <2>3. QED
    BY <1>2, <2>2, HarmlessSeq
<1>6. CASE f = <<>>
  <2>1. FlattenSeq(f) = <<>>
    BY <1>6 DEF FlattenSeq
  <2>2. QED
    BY <2>1, NoFiles DEF AllHarmless
<1>7. QED
  BY <1>5, <1>6

\* A line of its own.
LEMMA OneLine ==
  ASSUME NEW line, Harmless(line)
  PROVE  AllHarmless(<<line>>)
<1>1. <<line>> \in Seq({line})
  OBVIOUS
<1>2. QED
  BY <1>1, HarmlessSeq

\* The lines of a release, with its files.
LEMMA ReleaseQuiet ==
  ASSUME NEW r \in Native!Release, NEW i
  PROVE  AllHarmless(Proxy!ReleaseLines(r, i))
<1> DEFINE chosen == Proxy!SelectAssets(r.assets)
           n == Len(chosen.kept)
           zip    == r.zip # Proxy!NoText /\ n < MaxAssets
           lost   == chosen.skipped + IF r.zip # Proxy!NoText /\ ~zip THEN 1 ELSE 0
           l1 == <<"R", i, r.tag, Proxy!ProxyDate(r), r.prerelease, Proxy!ProxyTitle(r)>>
           file(k) == <<"A", i, k - 1, chosen.kept[k].name, chosen.kept[k].size,
                        chosen.kept[k].url>>
           l3 == <<"A", i, n, SourceName[r.tag], "0", r.zip>>
           l4 == <<"#MORE", i, lost>>
           s2 == [k \in 1 .. n |-> file(k)]
           s3 == IF zip THEN <<l3>> ELSE <<>>
           s4 == IF lost > 0 THEN <<l4>> ELSE <<>>
<1>1. n \in Nat
  <2>1. r.assets \in Seq(Native!Asset)
    BY DEF Native!Release
  <2>2. chosen \in Accepted(Native!Asset)
    BY <2>1, Selected
  <2> HIDE DEF chosen
  <2>3. QED
    BY <2>2 DEF Accepted
<1> HIDE DEF chosen, n, zip, lost
<1>2. Harmless(l1) /\ Harmless(l3) /\ Harmless(l4)
  <2>1. l1 \in Seq({"R", i, r.tag, Proxy!ProxyDate(r), r.prerelease, Proxy!ProxyTitle(r)})
    OBVIOUS
  <2>2. l3 \in Seq({"A", i, n, SourceName[r.tag], "0", r.zip})
    OBVIOUS
  <2>3. l4 \in Seq({"#MORE", i, lost})
    OBVIOUS
  <2>4. l1[1] = "R" /\ l3[1] = "A" /\ l4[1] = "#MORE"
    OBVIOUS
  <2> HIDE DEF l1, l3, l4
  <2>5. QED
    BY <2>1, <2>2, <2>3, <2>4, InSeq DEF Harmless
<1>3. \A k : Harmless(file(k))
  <2> TAKE k
  <2>1. file(k) \in Seq({"A", i, k - 1, chosen.kept[k].name, chosen.kept[k].size,
                        chosen.kept[k].url})
    OBVIOUS
  <2>2. file(k)[1] = "A"
    OBVIOUS
  <2> HIDE DEF file
  <2>3. QED
    BY <2>1, <2>2, InSeq DEF Harmless
<1>4. AllHarmless(s2)
  <2> HIDE DEF file
  <2>1. s2 \in Seq({file(k) : k \in 1 .. n})
    BY <1>1
  <2> HIDE DEF s2
  <2>2. QED
    BY <1>3, <2>1, HarmlessSeq
<1>5. Proxy!ReleaseLines(r, i) = <<l1>> \o s2 \o s3 \o s4
  BY DEF Proxy!ReleaseLines, chosen, n, zip, lost
<1> HIDE DEF l1, l3, l4, file, s2
<1>6. AllHarmless(<<>>)
  BY NoFiles DEF AllHarmless
<1>7. AllHarmless(<<l1>>) /\ AllHarmless(s3) /\ AllHarmless(s4)
  BY <1>2, <1>6, OneLine
<1> HIDE DEF s3, s4
<1>8. AllHarmless(<<l1>> \o s2 \o s3 \o s4)
  BY <1>4, <1>7, HarmlessJoined
<1>9. QED
  BY <1>5, <1>8

\* build_releases leaves drafts out and adds nothing.
LEMMA Publishing ==
  ASSUME NEW S, NEW a \in Seq(S)
  PROVE  Proxy!Published(a) \in Seq(S)
<1> DEFINE parts == [i \in 1 .. Len(a) |-> IF a[i].draft = "true" THEN <<>> ELSE <<a[i]>>]
           G     == Seq(S)
<1>1. Proxy!Published(a) = FlattenSeq(parts)
  BY DEF Proxy!Published, Proxy!FlattenSeq, FlattenSeq
<1>2. Len(a) \in Nat /\ \A i \in 1 .. Len(a) : a[i] \in S
  OBVIOUS
<1>3. parts \in Seq(G) /\ \A s, t \in G : s \o t \in G
  BY <1>2
<1>4. <<>> \in G
  OBVIOUS
<1> HIDE DEF parts, G
<1>5. CASE parts # <<>>
  BY <1>1, <1>3, <1>5, Flattened DEF G
<1>6. CASE parts = <<>>
  BY <1>1, <1>4, <1>6 DEF FlattenSeq, G
<1>7. QED
  BY <1>5, <1>6

\* The lines of a whole list.
LEMMA ListQuiet ==
  ASSUME NEW a \in Seq(Native!Release)
  PROVE  AllHarmless(Proxy!BuildReleases(a))
<1> DEFINE shown == Proxy!Published(a)
           parts == [i \in 1 .. Len(shown) |-> Proxy!ReleaseLines(shown[i], i - 1)]
           l1 == <<"#GITFETCH">>
           l2 == <<"#STATUS", "OK">>
           l3 == <<"#REPO", "owner/repo">>
           l4 == <<"#END">>
<1>1. Len(shown) \in Nat /\ \A i \in 1 .. Len(shown) : shown[i] \in Native!Release
  BY Publishing
<1>2. Proxy!BuildReleases(a) = <<l1, l2, l3>> \o FlattenSeq(parts) \o <<l4>>
  BY DEF Proxy!BuildReleases, Proxy!FlattenSeq, FlattenSeq
<1> HIDE DEF shown
<1>3. AllHarmless(FlattenSeq(parts))
  <2>1. \A i \in 1 .. Len(shown) : AllHarmless(Proxy!ReleaseLines(shown[i], i - 1))
    BY <1>1, ReleaseQuiet
  <2>2. parts = [i \in 1 .. Len(shown) |-> parts[i]]
    OBVIOUS
  <2>3. \A i \in 1 .. Len(shown) : AllHarmless(parts[i])
    BY <2>1
  <2> HIDE DEF parts
  <2>4. QED
    BY <1>1, <2>2, <2>3, HarmlessFlattened
<1>4. Harmless(l1) /\ Harmless(l2) /\ Harmless(l3) /\ Harmless(l4)
  <2>1. l1 \in Seq({"#GITFETCH"}) /\ l4 \in Seq({"#END"})
    OBVIOUS
  <2>2. l2 \in Seq({"#STATUS", "OK"}) /\ l3 \in Seq({"#REPO", "owner/repo"})
    OBVIOUS
  <2>3. l1[1] = "#GITFETCH" /\ l3[1] = "#REPO" /\ l4[1] = "#END"
    OBVIOUS
  <2>4. QED
    BY <2>1, <2>2, <2>3, InSeq DEF Harmless
<1> HIDE DEF parts, l1, l2, l3, l4
<1>5. AllHarmless(<<l1, l2, l3>>) /\ AllHarmless(<<l4>>)
  <2>1. <<l1, l2, l3>> \in Seq({l1, l2, l3})
    OBVIOUS
  <2>2. QED
    BY <1>4, <2>1, HarmlessSeq, OneLine
<1>6. QED
  BY <1>2, <1>3, <1>5, HarmlessJoined

(***************************************************************************)
(* parse.c: only a status line that reports an error sets the status.      *)
(***************************************************************************)

\* struct GFParser, as far as errors go.
Whole(s) == DOMAIN s = DOMAIN Proxy!GfParserInit

\* The fields of struct GFParser.
LEMMA WholeParser ==
  ASSUME NEW s, Whole(s)
  PROVE  DOMAIN s = {"sawHeader", "sawEnd", "status", "message", "dropped", "repo", "list"}
BY DEF Whole, Proxy!GfParserInit

\* Nothing but a status that reports an error changes the status or the message.
Untouched(s, t) == Whole(t) /\ t.status = s.status /\ t.message = s.message

\* A line that reports no error changes neither the status nor the message.
LEMMA Quiet ==
  ASSUME NEW s, Whole(s), NEW line,
         line[1] # "#STATUS" \/ Proxy!NextField(line, 2) # "ERR"
  PROVE  Untouched(s, Proxy!HandleLine(s, line))
<1>1. Untouched(s, s)
  BY DEF Untouched
<1>2. Untouched(s, [s EXCEPT !.sawHeader = TRUE]) /\ Untouched(s, [s EXCEPT !.sawEnd = TRUE])
  BY WholeParser DEF Untouched, Whole
<1>3. Untouched(s, [s EXCEPT !.repo = Proxy!Copy(Proxy!NextField(line, 2))])
  BY WholeParser DEF Untouched, Whole
<1>4. Untouched(s, Proxy!Dropped(s))
  BY WholeParser DEF Untouched, Whole, Proxy!Dropped
<1>5. ASSUME NEW l PROVE Untouched(s, [s EXCEPT !.list = l])
  BY WholeParser DEF Untouched, Whole
<1>6. Untouched(s, Proxy!HandleRelease(s, line))
  BY <1>4, <1>5 DEF Proxy!HandleRelease
<1>7. Untouched(s, Proxy!HandleAsset(s, line))
  BY <1>4, <1>5 DEF Proxy!HandleAsset
<1>8. Untouched(s, Proxy!HandleMore(s, line))
  BY <1>1, <1>5 DEF Proxy!HandleMore
<1>9. line[1] = "#STATUS" => Untouched(s, Proxy!HandleStatus(s, line))
  BY <1>1 DEF Proxy!HandleStatus
<1>10. QED
  BY <1>1, <1>2, <1>3, <1>4, <1>6, <1>7, <1>8, <1>9 DEF Proxy!HandleLine

\* A harmless line is one of those.
LEMMA HarmlessIsQuiet ==
  ASSUME NEW line, Harmless(line)
  PROVE  line[1] # "#STATUS" \/ Proxy!NextField(line, 2) # "ERR"
<1>1. Len(<<"#STATUS", "OK">>) = 2 /\ <<"#STATUS", "OK">>[2] = "OK"
  OBVIOUS
<1>2. QED
  BY <1>1 DEF Harmless, Proxy!NextField

\* So does what is left of a harmless line.
LEMMA CutIsQuiet ==
  ASSUME NEW line, Harmless(line), NEW form \in Proxy!CutForms(line)
  PROVE  form[1] # "#STATUS" \/ Proxy!NextField(form, 2) # "ERR"
<1>1. CASE form = line
  BY <1>1, HarmlessIsQuiet
<1>2. CASE \E k \in 1 .. Len(line) : \E f \in Proxy!CutField(line, k) :
             form = Append(SubSeq(line, 1, k - 1), f)
  <2>1. PICK k \in 1 .. Len(line) : \E f \in Proxy!CutField(line, k) :
               form = Append(SubSeq(line, 1, k - 1), f)
    BY <1>2
  <2>2. PICK f \in Proxy!CutField(line, k) : form = Append(SubSeq(line, 1, k - 1), f)
    BY <2>1
  <2>3. line \in Seq(ToSet(line))
    BY DEF Harmless, Native!IsSeq, Native!ToSet, ToSet
  <2>4. CASE k = 1
    <3>1. SubSeq(line, 1, k - 1) = <<>>
      BY <2>3, <2>4
    <3>2. form[1] = f
      BY <2>2, <3>1
    <3>3. f \in {"#", Proxy!Part}
      BY <2>2, <2>4 DEF Proxy!CutField
    <3>4. QED
      BY <3>2, <3>3 DEF Proxy!Part
  <2> DEFINE g == SubSeq(line, 1, k - 1)
  <2>5. ASSUME k # 1
        PROVE  form[1] = line[1] /\ Len(form) = k /\ form[k] = f
    <3>1. g \in Seq(ToSet(line)) /\ Len(g) = k - 1 /\ g[1] = line[1]
      <4>1. k - 1 \in 1 .. Len(line) /\ \A i \in 1 .. Len(line) : line[i] \in ToSet(line)
        BY <2>3, <2>5
      <4>2. QED
        BY <2>3, <4>1
    <3> HIDE DEF g
    <3>2. PICK n \in Nat : n = k - 1
      <4>1. k - 1 \in Nat
        OBVIOUS
      <4>2. QED
        BY <4>1
    <3>3. Len(g) = n /\ n # 0 /\ k = n + 1
      BY <2>5, <3>1, <3>2
    <3>4. /\ Append(g, f)[1] = g[1] /\ Len(Append(g, f)) = n + 1
          /\ Append(g, f)[n + 1] = f
      BY <3>1, <3>3, AppendSeq, InSeq
    <3>5. QED
      BY <2>2, <3>1, <3>3, <3>4 DEF g
  <2>6. CASE k # 1 /\ line[1] # "#STATUS"
    BY <2>5, <2>6
  <2>7. CASE k # 1 /\ line = <<"#STATUS", "OK">>
    <3>1. k = 2 /\ line[1] = "#STATUS"
      BY <2>7
    <3>2. f \in {Proxy!NoText, Proxy!Part}
      BY <2>2, <3>1 DEF Proxy!CutField, Proxy!Numeric
    <3>3. Len(form) = 2 /\ form[2] = f
      BY <2>5, <2>7, <3>1
    <3>4. Proxy!NoText # "ERR" /\ Proxy!Part # "ERR"
      BY DEF Proxy!NoText, Proxy!Part
    <3>5. QED
      BY <3>2, <3>3, <3>4 DEF Proxy!NextField
  <2>8. QED
    BY <2>4, <2>6, <2>7 DEF Harmless
<1>3. QED
  BY <1>1, <1>2 DEF Proxy!CutForms

\* No line changes the fields there are.
LEMMA AlwaysWhole ==
  ASSUME NEW s, Whole(s), NEW line
  PROVE  Whole(Proxy!HandleLine(s, line))
<1>1. CASE line[1] # "#STATUS"
  BY <1>1, Quiet DEF Untouched
<1>2. CASE line[1] = "#STATUS"
  <2>1. Whole(Proxy!HandleStatus(s, line))
    BY WholeParser DEF Whole, Proxy!HandleStatus
  <2>2. QED
    BY <1>2, <2>1 DEF Proxy!HandleLine
<1>3. QED
  BY <1>1, <1>2

(***************************************************************************)
(* The invariant of the proxy backend.                                     *)
(***************************************************************************)

\* The texts that stand for none, or for a field that is not there.
LEMMA NoTexts ==
  /\ Proxy!NoText = NoText /\ NoText # "SERVER" /\ Proxy!Missing # "OK"
  /\ \A e \in Errors : e.message # NoText /\ e.message # Proxy!Missing
<1>1. Proxy!NoText = NoText
  BY DEF Proxy!NoText, NoText
<1>2. NoText # "SERVER"
  BY DEF NoText
<1>3. Proxy!Missing # "OK"
  BY DEF Proxy!Missing
<1>4. QED
  BY <1>1, <1>2, <1>3, ErrorsAssumption

\* The lines that report e, one of them perhaps too long.
ErrorLines(e) == {<<"#GITFETCH">>, <<"#STATUS", "ERR", e.code, e.message>>, <<"#END">>,
                  <<"(too long)">>}

\* A line of an error reports that error or nothing.
LEMMA Reported ==
  ASSUME NEW s, Whole(s), NEW e \in Errors, NEW line \in ErrorLines(e)
  PROVE  LET t == Proxy!HandleLine(s, line) IN Untouched(s, t) \/ t.message = e.message
<1>1. CASE line = <<"#STATUS", "ERR", e.code, e.message>>
  <2>1. /\ line[1] = "#STATUS" /\ Proxy!NextField(line, 2) = "ERR"
        /\ Proxy!NextField(line, 4) = e.message
    BY <1>1 DEF Proxy!NextField
  <2>2. Proxy!HandleStatus(s, line).message = e.message
    BY <2>1, NoTexts, WholeParser DEF Proxy!HandleStatus, Proxy!Copy
  <2>3. QED
    BY <2>1, <2>2 DEF Proxy!HandleLine
<1>2. CASE line = <<"#GITFETCH">> \/ line = <<"#END">> \/ line = <<"(too long)">>
  <2>1. CASE line = <<"#GITFETCH">>
    BY <2>1, Quiet
  <2>2. CASE line = <<"#END">>
    BY <2>2, Quiet
  <2>3. CASE line = <<"(too long)">>
    BY <2>3, Quiet
  <2>4. QED
    BY <1>2, <2>1, <2>2, <2>3
<1>3. QED
  BY <1>1, <1>2 DEF ErrorLines

\* The bodies the proxy sends.
LEMMA SentBody ==
  ASSUME NEW b \in Proxy!Bodies
  PROVE  \/ b.kind = "list" /\ b.of \in Answers
         \/ b.kind = "error" /\ b.of \in Errors
         \/ b.kind = "other"
BY DEF Proxy!Bodies

\* A body that is not an error has harmless lines.
LEMMA HarmlessLines ==
  ASSUME NEW b \in Proxy!Bodies, b.kind # "error"
  PROVE  AllHarmless(Proxy!LinesOf(b))
<1>1. CASE b.kind = "list" /\ b.of \in Answers
  <2>1. b.of \in Seq(Native!Release)
    BY <1>1, AnswersAssumption DEF Release, Asset, Native!Release, Native!Asset
  <2>2. QED
    BY <1>1, <2>1, ListQuiet DEF Proxy!LinesOf
<1>2. CASE b.kind = "other"
  <2> DEFINE l == <<"<html>">>
  <2>1. l \in Seq({"<html>"}) /\ l[1] # "#STATUS"
    OBVIOUS
  <2> HIDE DEF l
  <2>2. AllHarmless(<<l>>)
    BY <2>1, InSeq, OneLine DEF Harmless
  <2>3. Proxy!LinesOf(b) = <<l>>
    BY <1>2 DEF Proxy!LinesOf, l
  <2>4. QED
    BY <2>2, <2>3
<1>3. QED
  BY <1>1, <1>2, SentBody

\* The lines that are left are of the body that was sent.
ProxyShape ==
  /\ sent \in Proxy!Bodies /\ Whole(parser)
  /\ sent.kind # "error" => AllHarmless(lines)
  /\ sent.kind = "error" => lines \in Seq(ErrorLines(sent.of))

\* What is known of the error; the message of a status line waits in the parser
\* until gf_parser_finish.
Explained ==
  /\ result # "SERVER" => serverMessage = NoText
  /\ sent.kind # "error" => parser.status = "0" /\ result # "SERVER"
  /\ sent.kind = "error" /\ result = NoText =>
       parser.status = "0" \/ parser.message = sent.of.message
  /\ result = "SERVER" /\ lines = <<>> => serverMessage = sent.of.message

ProxyInv == backend = "proxy" => ProxyShape /\ Explained

\* The invariant holds at the start, with one line too long or none.
LEMMA ProxyInit == Init => ProxyInv
<1>1. SUFFICES ASSUME Init, backend = "proxy" PROVE ProxyShape /\ Explained
  BY DEF ProxyInv
<1>2. /\ sent \in Proxy!Bodies /\ parser = Proxy!GfParserInit
      /\ result = NoText /\ serverMessage = NoText
  BY <1>1, NoTexts DEF Init, Proxy!Init
<1> DEFINE L == Proxy!LinesOf(sent)
<1>3. PICK i \in 0 .. Len(L) :
        lines = [k \in 1 .. Len(L) |-> IF k = i THEN <<"(too long)">> ELSE L[k]]
  BY <1>1 DEF Init, Proxy!Init
<1> HIDE DEF L
<1>4. Whole(parser) /\ parser.status = "0"
  BY <1>2 DEF Whole, Proxy!GfParserInit
<1>5. ASSUME sent.kind # "error" PROVE AllHarmless(lines)
  <2>1. AllHarmless(L)
    BY <1>2, <1>5, HarmlessLines DEF L
  <2> DEFINE l == <<"(too long)">>
             U == ToSet(L) \cup {l}
  <2>2. l \in Seq({"(too long)"}) /\ l[1] # "#STATUS"
    OBVIOUS
  <2>3. Harmless(l)
    BY <2>2, InSeq DEF Harmless
  <2>4. L \in Seq(ToSet(L)) /\ \A line \in ToSet(L) : Harmless(line)
    BY <2>1, HarmlessMembers
  <2> HIDE DEF l
  <2>5. lines = [k \in 1 .. Len(L) |-> IF k = i THEN l ELSE L[k]]
    BY <1>3 DEF l
  <2>6. lines \in Seq(U)
    BY <2>4, <2>5
  <2>7. \A line \in U : Harmless(line)
    BY <2>3, <2>4
  <2> HIDE DEF U
  <2>8. QED
    BY <2>6, <2>7, HarmlessSeq
<1>6. ASSUME sent.kind = "error" PROVE lines \in Seq(ErrorLines(sent.of))
  <2> DEFINE e == sent.of
             l1 == <<"#GITFETCH">>
             l2 == <<"#STATUS", "ERR", e.code, e.message>>
             l3 == <<"#END">>
             l4 == <<"(too long)">>
  <2>1. L = <<l1, l2, l3>>
    BY <1>6 DEF L, Proxy!LinesOf, Proxy!BuildError
  <2>2. ErrorLines(e) = {l1, l2, l3, l4}
    BY DEF ErrorLines
  <2>3. lines = [k \in 1 .. Len(L) |-> IF k = i THEN l4 ELSE L[k]]
    BY <1>3
  <2> HIDE DEF l1, l2, l3, l4
  <2>4. Len(L) = 3 /\ \A k \in 1 .. 3 : L[k] \in {l1, l2, l3}
    BY <2>1
  <2>5. lines \in Seq({l1, l2, l3, l4})
    BY <2>3, <2>4
  <2>6. QED
    BY <2>2, <2>5
<1>7. ProxyShape
  BY <1>2, <1>4, <1>5, <1>6 DEF ProxyShape
<1>8. Explained
  BY <1>2, <1>4, NoTexts DEF Explained
<1>9. QED
  BY <1>7, <1>8

\* gf_parser_finish for a parser that holds q.
LEMMA FinishedStep ==
  ASSUME ProxyShape, Explained, result = NoText, NEW q, Whole(q), Proxy!Finished(q),
         UNCHANGED <<sent, lines>>,
         sent.kind # "error" => q.status = "0",
         sent.kind = "error" /\ lines = <<>> => q.status = "0" \/ q.message = sent.of.message
  PROVE  (ProxyShape /\ Explained)'
<1>1. /\ parser' = q /\ result' = Proxy!FinishCode(q)
      /\ serverMessage' = IF Proxy!FinishCode(q) = "SERVER" /\ q.message # Proxy!NoText
                          THEN q.message ELSE serverMessage
  BY DEF Proxy!Finished
<1>2. /\ Proxy!FinishCode(q) \in {"PROTO", "SERVER", "OK"}
      /\ Proxy!FinishCode(q) = "SERVER" => q.status # "0"
  BY DEF Proxy!FinishCode
<1>3. ProxyShape'
  BY <1>1 DEF ProxyShape, Whole
<1>4. serverMessage = NoText
  BY NoTexts DEF Explained
<1>5. \A x \in {"PROTO", "SERVER", "OK"} : x # NoText
  BY DEF NoText
<1>6. result' # NoText
  BY <1>1, <1>2, <1>5
<1>7. result' # "SERVER" => serverMessage' = NoText
  BY <1>1, <1>4
<1>8. sent'.kind # "error" => parser'.status = "0" /\ result' # "SERVER"
  BY <1>1, <1>2
<1>9. ASSUME result' = "SERVER", lines' = <<>> PROVE serverMessage' = sent'.of.message
  <2>1. sent.kind = "error" /\ q.status # "0"
    BY <1>1, <1>2, <1>9
  <2>2. sent.of \in Errors
    BY <2>1, SentBody DEF ProxyShape
  <2>3. q.message = sent.of.message
    BY <1>9, <2>1
  <2>4. QED
    BY <1>1, <1>9, <2>2, <2>3, NoTexts
<1>10. Explained'
  BY <1>6, <1>7, <1>8, <1>9 DEF Explained
<1>11. QED
  BY <1>3, <1>10

\* Every step of the proxy backend keeps it.
LEMMA ProxyStep ==
  ASSUME ProxyShape, Explained, Proxy!Next
  PROVE  (ProxyShape /\ Explained)'
<1>1. Whole(parser) /\ sent \in Proxy!Bodies
  BY DEF ProxyShape
<1>2. ASSUME sent.kind = "error" PROVE sent.of \in Errors
  BY <1>1, <1>2, SentBody
<1>3. CASE Proxy!Feed
  <2>1. /\ result = NoText /\ lines # <<>> /\ parser' = Proxy!HandleLine(parser, Head(lines))
        /\ lines' = Tail(lines) /\ UNCHANGED <<sent, result, serverMessage>>
    BY <1>3, NoTexts DEF Proxy!Feed
  <2>2. Whole(parser')
    BY <1>1, <2>1, AlwaysWhole
  <2>3. ASSUME sent.kind # "error" PROVE AllHarmless(lines') /\ parser'.status = "0"
    <3>1. AllHarmless(lines) /\ parser.status = "0"
      BY <2>3 DEF ProxyShape, Explained
    <3>2. lines \in Seq(ToSet(lines)) /\ \A line \in ToSet(lines) : Harmless(line)
      BY <3>1, HarmlessMembers
    <3>3. Tail(lines) \in Seq(ToSet(lines)) /\ Head(lines) \in ToSet(lines)
      BY <2>1, <3>2
    <3>4. AllHarmless(lines')
      BY <2>1, <3>2, <3>3, HarmlessSeq
    <3>5. PICK line : line = Head(lines)
      OBVIOUS
    <3>6. Untouched(parser, parser')
      BY <1>1, <2>1, <3>2, <3>3, <3>5, HarmlessIsQuiet, Quiet
    <3>7. QED
      BY <3>1, <3>4, <3>6 DEF Untouched
  <2>4. ASSUME sent.kind = "error"
        PROVE  /\ lines' \in Seq(ErrorLines(sent.of))
               /\ parser'.status = "0" \/ parser'.message = sent.of.message
    <3>1. /\ lines \in Seq(ErrorLines(sent.of))
          /\ parser.status = "0" \/ parser.message = sent.of.message
      BY <2>1, <2>4 DEF ProxyShape, Explained
    <3>2. Tail(lines) \in Seq(ErrorLines(sent.of)) /\ Head(lines) \in ErrorLines(sent.of)
      BY <2>1, <3>1
    <3>3. Untouched(parser, parser') \/ parser'.message = sent.of.message
      BY <1>1, <1>2, <2>1, <2>4, <3>2, Reported
    <3>4. QED
      BY <2>1, <3>1, <3>2, <3>3 DEF Untouched
  <2>5. ProxyShape'
    BY <1>1, <2>1, <2>2, <2>3, <2>4 DEF ProxyShape
  <2>6. Explained'
    <3>1. result' # "SERVER" /\ serverMessage' = NoText
      BY <2>1, NoTexts DEF Explained
    <3>2. QED
      BY <2>1, <2>3, <2>4, <3>1 DEF Explained
  <2>7. QED
    BY <2>5, <2>6
<1>4. CASE Proxy!End
  <2>1. result = NoText /\ UNCHANGED <<sent, lines>>
    BY <1>4, NoTexts DEF Proxy!End
  <2>2. /\ sent.kind # "error" => parser.status = "0"
        /\ sent.kind = "error" => parser.status = "0" \/ parser.message = sent.of.message
    BY <2>1 DEF Explained
  <2>3. CASE Proxy!Finished(parser)
    BY <1>1, <2>1, <2>2, <2>3, FinishedStep
  <2>4. CASE /\ lines # <<>>
             /\ \E line \in Proxy!CutForms(Head(lines)) :
                  Proxy!Finished(Proxy!HandleLine(parser, line))
    <3>1. PICK line \in Proxy!CutForms(Head(lines)) :
                 Proxy!Finished(Proxy!HandleLine(parser, line))
      BY <2>4
    <3> DEFINE q == Proxy!HandleLine(parser, line)
    <3>2. Whole(q)
      BY <1>1, AlwaysWhole
    <3>3. ASSUME sent.kind # "error" PROVE q.status = "0"
      <4>1. AllHarmless(lines) /\ parser.status = "0"
        BY <3>3 DEF ProxyShape, Explained
      <4>2. lines \in Seq(ToSet(lines)) /\ \A l \in ToSet(lines) : Harmless(l)
        BY <4>1, HarmlessMembers
      <4>3. Harmless(Head(lines))
        BY <2>4, <4>2
      <4>4. line[1] # "#STATUS" \/ Proxy!NextField(line, 2) # "ERR"
        BY <3>1, <4>3, CutIsQuiet
      <4>5. Untouched(parser, q)
        BY <1>1, <4>4, Quiet
      <4> HIDE DEF q
      <4>6. QED
        BY <4>1, <4>5 DEF Untouched
    <3>4. Proxy!Finished(q)
      BY <3>1
    <3> HIDE DEF q
    <3>5. QED
      BY <2>1, <2>4, <3>2, <3>3, <3>4, FinishedStep
  <2>5. QED
    BY <1>4, <2>3, <2>4 DEF Proxy!End
<1>5. CASE Proxy!Fail
  <2>1. /\ result = NoText /\ result' = "NET"
        /\ UNCHANGED <<sent, lines, parser, serverMessage>>
    BY <1>5, NoTexts DEF Proxy!Fail
  <2>2. "NET" # NoText
    BY DEF NoText
  <2>3. ProxyShape'
    BY <2>1 DEF ProxyShape
  <2>4. Explained'
    BY <2>1, <2>2, NoTexts DEF Explained
  <2>5. QED
    BY <2>3, <2>4
<1>6. CASE Proxy!Stopped
  <2>1. UNCHANGED <<sent, lines, parser, result, serverMessage>>
    BY <1>6 DEF Proxy!Stopped, Proxy!vars
  <2>2. QED
    BY <2>1 DEF ProxyShape, Explained
<1>7. QED
  BY <1>3, <1>4, <1>5, <1>6 DEF Proxy!Next

\* What the user is told of an error is what the proxy said of it, whatever the
\* answers and wherever its body is cut off.
THEOREM ErrorIsExplained == Spec => []ErrorExplained
<1>1. Init => ProxyInv
  BY ProxyInit
<1>2. ProxyInv /\ [Next]_vars => ProxyInv'
  <2>1. SUFFICES ASSUME ProxyInv, [Next]_vars, backend' = "proxy" PROVE (ProxyShape /\ Explained)'
    BY DEF ProxyInv
  <2>2. CASE Next
    <3>1. CASE backend = "native" /\ Native!Next /\ UNCHANGED <<backend, proxyVars>>
      BY <2>1, <3>1
    <3>2. CASE backend = "proxy" /\ Proxy!Next /\ UNCHANGED <<backend, nativeVars>>
      BY <2>1, <3>2, ProxyStep DEF ProxyInv
    <3>3. QED
      BY <2>2, <3>1, <3>2 DEF Next
  <2>3. CASE UNCHANGED vars
    <3>1. backend = "proxy" /\ ProxyShape /\ Explained
      BY <2>1, <2>3 DEF ProxyInv, vars
    <3>2. UNCHANGED <<sent, lines, parser, result, serverMessage>>
      BY <2>3 DEF vars, proxyVars
    <3>3. QED
      BY <3>1, <3>2 DEF ProxyShape, Explained
  <2>4. QED
    BY <2>1, <2>2, <2>3
<1>3. ProxyInv => ErrorExplained
  <2>1. SUFFICES ASSUME backend = "proxy", ProxyShape, Explained PROVE Proxy!ErrorExplained
    BY DEF ProxyInv, ErrorExplained
  <2>2. serverMessage # Proxy!NoText => result = "SERVER"
    BY <2>1, NoTexts DEF Explained
  <2>3. result = "SERVER" => sent.kind = "error"
    BY <2>1 DEF Explained
  <2>4. QED
    BY <2>1, <2>2, <2>3 DEF Proxy!ErrorExplained, Explained
<1>4. QED
  BY <1>1, <1>2, <1>3, PTL DEF Spec

(***************************************************************************)
(* How many files there are, and where a file comes among those that stay. *)
(***************************************************************************)

\* The files of a rank are counted one by one.
LEMMA Counts ==
  ASSUME NEW items, NEW rank, NEW n \in Nat
  PROVE  /\ CountUpTo(items, n, rank) \in Nat
         /\ CountUpTo(items, 0, rank) = 0
         /\ CountUpTo(items, n + 1, rank) =
              CountUpTo(items, n, rank) + IF Rank(items[n + 1].name) = rank THEN 1 ELSE 0
<1> DEFINE P(i) == {j \in 1 .. i : Rank(items[j].name) = rank}
<1>1. ASSUME NEW i \in Nat PROVE IsFiniteSet(P(i))
  <2>1. IsFiniteSet(1 .. i)
    BY FS_Interval
  <2>2. P(i) \subseteq 1 .. i
    OBVIOUS
  <2>3. QED
    BY <2>1, <2>2, FS_Subset
<1>2. Cardinality(P(n)) \in Nat
  BY <1>1, FS_CardinalityType
<1>3. P(0) = {}
  OBVIOUS
<1>4. n + 1 \notin P(n)
  OBVIOUS
<1>5. Rank(items[n + 1].name) = rank => P(n + 1) = P(n) \cup {n + 1}
  OBVIOUS
<1>6. Rank(items[n + 1].name) # rank => P(n + 1) = P(n)
  OBVIOUS
<1>7. \A i : CountUpTo(items, i, rank) = Cardinality(P(i))
  BY DEF CountUpTo
<1>8. Cardinality(P(0)) = 0
  BY <1>3, FS_EmptySet
<1> HIDE DEF P
<1>9. P(n + 1) = P(n) \cup {n + 1} => Cardinality(P(n + 1)) = Cardinality(P(n)) + 1
  BY <1>1, <1>4, FS_AddElement
<1>10. QED
  BY <1>2, <1>5, <1>6, <1>7, <1>8, <1>9

\* The lesser of two numbers.
AtMost(x, y) == IF x <= y THEN x ELSE y

\* It grows with the first up to the second.
LEMMA AtMostNext ==
  ASSUME NEW x \in Nat, NEW y \in Nat
  PROVE  /\ AtMost(x, y) \in Nat /\ AtMost(0, y) = 0
         /\ AtMost(x + 1, y) = AtMost(x, y) + IF x + 1 <= y THEN 1 ELSE 0
BY DEF AtMost

\* Where the i-th file comes, and whether it stays, when there is room for others
\* files that are no archives.
Place(items, i, others) == AtMost(CountUpTo(items, i, 2), MaxAssets)
                             + AtMost(CountUpTo(items, i, 1), others)
Kept(items, i, others) == IF Rank(items[i].name) = 2
                          THEN CountUpTo(items, i, 2) <= MaxAssets
                          ELSE CountUpTo(items, i, 1) <= others

\* A file that stays takes one place.
LEMMA PlaceNext ==
  ASSUME NEW items, NEW others \in Nat, NEW n \in Nat
  PROVE  Place(items, n + 1, others) =
           Place(items, n, others) + IF Kept(items, n + 1, others) THEN 1 ELSE 0
<1> DEFINE A(i) == CountUpTo(items, i, 2)
           O(i) == CountUpTo(items, i, 1)
           r    == Rank(items[n + 1].name)
<1>1. /\ A(n) \in Nat /\ A(n + 1) = A(n) + IF r = 2 THEN 1 ELSE 0
      /\ O(n) \in Nat /\ O(n + 1) = O(n) + IF r = 1 THEN 1 ELSE 0
  BY Counts
<1>2. MaxAssets \in Nat
  BY ChoiceAssumption
<1>3. /\ Place(items, n, others) = AtMost(A(n), MaxAssets) + AtMost(O(n), others)
      /\ Place(items, n + 1, others) = AtMost(A(n + 1), MaxAssets) + AtMost(O(n + 1), others)
  BY DEF Place
<1>4. Kept(items, n + 1, others) <=> IF r = 2 THEN A(n + 1) <= MaxAssets ELSE O(n + 1) <= others
  BY DEF Kept
<1>5. r \in {1, 2}
  BY DEF Rank
<1> HIDE DEF A, O, r
<1>6. /\ AtMost(A(n), MaxAssets) \in Nat /\ AtMost(O(n), others) \in Nat
      /\ AtMost(A(n) + 1, MaxAssets) = AtMost(A(n), MaxAssets)
                                         + IF A(n) + 1 <= MaxAssets THEN 1 ELSE 0
      /\ AtMost(O(n) + 1, others) = AtMost(O(n), others) + IF O(n) + 1 <= others THEN 1 ELSE 0
  BY <1>1, <1>2, AtMostNext
<1>7. CASE r = 2
  <2>1. A(n + 1) = A(n) + 1 /\ O(n + 1) = O(n)
    BY <1>1, <1>7
  <2>2. Place(items, n + 1, others) = AtMost(A(n) + 1, MaxAssets) + AtMost(O(n), others)
    BY <1>3, <2>1
  <2>3. Kept(items, n + 1, others) <=> A(n) + 1 <= MaxAssets
    BY <1>4, <1>7, <2>1
  <2>4. QED
    BY <1>3, <1>6, <2>2, <2>3
<1>8. CASE r = 1
  <2>1. A(n + 1) = A(n) /\ O(n + 1) = O(n) + 1
    BY <1>1, <1>8
  <2>2. Place(items, n + 1, others) = AtMost(A(n), MaxAssets) + AtMost(O(n) + 1, others)
    BY <1>3, <2>1
  <2>3. Kept(items, n + 1, others) <=> O(n) + 1 <= others
    <3>1. r # 2
      BY <1>8
    <3>2. Kept(items, n + 1, others) <=> O(n + 1) <= others
      BY <1>4, <3>1
    <3>3. QED
      BY <2>1, <3>2
  <2>4. QED
    BY <1>3, <1>6, <2>2, <2>3
<1>9. QED
  BY <1>5, <1>7, <1>8

\* Places are numbers, and the first is 1.
LEMMA Places ==
  ASSUME NEW items, NEW others \in Nat, NEW n \in Nat
  PROVE  Place(items, n, others) \in Nat /\ Place(items, 0, others) = 0
<1>1. /\ CountUpTo(items, n, 1) \in Nat /\ CountUpTo(items, 0, 1) = 0
      /\ CountUpTo(items, n, 2) \in Nat /\ CountUpTo(items, 0, 2) = 0
  BY Counts
<1>2. MaxAssets \in Nat
  BY ChoiceAssumption
<1>3. /\ AtMost(CountUpTo(items, n, 2), MaxAssets) \in Nat /\ AtMost(0, MaxAssets) = 0
      /\ AtMost(CountUpTo(items, n, 1), others) \in Nat /\ AtMost(0, others) = 0
  BY <1>1, <1>2, AtMostNext
<1>4. QED
  BY <1>1, <1>3 DEF Place

\* Later files come later.
LEMMA PlacesGrow ==
  ASSUME NEW items, NEW others \in Nat, NEW i \in Nat, NEW n \in Nat, i <= n
  PROVE  Place(items, i, others) <= Place(items, n, others)
<1> DEFINE P(k) == Place(items, i, others) <= Place(items, i + k, others)
           T == {k \in Nat : P(k)}
<1>1. 0 \in T
  <2>1. Place(items, i, others) \in Nat
    BY Places
  <2>2. i + 0 = i
    OBVIOUS
  <2>3. QED
    BY <2>1, <2>2
<1>2. ASSUME NEW k \in T PROVE k + 1 \in T
  <2>1. k \in Nat /\ i + k \in Nat /\ i + (k + 1) = (i + k) + 1
    OBVIOUS
  <2>2. Place(items, i + k, others) \in Nat /\ Place(items, i, others) \in Nat
    BY <2>1, Places
  <2>3. \/ Place(items, (i + k) + 1, others) = Place(items, i + k, others)
        \/ Place(items, (i + k) + 1, others) = Place(items, i + k, others) + 1
    BY <2>1, <2>2, PlaceNext
  <2>4. QED
    BY <2>1, <2>2, <2>3
<1>3. T = Nat
  <2>1. T \subseteq Nat
    OBVIOUS
  <2> HIDE DEF T
  <2>2. QED
    BY <1>1, <1>2, <2>1, Induction
<1>4. PICK k \in Nat : i + k = n
  <2>1. n - i \in Nat /\ i + (n - i) = n
    OBVIOUS
  <2>2. QED
    BY <2>1
<1>5. P(k)
  BY <1>3
<1>6. QED
  BY <1>4, <1>5

\* Every place is that of a file that stays.
LEMMA PlacesFilled ==
  ASSUME NEW items, NEW others \in Nat, NEW n \in Nat
  PROVE  \A p \in 1 .. Place(items, n, others) : \E i \in 1 .. n :
           Kept(items, i, others) /\ Place(items, i, others) = p
<1> DEFINE P(m) == \A p \in 1 .. Place(items, m, others) : \E i \in 1 .. m :
                     Kept(items, i, others) /\ Place(items, i, others) = p
           T == {m \in Nat : P(m)}
<1>1. 0 \in T
  <2>1. Place(items, 0, others) = 0
    BY Places
  <2>2. QED
    BY <2>1
<1>2. ASSUME NEW m \in T PROVE m + 1 \in T
  <2>1. m \in Nat /\ P(m)
    OBVIOUS
  <2>2. /\ Place(items, m, others) \in Nat
        /\ Place(items, m + 1, others) =
             Place(items, m, others) + IF Kept(items, m + 1, others) THEN 1 ELSE 0
    BY <2>1, Places, PlaceNext
  <2>3. ASSUME NEW p \in 1 .. Place(items, m + 1, others)
        PROVE  \E i \in 1 .. m + 1 : Kept(items, i, others) /\ Place(items, i, others) = p
    <3>1. CASE p \in 1 .. Place(items, m, others)
      <4>1. PICK i \in 1 .. m : Kept(items, i, others) /\ Place(items, i, others) = p
        BY <2>1, <3>1
      <4>2. i \in 1 .. m + 1
        BY <2>1
      <4>3. QED
        BY <4>1, <4>2
    <3>2. CASE p \notin 1 .. Place(items, m, others)
      <4>1. Kept(items, m + 1, others) /\ p = Place(items, m + 1, others)
        BY <2>2, <3>2
      <4>2. m + 1 \in 1 .. m + 1
        BY <2>1
      <4>3. QED
        BY <4>1, <4>2
    <3>3. QED
      BY <3>1, <3>2
  <2>4. QED
    BY <2>1, <2>3
<1>3. T = Nat
  <2>1. T \subseteq Nat
    OBVIOUS
  <2> HIDE DEF T
  <2>2. QED
    BY <1>1, <1>2, <2>1, Induction
<1>4. P(n)
  BY <1>3
<1>5. QED
  BY <1>4

\* Counts grow.
LEMMA CountsGrow ==
  ASSUME NEW items, NEW rank, NEW i \in Nat, NEW n \in Nat, i <= n
  PROVE  CountUpTo(items, i, rank) <= CountUpTo(items, n, rank)
<1> DEFINE P(k) == {j \in 1 .. k : Rank(items[j].name) = rank}
<1>1. IsFiniteSet(P(n))
  <2>1. IsFiniteSet(1 .. n)
    BY FS_Interval
  <2>2. P(n) \subseteq 1 .. n
    OBVIOUS
  <2>3. QED
    BY <2>1, <2>2, FS_Subset
<1>2. P(i) \subseteq P(n)
  OBVIOUS
<1>3. CountUpTo(items, i, rank) = Cardinality(P(i)) /\ CountUpTo(items, n, rank) = Cardinality(P(n))
  BY DEF CountUpTo
<1> HIDE DEF P
<1>4. QED
  BY <1>1, <1>2, <1>3, FS_Subset

\* What a file adds to the counts and the places before it.
LEMMA Here ==
  ASSUME NEW items, NEW others \in Nat, NEW i \in Nat, i # 0
  PROVE  /\ i - 1 \in Nat
         /\ CountUpTo(items, i, Rank(items[i].name)) =
              CountUpTo(items, i - 1, Rank(items[i].name)) + 1
         /\ Kept(items, i, others) => Place(items, i, others) = Place(items, i - 1, others) + 1
<1>1. PICK k \in Nat : i = k + 1
  <2>1. i - 1 \in Nat /\ i = (i - 1) + 1
    OBVIOUS
  <2>2. QED
    BY <2>1
<1>2. i - 1 = k
  BY <1>1
<1>3. CountUpTo(items, k + 1, Rank(items[k + 1].name)) =
        CountUpTo(items, k, Rank(items[k + 1].name)) + 1
  BY Counts
<1>4. Kept(items, k + 1, others) => Place(items, k + 1, others) = Place(items, k, others) + 1
  BY PlaceNext
<1>5. QED
  BY <1>1, <1>2, <1>3, <1>4

\* Every count is that of a file.
LEMMA CountsFilled ==
  ASSUME NEW items, NEW rank, NEW n \in Nat
  PROVE  \A c \in 1 .. CountUpTo(items, n, rank) : \E i \in 1 .. n :
           Rank(items[i].name) = rank /\ CountUpTo(items, i, rank) = c
<1> DEFINE C(i) == CountUpTo(items, i, rank)
           R(i) == Rank(items[i].name)
           P(m) == \A c \in 1 .. C(m) : \E i \in 1 .. m : R(i) = rank /\ C(i) = c
           T == {m \in Nat : P(m)}
<1>1. C(0) = 0 /\ \A m \in Nat : C(m) \in Nat /\ C(m + 1) = C(m) + IF R(m + 1) = rank THEN 1 ELSE 0
  BY Counts
<1> HIDE DEF C, R
<1>2. 0 \in T
  BY <1>1
<1>3. ASSUME NEW m \in T PROVE m + 1 \in T
  <2>1. m \in Nat /\ P(m)
    OBVIOUS
  <2>2. ASSUME NEW c \in 1 .. C(m + 1)
        PROVE  \E i \in 1 .. m + 1 : R(i) = rank /\ C(i) = c
    <3>1. CASE c \in 1 .. C(m)
      <4>1. PICK i \in 1 .. m : R(i) = rank /\ C(i) = c
        BY <2>1, <3>1
      <4>2. i \in 1 .. m + 1
        BY <2>1
      <4>3. QED
        BY <4>1, <4>2
    <3>2. CASE c \notin 1 .. C(m)
      <4>1. C(m) \in Nat /\ C(m + 1) = C(m) + IF R(m + 1) = rank THEN 1 ELSE 0
        BY <1>1, <2>1
      <4>2. R(m + 1) = rank /\ c = C(m + 1)
        BY <3>2, <4>1
      <4>3. m + 1 \in 1 .. m + 1
        BY <2>1
      <4>4. QED
        BY <4>2, <4>3
    <3>3. QED
      BY <3>1, <3>2
  <2>3. QED
    BY <2>1, <2>2
<1>4. T = Nat
  <2>1. T \subseteq Nat
    OBVIOUS
  <2> HIDE DEF T
  <2>2. QED
    BY <1>2, <1>3, <2>1, Induction
<1>5. P(n)
  BY <1>4
<1>6. QED
  BY <1>5 DEF C, R

\* Of the first n files K has those that stay, in their order.
Chosen(S, items, n, others, K) ==
  /\ K \in Seq(S) /\ Len(K) = Place(items, n, others)
  /\ \A i \in 1 .. n : Kept(items, i, others) => K[Place(items, i, others)] = items[i]

\* Two sequences with the same members in the same places are one.
LEMMA SameSeq ==
  ASSUME NEW S, NEW f \in Seq(S), NEW g \in Seq(S), Len(f) = Len(g),
         \A i \in 1 .. Len(f) : f[i] = g[i]
  PROVE  f = g
OBVIOUS

\* There is one such sequence.
LEMMA ChosenOnce ==
  ASSUME NEW S, NEW items, NEW n \in Nat, NEW others \in Nat, NEW K, NEW L,
         Chosen(S, items, n, others, K), Chosen(S, items, n, others, L)
  PROVE  K = L
<1>1. K \in Seq(S) /\ L \in Seq(S) /\ Len(K) = Len(L) /\ Len(K) = Place(items, n, others)
  BY DEF Chosen
<1>2. ASSUME NEW p \in 1 .. Len(K) PROVE K[p] = L[p]
  <2>1. PICK i \in 1 .. n : Kept(items, i, others) /\ Place(items, i, others) = p
    BY <1>1, PlacesFilled
  <2>2. QED
    BY <2>1 DEF Chosen
<1>3. QED
  BY <1>1, <1>2, SameSeq

\* A file that stays is put at the end.
LEMMA ChosenAppend ==
  ASSUME NEW S, NEW items \in Seq(S), NEW n \in Nat, n + 1 <= Len(items), NEW others \in Nat,
         NEW K, Chosen(S, items, n, others, K), Kept(items, n + 1, others)
  PROVE  Chosen(S, items, n + 1, others, Append(K, items[n + 1]))
<1>1. items[n + 1] \in S
  OBVIOUS
<1>2. K \in Seq(S) /\ Len(K) = Place(items, n, others) /\ Len(K) \in Nat
  BY DEF Chosen
<1>3. PICK e \in S : e = items[n + 1]
  BY <1>1
<1>4. /\ Append(K, e) \in Seq(S) /\ Len(Append(K, e)) = Len(K) + 1
      /\ Append(K, e)[Len(K) + 1] = e /\ \A p \in 1 .. Len(K) : Append(K, e)[p] = K[p]
  BY <1>2
<1>5. Place(items, n + 1, others) = Len(K) + 1
  BY <1>2, PlaceNext
<1>6. ASSUME NEW i \in 1 .. n + 1, Kept(items, i, others)
      PROVE  Append(K, e)[Place(items, i, others)] = items[i]
  <2>1. CASE i = n + 1
    BY <1>3, <1>4, <1>5, <2>1
  <2>2. CASE i # n + 1
    <3>1. i \in 1 .. n /\ i \in Nat /\ i # 0 /\ i <= n
      BY <2>2
    <3>2. K[Place(items, i, others)] = items[i]
      BY <1>6, <3>1 DEF Chosen
    <3>3. Place(items, i, others) \in 1 .. Len(K)
      <4>1. Place(items, i, others) = Place(items, i - 1, others) + 1 /\ i - 1 \in Nat
        BY <1>6, <3>1, Here
      <4>2. Place(items, i - 1, others) \in Nat
        BY <4>1, Places
      <4>3. Place(items, i, others) <= Len(K)
        BY <1>2, <3>1, PlacesGrow
      <4>4. QED
        BY <1>2, <4>1, <4>2, <4>3
    <3>4. QED
      BY <1>4, <3>2, <3>3
  <2>3. QED
    BY <2>1, <2>2
<1>7. QED
  BY <1>3, <1>4, <1>5, <1>6 DEF Chosen

\* One that does not is left out.
LEMMA ChosenSame ==
  ASSUME NEW S, NEW items, NEW n \in Nat, NEW others \in Nat,
         NEW K, Chosen(S, items, n, others, K), ~Kept(items, n + 1, others)
  PROVE  Chosen(S, items, n + 1, others, K)
<1>1. Place(items, n, others) \in Nat
  BY Places
<1>2. Place(items, n + 1, others) = Place(items, n, others)
  BY <1>1, PlaceNext
<1>3. \A i \in 1 .. n + 1 : i \in 1 .. n \/ i = n + 1
  OBVIOUS
<1>4. QED
  BY <1>2, <1>3 DEF Chosen

\* With room for one fewer, when there are not so many, nothing changes.
LEMMA ChosenFewer ==
  ASSUME NEW S, NEW items, NEW n \in Nat, NEW fewer \in Nat, CountUpTo(items, n, 1) <= fewer,
         NEW K, Chosen(S, items, n, fewer + 1, K)
  PROVE  Chosen(S, items, n, fewer, K)
<1>1. ASSUME NEW i \in Nat, i <= n
      PROVE  /\ Place(items, i, fewer + 1) = Place(items, i, fewer)
             /\ Kept(items, i, fewer) => Kept(items, i, fewer + 1)
  <2>1. CountUpTo(items, i, 1) <= CountUpTo(items, n, 1)
    BY <1>1, CountsGrow
  <2>2. CountUpTo(items, i, 1) \in Nat /\ CountUpTo(items, n, 1) \in Nat
    BY Counts
  <2>3. CountUpTo(items, i, 1) <= fewer /\ CountUpTo(items, i, 1) <= fewer + 1
    BY <2>1, <2>2
  <2>4. QED
    BY <2>3 DEF Place, Kept, AtMost
<1>2. \A i \in 1 .. n : i \in Nat /\ i <= n
  OBVIOUS
<1>3. n <= n
  OBVIOUS
<1>4. QED
  BY <1>1, <1>2, <1>3 DEF Chosen

\* One member fewer: those behind it move up.
LEMMA RemovedAt ==
  ASSUME NEW S, NEW f \in Seq(S), NEW q \in 1 .. Len(f), NEW p \in 1 .. Len(f) - 1
  PROVE  Native!RemoveAt(f, q)[p] = IF p < q THEN f[p] ELSE f[p + 1]
<1> DEFINE g == SubSeq(f, 1, q - 1)
           h == SubSeq(f, q + 1, Len(f))
<1>1. g \in Seq(S) /\ Len(g) = q - 1 /\ \A k \in 1 .. q - 1 : g[k] = f[k]
  <2>1. \A k \in 1 .. q - 1 : f[k] \in S
    OBVIOUS
  <2>2. q - 1 \in 0 .. Len(f)
    OBVIOUS
  <2>3. QED
    BY <2>1, <2>2
<1>2. h \in Seq(S) /\ Len(h) = Len(f) - q /\ \A k \in 1 .. Len(f) - q : h[k] = f[q + k]
  OBVIOUS
<1>3. Native!RemoveAt(f, q) = g \o h
  BY DEF Native!RemoveAt
<1> HIDE DEF g, h
<1>4. Len(f) \in Nat /\ q \in Nat /\ p \in Nat
  OBVIOUS
<1>5. (g \o h)[p] = IF p <= Len(g) THEN g[p] ELSE h[p - Len(g)]
  BY <1>1, <1>2, <1>4
<1>6. CASE p < q
  BY <1>1, <1>3, <1>4, <1>5, <1>6
<1>7. CASE ~(p < q)
  <2>1. p - (q - 1) \in 1 .. Len(f) - q /\ q + (p - (q - 1)) = p + 1
    BY <1>4, <1>7
  <2>2. ~(p <= q - 1)
    BY <1>4, <1>7
  <2>3. QED
    BY <1>1, <1>2, <1>3, <1>5, <1>7, <2>1, <2>2
<1>8. QED
  BY <1>6, <1>7

(***************************************************************************)
(* What is pushed out for an archive.                                      *)
(***************************************************************************)

\* When there is no room, the last file that is no archive makes some.
LEMMA ChosenPushed ==
  ASSUME NEW S, NEW items, NEW n \in Nat, NEW fewer \in Nat, fewer < CountUpTo(items, n, 1),
         NEW K, Chosen(S, items, n, fewer + 1, K)
  PROVE  \E q \in Native!Lower(K, 2) :
           /\ \A p \in Native!Lower(K, 2) : p <= q
           /\ Chosen(S, items, n, fewer, Native!RemoveAt(K, q))
<1> DEFINE O(i) == CountUpTo(items, i, 1)
           R(i) == Rank(items[i].name)
           P(i) == Place(items, i, fewer + 1)
<1>1. PICK z \in 1 .. n : R(z) = 1 /\ O(z) = fewer + 1
  <2>1. O(n) \in Nat
    BY Counts
  <2>2. fewer + 1 \in 1 .. O(n)
    BY <2>1
  <2>3. QED
    BY <2>2, CountsFilled
<1>2. z \in Nat /\ z # 0 /\ z <= n /\ z - 1 \in Nat /\ fewer + 1 \in Nat
  OBVIOUS
<1>3. Kept(items, z, fewer + 1)
  BY <1>1, <1>2 DEF Kept
<1>4. /\ P(z) = P(z - 1) + 1 /\ P(z - 1) \in Nat /\ P(z) <= P(n) /\ P(n) \in Nat
      /\ O(z) = O(z - 1) + 1 /\ O(z - 1) \in Nat
  <2>1. P(z) = P(z - 1) + 1 /\ O(z) = O(z - 1) + 1
    BY <1>1, <1>2, <1>3, Here
  <2>2. P(z - 1) \in Nat /\ P(n) \in Nat /\ O(z - 1) \in Nat
    BY <1>2, Places, Counts
  <2>3. P(z) <= P(n)
    BY <1>2, PlacesGrow
  <2>4. QED
    BY <2>1, <2>2, <2>3
<1> DEFINE q == P(z)
<1>5. K \in Seq(S) /\ Len(K) = P(n) /\ K[q] = items[z]
  BY <1>1, <1>3 DEF Chosen
<1>6. q \in 1 .. Len(K)
  BY <1>4, <1>5
<1>7. q \in Native!Lower(K, 2)
  BY <1>1, <1>5, <1>6 DEF Native!Lower, Native!Rank, Rank
<1>8. ASSUME NEW p \in Native!Lower(K, 2) PROVE p <= q
  <2>1. p \in 1 .. P(n)
    BY <1>5 DEF Native!Lower
  <2>2. PICK i \in 1 .. n : Kept(items, i, fewer + 1) /\ P(i) = p
    BY <1>2, <2>1, PlacesFilled
  <2>3. R(i) # 2
    <3>1. K[p] = items[i]
      BY <2>2 DEF Chosen
    <3>2. QED
      BY <3>1 DEF Native!Lower, Native!Rank, Rank
  <2>4. i \in Nat /\ i # 0 /\ R(i) = 1
    BY <2>3 DEF Rank
  <2>5. O(i) <= fewer + 1
    BY <2>2, <2>3 DEF Kept
  <2>6. i <= z
    <3>1. SUFFICES ASSUME z < i PROVE FALSE
      BY <1>2, <2>4
    <3>2. O(i) = O(i - 1) + 1 /\ i - 1 \in Nat
      BY <2>4, <1>2, Here
    <3>3. O(z) <= O(i - 1) /\ O(i - 1) \in Nat
      BY <3>1, <3>2, <1>2, CountsGrow, Counts
    <3>4. QED
      BY <1>1, <2>5, <3>2, <3>3
  <2>7. QED
    BY <1>2, <2>2, <2>4, <2>6, PlacesGrow
<1> DEFINE L == Native!RemoveAt(K, q)
<1>9. /\ L \in Seq(S) /\ Len(L) = P(n) - 1
      /\ \A p \in 1 .. P(n) - 1 : L[p] = IF p < q THEN K[p] ELSE K[p + 1]
  BY <1>5, <1>6, Removed, RemovedAt
<1>10. ASSUME NEW i \in Nat, i <= n
       PROVE  /\ i < z => Place(items, i, fewer) = P(i) /\ P(i) < q
              /\ z <= i => Place(items, i, fewer) = P(i) - 1
  <2>1. O(i) \in Nat /\ P(i) \in Nat /\ CountUpTo(items, i, 2) \in Nat
    BY <1>2, Counts, Places
  <2>2. MaxAssets \in Nat
    BY ChoiceAssumption
  <2>3. AtMost(CountUpTo(items, i, 2), MaxAssets) \in Nat
    BY <2>1, <2>2, AtMostNext
  <2>4. ASSUME i < z PROVE Place(items, i, fewer) = P(i) /\ P(i) < q
    <3>1. i <= z - 1
      BY <1>2, <2>4
    <3>2. O(i) <= O(z - 1) /\ P(i) <= P(z - 1)
      BY <1>2, <3>1, CountsGrow, PlacesGrow
    <3>3. O(i) <= fewer /\ O(i) <= fewer + 1
      BY <1>1, <1>4, <2>1, <3>2
    <3>4. Place(items, i, fewer) = P(i)
      BY <3>3 DEF Place, AtMost
    <3>5. QED
      BY <1>4, <2>1, <3>2, <3>4
  <2>5. ASSUME z <= i PROVE Place(items, i, fewer) = P(i) - 1
    <3>1. fewer + 1 <= O(i)
      BY <1>1, <1>2, <2>5, CountsGrow
    <3>2. AtMost(O(i), fewer) = fewer /\ AtMost(O(i), fewer + 1) = fewer + 1
      BY <2>1, <3>1 DEF AtMost
    <3>3. QED
      BY <2>3, <3>2 DEF Place
  <2>6. QED
    BY <2>4, <2>5
<1>11. ASSUME NEW i \in 1 .. n, Kept(items, i, fewer)
       PROVE  L[Place(items, i, fewer)] = items[i]
  <2>1. i \in Nat /\ i # 0 /\ i <= n
    OBVIOUS
  <2>2. O(i) \in Nat
    BY <2>1, Counts
  <2>3. Kept(items, i, fewer + 1) /\ i # z
    BY <1>1, <1>11, <2>2 DEF Kept
  <2>4. K[P(i)] = items[i]
    BY <2>3 DEF Chosen
  <2>5. P(i) = P(i - 1) + 1 /\ i - 1 \in Nat
    <3>1. PICK others \in Nat : others = fewer + 1
      BY <1>2
    <3>2. Place(items, i, others) = Place(items, i - 1, others) + 1
      BY <2>1, <2>3, <3>1, Here
    <3>3. QED
      BY <2>1, <3>1, <3>2
  <2>6. P(i - 1) \in Nat /\ P(i) <= P(n)
    BY <1>2, <2>1, <2>5, Places, PlacesGrow
  <2>7. CASE i < z
    <3>1. P(i) \in 1 .. P(n) - 1 /\ P(i) < q /\ Place(items, i, fewer) = P(i)
      BY <1>4, <1>10, <2>1, <2>5, <2>6, <2>7
    <3>2. QED
      BY <1>9, <2>4, <3>1
  <2>8. CASE z < i
    <3>1. z <= i - 1 /\ z <= i
      BY <1>2, <2>1, <2>8
    <3>2. q <= P(i - 1)
      BY <1>2, <2>5, <3>1, PlacesGrow
    <3>3. Place(items, i, fewer) = P(i) - 1
      BY <1>10, <2>1, <3>1
    <3>4. PICK p \in Nat : p = P(i - 1)
      BY <2>6
    <3>5. P(i) = p + 1 /\ Place(items, i, fewer) = p /\ p \in 1 .. P(n) - 1 /\ ~(p < q)
      BY <1>4, <2>5, <2>6, <3>2, <3>3, <3>4
    <3>6. L[p] = K[p + 1]
      BY <1>9, <3>5
    <3>7. QED
      BY <2>4, <3>5, <3>6
  <2>9. QED
    BY <1>2, <2>1, <2>3, <2>7, <2>8
<1>12. Len(L) = Place(items, n, fewer)
  BY <1>2, <1>9, <1>10
<1>13. Chosen(S, items, n, fewer, L)
  BY <1>9, <1>11, <1>12 DEF Chosen
<1>14. QED
  BY <1>7, <1>8, <1>13

(***************************************************************************)
(* One more file is offered.                                               *)
(***************************************************************************)

\* How many files that are no archives fit next to the first n ones' archives.
Room(items, n) == IF CountUpTo(items, n, 2) >= MaxAssets THEN 0
                  ELSE MaxAssets - CountUpTo(items, n, 2)

\* The files so far after one more.
WithNext(K, a) == IF Len(K) < MaxAssets THEN Append(K, a) ELSE Native!GfAssetOffer(K, a)

\* With no room for other files there are none.
LEMMA OnlyArchives ==
  ASSUME NEW S, NEW items, NEW n \in Nat, NEW K, Chosen(S, items, n, 0, K)
  PROVE  Native!Lower(K, 2) = {}
<1>1. SUFFICES ASSUME NEW p \in Native!Lower(K, 2) PROVE FALSE
  OBVIOUS
<1>2. p \in 1 .. Place(items, n, 0)
  BY DEF Native!Lower, Chosen
<1>3. PICK i \in 1 .. n : Kept(items, i, 0) /\ Place(items, i, 0) = p
  BY <1>2, PlacesFilled
<1>4. K[p] = items[i]
  BY <1>3 DEF Chosen
<1>5. Rank(items[i].name) = 1
  BY <1>4 DEF Native!Lower, Native!Rank, Rank
<1>6. i \in Nat /\ i # 0 /\ CountUpTo(items, i, 1) <= 0
  BY <1>3, <1>5 DEF Kept
<1>7. CountUpTo(items, i, 1) = CountUpTo(items, i - 1, 1) + 1 /\ i - 1 \in Nat
  BY <1>5, <1>6, Here
<1>8. CountUpTo(items, i - 1, 1) \in Nat
  BY <1>7, Counts
<1>9. QED
  BY <1>6, <1>7, <1>8

\* Both backends take file after file, and what they keep is always the choice
\* among those so far.
LEMMA ChosenNext ==
  ASSUME NEW S, NEW items \in Seq(S), NEW n \in Nat, n + 1 <= Len(items), NEW K,
         Chosen(S, items, n, Room(items, n), K)
  PROVE  /\ Chosen(S, items, n + 1, Room(items, n + 1), WithNext(K, items[n + 1]))
         /\ Len(K) \in Nat /\ Len(K) <= MaxAssets
         /\ Len(WithNext(K, items[n + 1])) = IF Len(K) < MaxAssets THEN Len(K) + 1 ELSE Len(K)
<1> DEFINE a == items[n + 1]
           A == CountUpTo(items, n, 2)
           O == CountUpTo(items, n, 1)
<1>1. /\ A \in Nat /\ O \in Nat
      /\ CountUpTo(items, n + 1, 2) = A + IF Rank(a.name) = 2 THEN 1 ELSE 0
      /\ CountUpTo(items, n + 1, 1) = O + IF Rank(a.name) = 1 THEN 1 ELSE 0
  BY Counts
<1>2. MaxAssets \in Nat
  BY ChoiceAssumption
<1>3. Room(items, n) = IF A >= MaxAssets THEN 0 ELSE MaxAssets - A
  BY DEF Room
<1>4. K \in Seq(S) /\ Len(K) = AtMost(A, MaxAssets) + AtMost(O, Room(items, n))
  BY DEF Chosen, Place
<1>5. a \in S
  OBVIOUS
<1>6. Rank(a.name) \in {1, 2}
  BY DEF Rank
<1>7. Kept(items, n + 1, Room(items, n)) <=>
        IF Rank(a.name) = 2 THEN CountUpTo(items, n + 1, 2) <= MaxAssets
        ELSE CountUpTo(items, n + 1, 1) <= Room(items, n)
  BY DEF Kept
<1>8. Native!Lower(K, 1) = {}
  BY DEF Native!Lower, Native!Rank
<1>9. Native!Rank(a.name) = Rank(a.name)
  BY DEF Native!Rank, Rank
<1>10. Len(WithNext(K, a)) = IF Len(K) < MaxAssets THEN Len(K) + 1 ELSE Len(K)
  <2>1. Len(Append(K, a)) = Len(K) + 1
    BY <1>4, <1>5
  <2>2. Len(Native!GfAssetOffer(K, a)) = Len(K)
    BY <1>4, <1>5, Offer
  <2>3. QED
    BY <2>1, <2>2 DEF WithNext
<1>11. Room(items, n) \in Nat
  BY <1>1, <1>2, <1>3
<1>12. Len(K) \in Nat /\ Len(K) <= MaxAssets
  BY <1>1, <1>2, <1>3, <1>4 DEF AtMost
<1>13. CASE Rank(a.name) = 1
  <2>1. Room(items, n + 1) = Room(items, n)
    BY <1>1, <1>13 DEF Room
  <2>2. CASE Len(K) < MaxAssets
    <3>1. O + 1 <= Room(items, n)
      BY <1>1, <1>2, <1>3, <1>4, <2>2 DEF AtMost
    <3>2. Kept(items, n + 1, Room(items, n))
      BY <1>1, <1>7, <1>13, <3>1
    <3>3. Chosen(S, items, n + 1, Room(items, n), Append(K, a))
      BY <1>11, <3>2, ChosenAppend
    <3>4. QED
      BY <1>10, <1>12, <2>1, <2>2, <3>3 DEF WithNext
  <2>3. CASE ~(Len(K) < MaxAssets)
    <3>1. ~(O + 1 <= Room(items, n))
      BY <1>1, <1>2, <1>3, <1>4, <2>3 DEF AtMost
    <3>2. ~Kept(items, n + 1, Room(items, n))
      BY <1>1, <1>7, <1>13, <3>1
    <3>3. Chosen(S, items, n + 1, Room(items, n), K)
      BY <1>11, <3>2, ChosenSame
    <3>4. Native!GfAssetOffer(K, a) = K
      BY <1>8, <1>9, <1>13 DEF Native!GfAssetOffer
    <3>5. QED
      BY <1>10, <1>12, <2>1, <2>3, <3>3, <3>4 DEF WithNext
  <2>4. QED
    BY <2>2, <2>3
<1>14. CASE Rank(a.name) = 2 /\ A >= MaxAssets
  <2>1. Room(items, n) = 0 /\ Room(items, n + 1) = 0
    BY <1>1, <1>2, <1>14 DEF Room
  <2>2. ~Kept(items, n + 1, 0)
    BY <1>1, <1>2, <1>7, <1>14, <2>1
  <2>3. Chosen(S, items, n + 1, 0, K)
    BY <2>1, <2>2, ChosenSame
  <2>4. ~(Len(K) < MaxAssets)
    BY <1>1, <1>2, <1>4, <1>14, <2>1 DEF AtMost
  <2>5. Native!Lower(K, 2) = {}
    BY <2>1, OnlyArchives
  <2>6. Native!GfAssetOffer(K, a) = K
    BY <1>9, <1>14, <2>5 DEF Native!GfAssetOffer
  <2>7. QED
    BY <1>10, <1>12, <2>1, <2>3, <2>4, <2>6 DEF WithNext
<1>15. CASE Rank(a.name) = 2 /\ A < MaxAssets
  <2>1. PICK fewer \in Nat : fewer = MaxAssets - (A + 1)
    BY <1>1, <1>2, <1>15
  <2>2. Room(items, n) = fewer + 1 /\ Room(items, n + 1) = fewer
    BY <1>1, <1>2, <1>15, <2>1 DEF Room
  <2>3. Kept(items, n + 1, fewer)
    BY <1>1, <1>2, <1>15 DEF Kept
  <2>4. CASE O <= fewer
    <3>1. Chosen(S, items, n, fewer, K)
      BY <2>2, <2>4, ChosenFewer
    <3>2. Chosen(S, items, n + 1, fewer, Append(K, a))
      BY <2>3, <3>1, ChosenAppend
    <3>3. Len(K) < MaxAssets
      BY <1>1, <1>2, <1>4, <1>15, <2>1, <2>2, <2>4 DEF AtMost
    <3>4. QED
      BY <1>10, <1>12, <2>2, <3>2, <3>3 DEF WithNext
  <2>5. CASE ~(O <= fewer)
    <3>1. fewer < O
      BY <1>1, <2>5
    <3>2. PICK q \in Native!Lower(K, 2) :
                  /\ \A p \in Native!Lower(K, 2) : p <= q
                  /\ Chosen(S, items, n, fewer, Native!RemoveAt(K, q))
      BY <2>2, <3>1, ChosenPushed
    <3>3. Native!Lower(K, 2) \subseteq Nat
      BY DEF Native!Lower
    <3>4. \A i \in Native!Lower(K, 2) :
            (\A j \in Native!Lower(K, 2) : j <= i) => i = q
      BY <3>2, <3>3
    <3>5. q = CHOOSE i \in Native!Lower(K, 2) : \A j \in Native!Lower(K, 2) : j <= i
      BY <3>2, <3>4
    <3>6. Native!GfAssetOffer(K, a) = Append(Native!RemoveAt(K, q), a)
      BY <1>9, <1>15, <3>2, <3>5 DEF Native!GfAssetOffer
    <3>7. Chosen(S, items, n + 1, fewer, Append(Native!RemoveAt(K, q), a))
      BY <2>3, <3>2, ChosenAppend
    <3>8. ~(Len(K) < MaxAssets)
      BY <1>1, <1>2, <1>4, <1>15, <2>1, <2>2, <3>1 DEF AtMost
    <3>9. QED
      BY <1>10, <1>12, <2>2, <3>6, <3>7, <3>8 DEF WithNext
  <2>6. QED
    BY <2>4, <2>5
<1>16. QED
  BY <1>1, <1>2, <1>6, <1>13, <1>14, <1>15

\* Before the first file there is nothing to choose.
LEMMA ChosenNone ==
  ASSUME NEW S, NEW items, NEW others \in Nat
  PROVE  Chosen(S, items, 0, others, <<>>)
<1>1. Place(items, 0, others) = 0
  BY Places
<1>2. <<>> \in Seq(S) /\ Len(<<>>) = 0
  OBVIOUS
<1>3. QED
  BY <1>1, <1>2 DEF Chosen

\* c leads to FlattenSeq(seqs), part after part.
Flattens(c, seqs, n) == /\ c[0] = <<>>
                        /\ \A i \in 1 .. n : c[i] = c[i - 1] \o seqs[i]
                        /\ FlattenSeq(seqs) = c[n]

\* What FlattenSeq does, part after part.
LEMMA Flattening ==
  ASSUME NEW S, NEW seqs \in Seq(Seq(S)), NEW N, N = Len(seqs)
  PROVE  \E c \in [0 .. N -> Seq(S)] : Flattens(c, seqs, N)
<1> DEFINE G     == Seq(S)
           Of(f) == f = [i \in 1 .. N |-> IF i = 1 THEN seqs[i] ELSE f[i - 1] \o seqs[i]]
           step  == [i \in 1 .. N |-> [s \in G |-> s \o seqs[i]]]
           g     == CHOOSE f : Of(f)
<1>1. N \in Nat /\ <<>> \in G /\ \A i \in 1 .. N : seqs[i] \in G
  OBVIOUS
<1>2. step \in [1 .. N -> [G -> G]]
  OBVIOUS
<1>3. PICK c \in [0 .. N -> G] : Follows(c, <<>>, step, N)
  <2> HIDE DEF G, step
  <2>1. QED
    BY <1>1, <1>2, Recursion
<1>4. c[0] = <<>>
  BY <1>3 DEF Follows
<1>5. \A i \in 1 .. N : c[i] = c[i - 1] \o seqs[i]
  <2> TAKE i \in 1 .. N
  <2>1. i - 1 \in 0 .. N
    BY <1>1
  <2>2. c[i - 1] \in G
    BY <1>3, <2>1
  <2>3. c[i] = step[i][c[i - 1]]
    BY <1>3 DEF Follows
  <2>4. step[i][c[i - 1]] = c[i - 1] \o seqs[i]
    <3> HIDE DEF G
    <3>1. QED
      BY <2>2
  <2>5. QED
    BY <2>3, <2>4
<1>6. CASE N = 0
  <2>1. FlattenSeq(seqs) = <<>>
    <3>1. seqs = <<>>
      BY <1>6, EmptySeq
    <3>2. Len(seqs) = 0
      BY <1>6
    <3>3. QED
      BY <3>1, <3>2 DEF FlattenSeq
  <2>2. QED
    BY <1>3, <1>4, <1>5, <1>6, <2>1 DEF Flattens
<1>7. CASE N # 0
  <2> DEFINE f == [i \in 1 .. N |-> c[i]]
  <2>1. \A i \in 1 .. N : f[i] = IF i = 1 THEN seqs[i] ELSE f[i - 1] \o seqs[i]
    <3> TAKE i \in 1 .. N
    <3>1. CASE i = 1
      <4>1. seqs[i] \in Seq(S) /\ i - 1 = 0
        BY <1>1, <3>1
      <4>2. c[i] = <<>> \o seqs[i]
        BY <1>4, <1>5, <4>1
      <4>3. QED
        BY <3>1, <4>1, <4>2
    <3>2. CASE i # 1
      <4>1. i - 1 \in 1 .. N
        BY <1>1, <3>2
      <4>2. QED
        BY <1>5, <3>2, <4>1
    <3>3. QED
      BY <3>1, <3>2
  <2>2. f = [i \in 1 .. N |-> f[i]]
    OBVIOUS
  <2>3. Of(f)
    <3> HIDE DEF f
    <3>1. QED
      BY <2>1, <2>2, Zenon
  <2>4. Of(g)
    <3> HIDE DEF Of
    <3>1. QED
      BY <2>3, Zenon
  <2> HIDE DEF g, f
  <2> DEFINE T == {n \in Nat : n <= N => n = 0 \/ g[n] = c[n]}
  <2>5. 0 \in T
    OBVIOUS
  <2>6. ASSUME NEW n \in T PROVE n + 1 \in T
    <3>1. n \in Nat
      OBVIOUS
    <3>2. ASSUME n + 1 <= N PROVE g[n + 1] = c[n + 1]
      <4>1. PICK m \in 1 .. N : m = n + 1
        BY <1>1, <3>1, <3>2
      <4>2. m - 1 = n /\ n <= N
        BY <1>1, <3>1, <4>1
      <4>3. g[m] = IF m = 1 THEN seqs[m] ELSE g[m - 1] \o seqs[m]
        BY <2>4
      <4>4. CASE m = 1
        <5>1. seqs[m] \in Seq(S) /\ m - 1 = 0
          BY <1>1, <4>4
        <5>2. c[m] = <<>> \o seqs[m]
          BY <1>4, <1>5, <5>1
        <5>3. QED
          BY <4>1, <4>3, <4>4, <5>1, <5>2
      <4>5. CASE m # 1
        <5>1. g[n] = c[n]
          BY <4>1, <4>2, <4>5
        <5>2. QED
          BY <1>5, <4>1, <4>2, <4>3, <4>5, <5>1
      <4>6. QED
        BY <4>4, <4>5
    <3>3. QED
      BY <3>1, <3>2
  <2>7. T = Nat
    <3>1. T \subseteq Nat
      OBVIOUS
    <3> HIDE DEF T
    <3>2. QED
      BY <2>5, <2>6, <3>1, Induction
  <2>8. g[N] = c[N]
    <3>1. N \in T
      <4> HIDE DEF T
      <4>1. QED
        BY <1>1, <2>7
    <3>2. QED
      BY <1>1, <1>7, <3>1
  <2>9. FlattenSeq(seqs) = g[N]
    BY <1>7, Zenon DEF FlattenSeq, g
  <2>10. QED
    BY <1>3, <1>4, <1>5, <2>8, <2>9 DEF Flattens
<1>8. QED
  BY <1>6, <1>7

(***************************************************************************)
(* The files that stay are the best ones.                                  *)
(***************************************************************************)

\* Every number of files leaves some room for those that are no archives.
LEMMA RoomLeft == ASSUME NEW items, NEW n \in Nat PROVE Room(items, n) \in Nat
<1>1. CountUpTo(items, n, 2) \in Nat /\ MaxAssets \in Nat
  BY Counts, ChoiceAssumption
<1>2. QED
  BY <1>1 DEF Room

\* BestFiles is the choice among all.
LEMMA Best ==
  ASSUME NEW S, NEW items \in Seq(S)
  PROVE  Chosen(S, items, Len(items), Room(items, Len(items)), BestFiles(items))
<1> DEFINE N == Len(items)
           others == Room(items, N)
           parts == [i \in 1 .. N |-> IF Stays(items, i) THEN <<items[i]>> ELSE <<>>]
<1>1. N \in Nat /\ others \in Nat /\ \A i \in 1 .. N : items[i] \in S
  BY RoomLeft
<1>2. parts \in Seq(Seq(S)) /\ Len(parts) = N
  OBVIOUS
<1>3. BestFiles(items) = FlattenSeq(parts)
  BY DEF BestFiles
<1>4. \A i : Stays(items, i) <=> Kept(items, i, others)
  BY DEF Stays, Kept, OthersThatFit, Room, Rank
<1>5. \A i \in 1 .. N : parts[i] = IF Kept(items, i, others) THEN <<items[i]>> ELSE <<>>
  BY <1>4
<1> HIDE DEF parts, others, N
<1>6. PICK c \in [0 .. N -> Seq(S)] : Flattens(c, parts, N)
  BY <1>2, Flattening
<1> DEFINE T == {n \in Nat : n <= N => Chosen(S, items, n, others, c[n])}
<1>7. 0 \in T
  BY <1>1, <1>6, ChosenNone DEF Flattens
<1>8. ASSUME NEW n \in T PROVE n + 1 \in T
  <2>1. n \in Nat
    OBVIOUS
  <2>2. ASSUME n + 1 <= N PROVE Chosen(S, items, n + 1, others, c[n + 1])
    <3>1. n + 1 \in 1 .. N /\ n + 1 - 1 = n /\ n <= N /\ n \in 0 .. N
      BY <1>1, <2>1, <2>2
    <3>2. Chosen(S, items, n, others, c[n]) /\ c[n] \in Seq(S) /\ items[n + 1] \in S
      BY <1>1, <1>6, <3>1
    <3>3. c[n + 1] = c[n] \o parts[n + 1]
      <4>1. PICK m \in 1 .. N : m = n + 1 /\ m - 1 = n
        BY <3>1
      <4>2. QED
        BY <1>6, <4>1 DEF Flattens
    <3>4. CASE Kept(items, n + 1, others)
      <4>1. parts[n + 1] = <<items[n + 1]>>
        BY <1>5, <3>1, <3>4
      <4>2. c[n + 1] = Append(c[n], items[n + 1])
        BY <3>2, <3>3, <4>1
      <4>3. QED
        BY <1>1, <2>1, <2>2, <3>2, <3>4, <4>2, ChosenAppend DEF N
    <3>5. CASE ~Kept(items, n + 1, others)
      <4>1. parts[n + 1] = <<>>
        BY <1>5, <3>1, <3>5
      <4>2. c[n + 1] = c[n]
        BY <3>2, <3>3, <4>1
      <4>3. QED
        BY <1>1, <2>1, <3>2, <3>5, <4>2, ChosenSame
    <3>6. QED
      BY <3>4, <3>5
  <2>3. QED
    BY <2>1, <2>2
<1>9. T = Nat
  <2>1. T \subseteq Nat
    OBVIOUS
  <2> HIDE DEF T
  <2>2. QED
    BY <1>7, <1>8, <2>1, Induction
<1>10. Chosen(S, items, N, others, c[N])
  <2>1. N \in T
    <3> HIDE DEF T
    <3>1. QED
      BY <1>1, <1>9
  <2>2. QED
    BY <1>1, <2>1
<1>11. QED
  BY <1>3, <1>6, <1>10 DEF others, N, Flattens

\* Whatever the files of a release, select_assets keeps the ones the description
\* of the choice names, in their order, and counts the others.
THEOREM SelectsBest ==
  ASSUME NEW S, NEW items \in Seq(S)
  PROVE  /\ Proxy!SelectAssets(items).kept = BestFiles(items)
         /\ Proxy!SelectAssets(items).skipped = Len(items) - Len(BestFiles(items))
         /\ BestFiles(items) \in Seq(S)
<1> DEFINE N == Len(items)
<1>1. PICK c \in [0 .. N -> Accepted(S)] :
        /\ c[0] = [kept |-> <<>>, skipped |-> 0]
        /\ \A n \in 1 .. N : c[n] = Proxy!Take(c[n - 1], items[n])
        /\ Proxy!SelectAssets(items) = c[N]
  BY Selecting
<1>2. N \in Nat
  OBVIOUS
<1> DEFINE P(n) == /\ Chosen(S, items, n, Room(items, n), c[n].kept)
                   /\ c[n].skipped = n - Len(c[n].kept)
           T == {n \in Nat : n <= N => P(n)}
<1>3. 0 \in T
  <2>1. Room(items, 0) \in Nat
    BY RoomLeft
  <2>2. c[0].kept = <<>> /\ c[0].skipped = 0
    BY <1>1
  <2>3. Len(c[0].kept) = 0
    BY <2>2
  <2>4. QED
    BY <2>1, <2>2, <2>3, ChosenNone
<1>4. ASSUME NEW n \in T PROVE n + 1 \in T
  <2>1. n \in Nat
    OBVIOUS
  <2>2. ASSUME n + 1 <= N PROVE P(n + 1)
    <3>1. n + 1 \in 1 .. N /\ n + 1 - 1 = n /\ n <= N /\ n \in 0 .. N
      BY <1>2, <2>1, <2>2
    <3>2. P(n) /\ c[n + 1] = Proxy!Take(c[n], items[n + 1])
      <4>1. PICK m \in 1 .. N : m = n + 1 /\ m - 1 = n
        BY <3>1
      <4>2. QED
        BY <1>1, <3>1, <4>1
    <3> DEFINE K == c[n].kept
               a == items[n + 1]
    <3>3. c[n + 1].kept = WithNext(K, a)
      BY <3>2, ProxyOffer DEF Proxy!Take, WithNext
    <3>4. c[n + 1].skipped = IF Len(K) < MaxAssets THEN c[n].skipped ELSE c[n].skipped + 1
      BY <3>2 DEF Proxy!Take
    <3>5. /\ Chosen(S, items, n + 1, Room(items, n + 1), WithNext(K, a))
          /\ Len(K) \in Nat
          /\ Len(WithNext(K, a)) = IF Len(K) < MaxAssets THEN Len(K) + 1 ELSE Len(K)
      BY <2>1, <2>2, <3>2, ChosenNext
    <3> HIDE DEF K, a
    <3>6. c[n].skipped = n - Len(K)
      BY <3>2 DEF K
    <3>7. c[n + 1].skipped = n + 1 - Len(WithNext(K, a))
      BY <2>1, <3>4, <3>5, <3>6
    <3>8. QED
      BY <3>3, <3>5, <3>7
  <2> HIDE DEF P
  <2>3. QED
    BY <2>1, <2>2
<1>5. T = Nat
  <2>1. T \subseteq Nat
    OBVIOUS
  <2> HIDE DEF T
  <2>2. QED
    BY <1>3, <1>4, <2>1, Induction
<1>6. P(N)
  <2>1. N \in T
    <3> HIDE DEF T
    <3>1. QED
      BY <1>2, <1>5
  <2>2. QED
    BY <1>2, <2>1
<1>7. Room(items, N) \in Nat
  BY <1>2, RoomLeft
<1>8. Chosen(S, items, N, Room(items, N), BestFiles(items))
  BY Best
<1>9. c[N].kept = BestFiles(items)
  BY <1>2, <1>6, <1>7, <1>8, ChosenOnce
<1>10. BestFiles(items) \in Seq(S)
  BY <1>8 DEF Chosen
<1>11. QED
  BY <1>1, <1>6, <1>9, <1>10

(***************************************************************************)
(* What a parser makes of a sequence of lines or tokens.                   *)
(***************************************************************************)

\* parse.c: the list after a line.
ListAfter(list, line) == Proxy!HandleLine([Proxy!GfParserInit EXCEPT !.list = list], line).list

\* json.c: struct GFJson after a token.
TokenDone(s, c) ==
  IF c.t = "str" THEN Native!StringDone(s, c.v)
  ELSE IF c.t = "lit" THEN IF s.collecting THEN [s EXCEPT !.val = c.v] ELSE s
  ELSE IF c.t = "brace"
  THEN [Native!OpenBrace(s) EXCEPT !.readingKey = TRUE, !.key = Native!NoText]
  ELSE IF c.t = "end brace"
  THEN [Native!CloseBrace(Native!DoneIfCollecting(s)) EXCEPT !.readingKey = FALSE]
  ELSE IF c.t = "bracket" THEN Native!OpenBracket(s)
  ELSE IF c.t = "end bracket" THEN Native!CloseBracket(Native!DoneIfCollecting(s))
  ELSE IF c.t = "colon" THEN [s EXCEPT !.collecting = Native!WantValue(s), !.val = Native!NoText]
  ELSE [Native!DoneIfCollecting(s) EXCEPT !.readingKey = TRUE]

After(b, s, x) == IF b = "native" THEN TokenDone(s, x) ELSE ListAfter(s, x)

\* From s the parser of backend b comes to t with the tokens or lines xs.
Runs(b, s, xs, t) == \E h : /\ h[0] = s /\ h[Len(xs)] = t
                            /\ \A i \in 1 .. Len(xs) : h[i] = After(b, h[i - 1], xs[i])

\* Without input nothing changes.
LEMMA RunsNone ==
  ASSUME NEW b, NEW s, NEW t
  PROVE  Runs(b, s, <<>>, t) <=> t = s
<1>1. Len(<<>>) = 0
  OBVIOUS
<1>2. Runs(b, s, <<>>, t) => t = s
  BY <1>1 DEF Runs
<1>3. t = s => Runs(b, s, <<>>, t)
  <2> DEFINE h == [i \in {0} |-> s]
  <2>1. h[0] = s
    OBVIOUS
  <2> HIDE DEF h
  <2>2. t = s => h[0] = s /\ h[Len(<<>>)] = t /\ \A i \in 1 .. Len(<<>>) : h[i] = After(b, h[i - 1], <<>>[i])
    BY <1>1, <2>1
  <2>3. QED
    BY <2>2 DEF Runs
<1>4. QED
  BY <1>2, <1>3

\* One after the other.
LEMMA RunsJoin ==
  ASSUME NEW b, NEW s, NEW t, NEW u, NEW U, NEW xs \in Seq(U), NEW ys \in Seq(U),
         Runs(b, s, xs, t), Runs(b, t, ys, u)
  PROVE  Runs(b, s, xs \o ys, u)
<1>1. PICK h : /\ h[0] = s /\ h[Len(xs)] = t
               /\ \A i \in 1 .. Len(xs) : h[i] = After(b, h[i - 1], xs[i])
  BY DEF Runs
<1>2. PICK k : /\ k[0] = t /\ k[Len(ys)] = u
               /\ \A i \in 1 .. Len(ys) : k[i] = After(b, k[i - 1], ys[i])
  BY DEF Runs
<1> DEFINE n == Len(xs)
           m == Len(ys)
           zs == xs \o ys
           g == [i \in 0 .. n + m |-> IF i <= n THEN h[i] ELSE k[i - n]]
<1>3. n \in Nat /\ m \in Nat /\ Len(zs) = n + m
  OBVIOUS
<1>4. /\ \A i \in 1 .. n : zs[i] = xs[i]
      /\ \A i \in 1 .. m : zs[n + i] = ys[i]
  OBVIOUS
<1> HIDE DEF n, m, zs
<1>5. /\ \A i \in 0 .. n : g[i] = h[i]
      /\ \A i \in 0 .. m : g[n + i] = k[i]
  <2>1. ASSUME NEW i \in 0 .. n PROVE g[i] = h[i]
    BY <1>3
  <2>2. ASSUME NEW i \in 0 .. m PROVE g[n + i] = k[i]
    <3>1. n + i \in 0 .. n + m /\ (n + i) - n = i
      BY <1>3
    <3>2. CASE i = 0
      <4>1. n + i = n /\ n <= n
        BY <1>3, <3>2
      <4>2. QED
        BY <1>1, <1>2, <3>1, <3>2, <4>1 DEF n
    <3>3. CASE i # 0
      <4>1. ~(n + i <= n)
        BY <1>3, <3>3
      <4>2. QED
        BY <3>1, <4>1
    <3>4. QED
      BY <3>2, <3>3
  <2>3. QED
    BY <2>1, <2>2
<1> HIDE DEF g
<1>6. ASSUME NEW i \in 1 .. Len(zs) PROVE g[i] = After(b, g[i - 1], zs[i])
  <2>1. CASE i <= n
    <3>1. i \in 1 .. n /\ i \in 0 .. n /\ i - 1 \in 0 .. n
      BY <1>3, <2>1
    <3>2. QED
      BY <1>1, <1>4, <1>5, <3>1 DEF n
  <2>2. CASE ~(i <= n)
    <3>1. PICK j \in 1 .. m : i = n + j
      <4>1. i - n \in 1 .. m /\ i = n + (i - n)
        BY <1>3, <2>2
      <4>2. QED
        BY <4>1
    <3>2. i - 1 = n + (j - 1) /\ j - 1 \in 0 .. m /\ j \in 0 .. m
      BY <1>3, <3>1
    <3>3. g[i] = k[j] /\ g[i - 1] = k[j - 1] /\ zs[i] = ys[j]
      BY <1>4, <1>5, <3>1, <3>2
    <3>4. QED
      BY <1>2, <3>1, <3>3 DEF m
  <2>3. QED
    BY <2>1, <2>2
<1>7. g[0] = s /\ g[Len(zs)] = u
  <2>1. 0 \in 0 .. n /\ m \in 0 .. m
    BY <1>3
  <2>2. QED
    BY <1>1, <1>2, <1>3, <1>5, <2>1 DEF m
<1>8. Runs(b, s, zs, u)
  BY <1>6, <1>7 DEF Runs
<1>9. QED
  BY <1>8 DEF zs

\* A token or a line.
LEMMA RunsOne ==
  ASSUME NEW b, NEW s, NEW x
  PROVE  Runs(b, s, <<x>>, After(b, s, x))
<1> DEFINE e == After(b, s, x)
           h == [i \in 0 .. 1 |-> IF i = 0 THEN s ELSE e]
<1>1. h[0] = s /\ h[1] = e
  OBVIOUS
<1>2. Len(<<x>>) = 1 /\ <<x>>[1] = x
  OBVIOUS
<1> HIDE DEF h
<1>3. \A i \in 1 .. Len(<<x>>) : i = 1 /\ i - 1 = 0
  BY <1>2
<1>4. \A i \in 1 .. Len(<<x>>) : h[i] = After(b, h[i - 1], <<x>>[i])
  BY <1>1, <1>2, <1>3
<1>5. QED
  BY <1>1, <1>2, <1>4 DEF Runs

\* The rest of a run.
LEMMA RunsRest ==
  ASSUME NEW b, NEW s, NEW t, NEW U, NEW xs \in Seq(U), xs # <<>>, Runs(b, s, xs, t)
  PROVE  Runs(b, After(b, s, Head(xs)), Tail(xs), t)
<1>1. PICK h : /\ h[0] = s /\ h[Len(xs)] = t
               /\ \A i \in 1 .. Len(xs) : h[i] = After(b, h[i - 1], xs[i])
  BY DEF Runs
<1>2. /\ Len(xs) \in Nat \ {0} /\ Len(Tail(xs)) = Len(xs) - 1 /\ Head(xs) = xs[1]
      /\ \A i \in 1 .. Len(xs) - 1 : Tail(xs)[i] = xs[i + 1]
  OBVIOUS
<1> DEFINE g == [i \in 0 .. Len(xs) - 1 |-> h[i + 1]]
<1>3. g[0] = After(b, s, Head(xs))
  <2>1. 1 \in 1 .. Len(xs) /\ 0 \in 0 .. Len(xs) - 1 /\ 1 - 1 = 0 /\ 0 + 1 = 1
    BY <1>2
  <2>2. h[1] = After(b, h[0], xs[1])
    BY <1>1, <2>1
  <2>3. g[0] = h[1]
    BY <2>1
  <2>4. QED
    BY <1>1, <1>2, <2>2, <2>3
<1>4. g[Len(xs) - 1] = t
  <2>1. Len(xs) - 1 \in 0 .. Len(xs) - 1 /\ (Len(xs) - 1) + 1 = Len(xs)
    BY <1>2
  <2>2. QED
    BY <1>1, <2>1
<1>5. ASSUME NEW i \in 1 .. Len(xs) - 1 PROVE g[i] = After(b, g[i - 1], Tail(xs)[i])
  <2>1. /\ i \in 0 .. Len(xs) - 1 /\ i - 1 \in 0 .. Len(xs) - 1 /\ (i - 1) + 1 = i
        /\ i + 1 \in 1 .. Len(xs) /\ (i + 1) - 1 = i
    BY <1>2
  <2>2. g[i] = h[i + 1] /\ g[i - 1] = h[i]
    BY <2>1
  <2>3. h[i + 1] = After(b, h[(i + 1) - 1], xs[i + 1])
    BY <1>1, <2>1
  <2>4. QED
    BY <1>2, <2>1, <2>2, <2>3
<1> HIDE DEF g
<1>6. QED
  BY <1>2, <1>3, <1>4, <1>5 DEF Runs

\* Input that changes nothing.
LEMMA RunsStill ==
  ASSUME NEW b, NEW s, NEW U, NEW xs \in Seq(U), \A i \in 1 .. Len(xs) : After(b, s, xs[i]) = s
  PROVE  Runs(b, s, xs, s)
<1> DEFINE h == [i \in 0 .. Len(xs) |-> s]
<1>1. Len(xs) \in Nat
  OBVIOUS
<1>2. \A i \in 0 .. Len(xs) : h[i] = s
  OBVIOUS
<1> HIDE DEF h
<1>3. \A i \in 1 .. Len(xs) : i \in 0 .. Len(xs) /\ i - 1 \in 0 .. Len(xs)
  BY <1>1
<1>4. 0 \in 0 .. Len(xs) /\ Len(xs) \in 0 .. Len(xs)
  BY <1>1
<1>5. QED
  BY <1>2, <1>3, <1>4 DEF Runs

(***************************************************************************)
(* What one line does.                                                     *)
(***************************************************************************)

\* What a line does to the list depends on the list alone, and only #END is the
\* end.
LEMMA OnlyTheList ==
  ASSUME NEW s, Whole(s), NEW line
  PROVE  LET t == Proxy!HandleLine(s, line) IN
         /\ Whole(t) /\ t.list = ListAfter(s.list, line)
         /\ t.sawEnd = IF line[1] = "#END" THEN TRUE ELSE s.sawEnd
<1> DEFINE q == [Proxy!GfParserInit EXCEPT !.list = s.list]
<1>1. Whole(q) /\ q.list = s.list
  BY DEF Whole, Proxy!GfParserInit
<1> HIDE DEF q
<1>2. /\ DOMAIN s = {"sawHeader", "sawEnd", "status", "message", "dropped", "repo", "list"}
      /\ DOMAIN q = {"sawHeader", "sawEnd", "status", "message", "dropped", "repo", "list"}
  BY <1>1, WholeParser
<1>3. ASSUME NEW z, DOMAIN z = {"sawHeader", "sawEnd", "status", "message", "dropped", "repo", "list"},
             z.list = s.list
      PROVE  /\ Proxy!Dropped(z).list = s.list /\ Proxy!Dropped(z).sawEnd = z.sawEnd
             /\ Proxy!HandleStatus(z, line).list = s.list
             /\ Proxy!HandleStatus(z, line).sawEnd = z.sawEnd
             /\ [z EXCEPT !.sawHeader = TRUE].list = s.list
             /\ [z EXCEPT !.sawHeader = TRUE].sawEnd = z.sawEnd
             /\ [z EXCEPT !.repo = Proxy!Copy(Proxy!NextField(line, 2))].list = s.list
             /\ [z EXCEPT !.repo = Proxy!Copy(Proxy!NextField(line, 2))].sawEnd = z.sawEnd
             /\ [z EXCEPT !.sawEnd = TRUE].list = s.list
             /\ [z EXCEPT !.sawEnd = TRUE].sawEnd = TRUE
             /\ \A l : [z EXCEPT !.list = l].list = l /\ [z EXCEPT !.list = l].sawEnd = z.sawEnd
  BY <1>3 DEF Proxy!Dropped, Proxy!HandleStatus
<1>4. /\ Proxy!HandleRelease(s, line).list = Proxy!HandleRelease(q, line).list
      /\ Proxy!HandleRelease(s, line).sawEnd = s.sawEnd
  BY <1>1, <1>2, <1>3 DEF Proxy!HandleRelease
<1>5. /\ Proxy!HandleAsset(s, line).list = Proxy!HandleAsset(q, line).list
      /\ Proxy!HandleAsset(s, line).sawEnd = s.sawEnd
  BY <1>1, <1>2, <1>3 DEF Proxy!HandleAsset
<1>6. /\ Proxy!HandleMore(s, line).list = Proxy!HandleMore(q, line).list
      /\ Proxy!HandleMore(s, line).sawEnd = s.sawEnd
  BY <1>1, <1>2, <1>3 DEF Proxy!HandleMore
<1>7. Proxy!HandleLine(s, line).list = Proxy!HandleLine(q, line).list
  BY <1>1, <1>2, <1>3, <1>4, <1>5, <1>6 DEF Proxy!HandleLine
<1>8. Proxy!HandleLine(s, line).sawEnd = IF line[1] = "#END" THEN TRUE ELSE s.sawEnd
  BY <1>2, <1>3, <1>4, <1>5, <1>6 DEF Proxy!HandleLine
<1>9. QED
  BY <1>7, <1>8, AlwaysWhole DEF ListAfter, q

\* A line that is dropped, and one of each kind that is not.
LEMMA LineEffects ==
  ASSUME NEW list, NEW line
  PROVE  /\ line[1] \notin {"R", "A", "#MORE"} => ListAfter(list, line) = list
         /\ line[1] = "R" => ListAfter(list, line) =
              IF Len(list) >= MaxReleases \/ Proxy!NextField(line, 3) = Proxy!Missing THEN list
              ELSE Append(list,
                     [tag |-> Proxy!NextField(line, 3), date |-> Proxy!Copy(Proxy!NextField(line, 4)),
                      prerelease |-> Proxy!NextField(line, 5) = "true",
                      title |-> IF Proxy!Copy(Proxy!NextField(line, 6)) = NoText
                                THEN Proxy!NextField(line, 3)
                                ELSE Proxy!Copy(Proxy!NextField(line, 6)),
                      files |-> <<>>, skipped |-> 0])
         /\ line[1] = "A" => ListAfter(list, line) =
              IF \/ Len(line) < 2 \/ Proxy!NextField(line, 4) = Proxy!Missing
                 \/ Proxy!NextField(line, 6) = Proxy!Missing
                 \/ Len(list) = 0 \/ line[2] # Len(list) - 1
                 \/ Len(list[Len(list)].files) >= MaxAssets
              THEN list
              ELSE [list EXCEPT ![Len(list)].files =
                      Append(@, [name |-> Proxy!NextField(line, 4), size |-> Proxy!NextField(line, 5),
                                 path |-> Proxy!CopyPath(Proxy!NextField(line, 6))])]
         /\ line[1] = "#MORE" => ListAfter(list, line) =
              IF Len(line) >= 2 /\ Len(list) > 0 /\ line[2] = Len(list) - 1
              THEN [list EXCEPT ![Len(list)].skipped = IF Len(line) < 3 THEN 0 ELSE line[3]]
              ELSE list
<1> DEFINE s == [Proxy!GfParserInit EXCEPT !.list = list]
<1>1. Whole(s) /\ s.list = list
  BY DEF Whole, Proxy!GfParserInit
<1>2. ListAfter(list, line) = Proxy!HandleLine(s, line).list
  BY DEF ListAfter
<1> HIDE DEF s
<1>3. DOMAIN s = {"sawHeader", "sawEnd", "status", "message", "dropped", "repo", "list"}
  BY <1>1, WholeParser
<1>4. \A l : [s EXCEPT !.list = l].list = l
  BY <1>3
<1>5. /\ Proxy!Dropped(s).list = list /\ Proxy!HandleStatus(s, line).list = list
      /\ [s EXCEPT !.sawHeader = TRUE].list = list /\ [s EXCEPT !.sawEnd = TRUE].list = list
      /\ [s EXCEPT !.repo = Proxy!Copy(Proxy!NextField(line, 2))].list = list
  BY <1>1, <1>3 DEF Proxy!Dropped, Proxy!HandleStatus
<1>6. line[1] \notin {"R", "A", "#MORE"} => ListAfter(list, line) = list
  BY <1>1, <1>2, <1>5 DEF Proxy!HandleLine
<1>7. ASSUME line[1] = "R" PROVE Proxy!HandleLine(s, line) = Proxy!HandleRelease(s, line)
  BY <1>7 DEF Proxy!HandleLine
<1>8. ASSUME line[1] = "A" PROVE Proxy!HandleLine(s, line) = Proxy!HandleAsset(s, line)
  BY <1>8 DEF Proxy!HandleLine
<1>9. ASSUME line[1] = "#MORE" PROVE Proxy!HandleLine(s, line) = Proxy!HandleMore(s, line)
  BY <1>9 DEF Proxy!HandleLine
<1>10. Proxy!NoText = NoText
  BY NoTexts
<1>11. Proxy!HandleRelease(s, line).list =
              IF Len(list) >= MaxReleases \/ Proxy!NextField(line, 3) = Proxy!Missing THEN list
              ELSE Append(list,
                     [tag |-> Proxy!NextField(line, 3), date |-> Proxy!Copy(Proxy!NextField(line, 4)),
                      prerelease |-> Proxy!NextField(line, 5) = "true",
                      title |-> IF Proxy!Copy(Proxy!NextField(line, 6)) = NoText
                                THEN Proxy!NextField(line, 3)
                                ELSE Proxy!Copy(Proxy!NextField(line, 6)),
                      files |-> <<>>, skipped |-> 0])
  BY <1>1, <1>4, <1>5, <1>10 DEF Proxy!HandleRelease
<1>12. Proxy!HandleAsset(s, line).list =
              IF \/ Len(line) < 2 \/ Proxy!NextField(line, 4) = Proxy!Missing
                 \/ Proxy!NextField(line, 6) = Proxy!Missing
                 \/ Len(list) = 0 \/ line[2] # Len(list) - 1
                 \/ Len(list[Len(list)].files) >= MaxAssets
              THEN list
              ELSE [list EXCEPT ![Len(list)].files =
                      Append(@, [name |-> Proxy!NextField(line, 4), size |-> Proxy!NextField(line, 5),
                                 path |-> Proxy!CopyPath(Proxy!NextField(line, 6))])]
  BY <1>1, <1>4, <1>5 DEF Proxy!HandleAsset
<1>13. Proxy!HandleMore(s, line).list =
              IF Len(line) >= 2 /\ Len(list) > 0 /\ line[2] = Len(list) - 1
              THEN [list EXCEPT ![Len(list)].skipped = IF Len(line) < 3 THEN 0 ELSE line[3]]
              ELSE list
  BY <1>1, <1>4, <1>5 DEF Proxy!HandleMore
<1>14. QED
  BY <1>2, <1>6, <1>7, <1>8, <1>9, <1>11, <1>12, <1>13

(***************************************************************************)
(* The lines of a release, one by one.                                     *)
(***************************************************************************)

\* A release as parse.c keeps it, with files F, of which some were skipped.
Entry(r, F, skipped) ==
  [tag |-> r.tag, date |-> Proxy!ProxyDate(r), prerelease |-> r.prerelease = "true",
   title |-> IF r.name \in {Null, NoText} THEN r.tag ELSE r.name,
   files |-> F, skipped |-> skipped]

\* The last release is the one that is changed.
LEMMA LastOne ==
  ASSUME NEW list, Native!IsSeq(list), NEW x
  PROVE  /\ Len(Append(list, x)) = Len(list) + 1 /\ Len(list) \in Nat
         /\ Append(list, x)[Len(list) + 1] = x
         /\ \A y : [Append(list, x) EXCEPT ![Len(list) + 1] = y] = Append(list, y)
<1>1. \A z : /\ Native!IsSeq(Append(list, z)) /\ Len(Append(list, z)) = Len(list) + 1
             /\ \A i \in 1 .. Len(list) : Append(list, z)[i] = list[i]
             /\ Append(list, z)[Len(list) + 1] = z
             /\ Len(list) \in Nat
  BY AppendSeq
<1>2. ASSUME NEW y PROVE [Append(list, x) EXCEPT ![Len(list) + 1] = y] = Append(list, y)
  <2> DEFINE S == ToSet(Append(list, x)) \cup ToSet(Append(list, y)) \cup {y}
             l == [Append(list, x) EXCEPT ![Len(list) + 1] = y]
             m == Append(list, x)
             k == Append(list, y)
  <2>1. m \in Seq(S) /\ k \in Seq(S)
    <3>1. m \in Seq(ToSet(m)) /\ k \in Seq(ToSet(k))
      BY <1>1 DEF Native!IsSeq, Native!ToSet, ToSet
    <3>2. ToSet(m) \subseteq S /\ ToSet(k) \subseteq S
      OBVIOUS
    <3> HIDE DEF S, m, k
    <3>3. QED
      BY <3>1, <3>2, SeqMonotonic
  <2>2. /\ Len(m) = Len(list) + 1 /\ Len(k) = Len(list) + 1 /\ Len(list) \in Nat
        /\ \A i \in 1 .. Len(list) : m[i] = k[i]
        /\ k[Len(list) + 1] = y
    BY <1>1
  <2>3. y \in S
    OBVIOUS
  <2>4. l = [m EXCEPT ![Len(list) + 1] = y]
    OBVIOUS
  <2> HIDE DEF S, l, m, k
  <2>5. l \in Seq(S) /\ Len(l) = Len(m)
    BY <2>1, <2>2, <2>3, <2>4
  <2>6. \A i \in 1 .. Len(l) : l[i] = k[i]
    BY <2>1, <2>2, <2>4, <2>5
  <2>7. l = k
    BY <2>1, <2>2, <2>5, <2>6, SameSeq
  <2>8. QED
    BY <2>7 DEF l, k
<1>3. QED
  BY <1>1, <1>2

\* A line of a file adds it to the release read last.
LEMMA FileLine ==
  ASSUME NEW list, Native!IsSeq(list), NEW r, NEW F, Len(F) < MaxAssets,
         NEW line, line[1] = "A", Len(line) = 6, line[2] = Len(list),
         line[4] # Proxy!Missing, line[6] # Proxy!Missing
  PROVE  ListAfter(Append(list, Entry(r, F, 0)), line)
           = Append(list, Entry(r, Append(F, [name |-> line[4], size |-> line[5],
                                              path |-> Proxy!CopyPath(line[6])]), 0))
<1> DEFINE e == Entry(r, F, 0)
           name == line[4]
           size == line[5]
           url  == line[6]
           m == Append(list, e)
           f == [name |-> name, size |-> size, path |-> Proxy!CopyPath(url)]
           n == Len(list) + 1
<1>1. /\ Proxy!NextField(line, 4) = name /\ Proxy!NextField(line, 5) = size
      /\ Proxy!NextField(line, 6) = url
  BY DEF Proxy!NextField
<1>2. Len(m) = n /\ Len(list) \in Nat /\ m[n] = e
      /\ \A y : [m EXCEPT ![n] = y] = Append(list, y)
  BY LastOne
<1> HIDE DEF f
<1>3. e.files = F /\ [e EXCEPT !.files = Append(F, f)] = Entry(r, Append(F, f), 0)
  <2>1. \A g : [e EXCEPT !.files = g] = Entry(r, g, 0)
    BY DEF Entry
  <2>2. e.files = F
    BY DEF Entry
  <2> HIDE DEF e, f
  <2>3. QED
    BY <2>1, <2>2
<1> HIDE DEF m, e, f, name, size, url
<1>4. MaxAssets \in Nat /\ ~(Len(F) >= MaxAssets)
  BY ChoiceAssumption
<1>5. /\ Len(m) # 0 /\ line[2] = Len(m) - 1 /\ ~(Len(line) < 2)
      /\ Proxy!NextField(line, 4) # Proxy!Missing /\ Proxy!NextField(line, 6) # Proxy!Missing
      /\ ~(Len(m[Len(m)].files) >= MaxAssets)
  BY <1>1, <1>2, <1>3, <1>4 DEF name, url
<1>6. ListAfter(m, line) = [m EXCEPT ![n].files = Append(@, f)]
  <2>1. ListAfter(m, line) = [m EXCEPT ![Len(m)].files =
          Append(@, [name |-> Proxy!NextField(line, 4), size |-> Proxy!NextField(line, 5),
                     path |-> Proxy!CopyPath(Proxy!NextField(line, 6))])]
    BY <1>1, <1>5, LineEffects
  <2>2. QED
    BY <1>1, <1>2, <2>1 DEF f
<1>7. [m EXCEPT ![n].files = Append(@, f)] = [m EXCEPT ![n] = [m[n] EXCEPT !.files = Append(m[n].files, f)]]
  OBVIOUS
<1>8. [m[n] EXCEPT !.files = Append(m[n].files, f)] = Entry(r, Append(F, f), 0)
  BY <1>2, <1>3
<1>9. ListAfter(m, line) = Append(list, Entry(r, Append(F, f), 0))
  BY <1>2, <1>6, <1>7, <1>8
<1>10. QED
  BY <1>9 DEF m, e, f, name, size, url

\* The line of a release adds it, without files.
LEMMA ReleaseLine ==
  ASSUME NEW list, Native!IsSeq(list), Len(list) < MaxReleases, NEW r, NEW i,
         r.tag # NoText, Proxy!Missing \notin TextsOf(r)
  PROVE  ListAfter(list, <<"R", i, r.tag, Proxy!ProxyDate(r), r.prerelease, Proxy!ProxyTitle(r)>>)
           = Append(list, Entry(r, <<>>, 0))
<1> DEFINE date == Proxy!ProxyDate(r)
           title == Proxy!ProxyTitle(r)
           line == <<"R", i, r.tag, date, r.prerelease, title>>
<1>1. /\ line[1] = "R" /\ Proxy!NextField(line, 3) = r.tag /\ Proxy!NextField(line, 4) = date
      /\ Proxy!NextField(line, 5) = r.prerelease /\ Proxy!NextField(line, 6) = title
  BY DEF Proxy!NextField
<1>2. /\ r.tag # Proxy!Missing /\ r.name # Proxy!Missing /\ r.created # Proxy!Missing
      /\ r.published # Proxy!Missing
  BY DEF TextsOf
<1>3. Proxy!NoText = NoText /\ Proxy!Null = Null
  BY DEF Proxy!NoText, NoText, Proxy!Null, Null
<1>4. date # Proxy!Missing
  BY <1>2 DEF Proxy!ProxyDate
<1>5. title = IF r.name \in {Null, NoText} THEN r.tag ELSE r.name
  BY <1>3 DEF Proxy!ProxyTitle
<1>6. title # Proxy!Missing /\ title # NoText
  BY <1>2, <1>5
<1>7. Proxy!Copy(date) = date /\ Proxy!Copy(title) = title
  BY <1>4, <1>6 DEF Proxy!Copy
<1>8. ~(Len(list) >= MaxReleases)
  <2>1. Len(list) \in Nat
    BY LastOne
  <2>2. QED
    BY <2>1, ChoiceAssumption
<1> HIDE DEF line, date, title
<1>9. ListAfter(list, line) =
        Append(list, [tag |-> r.tag, date |-> date, prerelease |-> r.prerelease = "true",
                      title |-> title, files |-> <<>>, skipped |-> 0])
  <2>1. ListAfter(list, line) =
          Append(list, [tag |-> Proxy!NextField(line, 3),
                        date |-> Proxy!Copy(Proxy!NextField(line, 4)),
                        prerelease |-> Proxy!NextField(line, 5) = "true",
                        title |-> IF Proxy!Copy(Proxy!NextField(line, 6)) = NoText
                                  THEN Proxy!NextField(line, 3)
                                  ELSE Proxy!Copy(Proxy!NextField(line, 6)),
                        files |-> <<>>, skipped |-> 0])
    BY <1>1, <1>2, <1>8, LineEffects
  <2>2. QED
    BY <1>1, <1>6, <1>7, <2>1
<1>10. Entry(r, <<>>, 0) = [tag |-> r.tag, date |-> date, prerelease |-> r.prerelease = "true",
                           title |-> title, files |-> <<>>, skipped |-> 0]
  BY <1>5 DEF Entry, date
<1>11. QED
  BY <1>9, <1>10 DEF line, date, title

\* The line of the files that did not fit.
LEMMA MoreLine ==
  ASSUME NEW list, Native!IsSeq(list), NEW r, NEW F, NEW lost
  PROVE  ListAfter(Append(list, Entry(r, F, 0)), <<"#MORE", Len(list), lost>>)
           = Append(list, Entry(r, F, lost))
<1> DEFINE e == Entry(r, F, 0)
           line == <<"#MORE", Len(list), lost>>
           m == Append(list, e)
           n == Len(list) + 1
<1>1. line[1] = "#MORE" /\ Len(line) = 3 /\ line[2] = Len(list) /\ line[3] = lost
  OBVIOUS
<1>2. Len(m) = n /\ Len(list) \in Nat /\ m[n] = e
      /\ \A y : [m EXCEPT ![n] = y] = Append(list, y)
  BY LastOne
<1>3. [e EXCEPT !.skipped = lost] = Entry(r, F, lost)
  BY DEF Entry
<1> HIDE DEF m, e, line
<1>4. Len(line) >= 2 /\ Len(m) > 0 /\ line[2] = Len(m) - 1 /\ ~(Len(line) < 3)
  BY <1>1, <1>2
<1>5. ListAfter(m, line) = [m EXCEPT ![n].skipped = lost]
  <2>1. ListAfter(m, line) = [m EXCEPT ![Len(m)].skipped = IF Len(line) < 3 THEN 0 ELSE line[3]]
    BY <1>1, <1>4, LineEffects
  <2>2. QED
    BY <1>1, <1>2, <1>4, <2>1
<1>6. [m EXCEPT ![n].skipped = lost] = [m EXCEPT ![n] = [m[n] EXCEPT !.skipped = lost]]
  OBVIOUS
<1>7. ListAfter(m, line) = Append(list, Entry(r, F, lost))
  BY <1>2, <1>3, <1>5, <1>6
<1>8. QED
  BY <1>7 DEF m, e, line

(***************************************************************************)
(* All lines of a release.                                                 *)
(***************************************************************************)

\* The first k of the files K as they fit, and the zip after them.
FirstFiles(K, k) == [j \in 1 .. k |-> [name |-> K[j].name, size |-> K[j].size,
                                       path |-> Proxy!CopyPath(K[j].url)]]
ZipFile(r) == [name |-> SourceName[r.tag], size |-> "0", path |-> Proxy!CopyPath(r.zip)]
ZipFits(r) == r.zip # NoText /\ Len(BestFiles(r.assets)) < MaxAssets
ShownFiles(r) == FirstFiles(BestFiles(r.assets), Len(BestFiles(r.assets)))
                   \o IF ZipFits(r) THEN <<ZipFile(r)>> ELSE <<>>
NotShown(r) == Len(r.assets) - Len(BestFiles(r.assets))
                 + IF r.zip # NoText /\ ~ZipFits(r) THEN 1 ELSE 0

\* A release as the proxy backend shows it.
Shown(r) == Entry(r, ShownFiles(r), NotShown(r))

\* The best files of a release are some of its files, as many as fit.
LEMMA BestOf ==
  ASSUME NEW r \in Native!Release
  PROVE  /\ BestFiles(r.assets) \in Seq(ToSet(r.assets))
         /\ Len(BestFiles(r.assets)) \in Nat /\ Len(BestFiles(r.assets)) <= MaxAssets
         /\ Len(r.assets) \in Nat /\ Len(r.assets) - Len(BestFiles(r.assets)) \in Nat
         /\ Proxy!SelectAssets(r.assets).kept = BestFiles(r.assets)
         /\ Proxy!SelectAssets(r.assets).skipped = Len(r.assets) - Len(BestFiles(r.assets))
<1> DEFINE items == r.assets
           S == ToSet(items)
<1>1. items \in Seq(S)
  <2>1. items \in Seq(Native!Asset)
    BY DEF Native!Release
  <2>2. Native!IsSeq(items)
    BY <2>1, InSeq
  <2>3. QED
    BY <2>2 DEF Native!IsSeq, ToSet, Native!ToSet
<1> HIDE DEF S, items
<1>2. /\ Proxy!SelectAssets(items).kept = BestFiles(items)
      /\ Proxy!SelectAssets(items).skipped = Len(items) - Len(BestFiles(items))
      /\ BestFiles(items) \in Seq(S)
  BY <1>1, SelectsBest
<1>3. Proxy!SelectAssets(items) \in Accepted(S)
  BY <1>1, Selected
<1>4. /\ Proxy!SelectAssets(items).skipped \in Nat
      /\ Len(Proxy!SelectAssets(items).kept) <= MaxAssets
  BY <1>3 DEF Accepted
<1>5. QED
  BY <1>1, <1>2, <1>4 DEF S, items

\* The files that fit, one more each time.
LEMMA FirstFilesGrow ==
  ASSUME NEW K, NEW k \in Nat
  PROVE  /\ FirstFiles(K, 0) = <<>> /\ Len(FirstFiles(K, k)) = k
         /\ FirstFiles(K, k + 1) = Append(FirstFiles(K, k),
              [name |-> K[k + 1].name, size |-> K[k + 1].size, path |-> Proxy!CopyPath(K[k + 1].url)])
<1> DEFINE f(j) == [name |-> K[j].name, size |-> K[j].size, path |-> Proxy!CopyPath(K[j].url)]
           S == {f(j) : j \in Nat}
<1>1. \A n \in Nat : FirstFiles(K, n) = [j \in 1 .. n |-> f(j)]
  BY DEF FirstFiles
<1> HIDE DEF f
<1>2. \A n \in Nat : /\ FirstFiles(K, n) \in Seq(S) /\ Len(FirstFiles(K, n)) = n
                     /\ \A j \in 1 .. n : FirstFiles(K, n)[j] = f(j)
  BY <1>1
<1>3. FirstFiles(K, 0) = <<>>
  <2>1. PICK z \in Nat : z = 0
    OBVIOUS
  <2>2. FirstFiles(K, z) \in Seq(S) /\ Len(FirstFiles(K, z)) = z
    BY <1>2
  <2> HIDE DEF S
  <2>3. QED
    BY <2>1, <2>2, EmptySeq
<1> DEFINE g == FirstFiles(K, k)
           h == FirstFiles(K, k + 1)
           a == Append(g, f(k + 1))
<1>4. g \in Seq(S) /\ Len(g) = k /\ \A j \in 1 .. k : g[j] = f(j)
  BY <1>2
<1>5. h \in Seq(S) /\ Len(h) = k + 1 /\ \A j \in 1 .. k + 1 : h[j] = f(j)
  <2>1. PICK m \in Nat : m = k + 1
    OBVIOUS
  <2>2. /\ FirstFiles(K, m) \in Seq(S) /\ Len(FirstFiles(K, m)) = m
        /\ \A j \in 1 .. m : FirstFiles(K, m)[j] = f(j)
    BY <1>2
  <2>3. h = FirstFiles(K, m)
    BY <2>1
  <2> HIDE DEF h, S
  <2>4. QED
    BY <2>1, <2>2, <2>3
<1>6. f(k + 1) \in S
  OBVIOUS
<1> HIDE DEF g, h, S
<1>7. a \in Seq(S) /\ Len(a) = k + 1 /\ \A j \in 1 .. k + 1 : a[j] = f(j)
  BY <1>4, <1>6
<1> HIDE DEF a
<1>8. h = a
  BY <1>5, <1>7, SameSeq
<1>9. QED
  BY <1>3, <1>4, <1>8 DEF g, h, a, f

\* The lines of the files of a release.
LEMMA FilesRun ==
  ASSUME NEW list, Native!IsSeq(list), NEW r, NEW K \in Seq(ToSet(r.assets)),
         Len(K) <= MaxAssets, Proxy!Missing \notin TextsOf(r)
  PROVE  Runs("proxy", Append(list, Entry(r, <<>>, 0)),
              [k \in 1 .. Len(K) |-> <<"A", Len(list), k - 1, K[k].name, K[k].size, K[k].url>>],
              Append(list, Entry(r, FirstFiles(K, Len(K)), 0)))
<1> DEFINE n == Len(K)
           xs == [k \in 1 .. n |-> <<"A", Len(list), k - 1, K[k].name, K[k].size, K[k].url>>]
           h == [k \in 0 .. n |-> Append(list, Entry(r, FirstFiles(K, k), 0))]
<1>1. n \in Nat /\ \A k \in 1 .. n : K[k] \in ToSet(r.assets)
  OBVIOUS
<1>2. Len(xs) = n
  OBVIOUS
<1>3. ASSUME NEW i \in 1 .. n PROVE h[i] = After("proxy", h[i - 1], xs[i])
  <2>1. PICK k \in Nat : i = k + 1
    <3>1. i - 1 \in Nat /\ i = (i - 1) + 1
      BY <1>1
    <3>2. QED
      BY <3>1
  <2>2. k \in 0 .. n /\ i \in 0 .. n /\ i - 1 = k /\ k < MaxAssets
    BY <1>1, <2>1, ChoiceAssumption
  <2>3. K[i].name # Proxy!Missing /\ K[i].url # Proxy!Missing
    BY <1>1 DEF TextsOf
  <2>4. xs[i] = <<"A", Len(list), i - 1, K[i].name, K[i].size, K[i].url>>
    OBVIOUS
  <2>5. h[i] = Append(list, Entry(r, FirstFiles(K, i), 0))
    BY <2>2
  <2>6. h[i - 1] = Append(list, Entry(r, FirstFiles(K, k), 0))
    BY <2>2
  <2> DEFINE f == [name |-> K[i].name, size |-> K[i].size, path |-> Proxy!CopyPath(K[i].url)]
  <2>7. FirstFiles(K, i) = Append(FirstFiles(K, k), f) /\ Len(FirstFiles(K, k)) = k
    BY <2>1, FirstFilesGrow
  <2>8. PICK line : line = xs[i]
    OBVIOUS
  <2>9. /\ line[1] = "A" /\ Len(line) = 6 /\ line[2] = Len(list) /\ line[4] = K[i].name
        /\ line[5] = K[i].size /\ line[6] = K[i].url
    BY <2>4, <2>8
  <2> HIDE DEF h, xs, n, f
  <2>12. PICK F : F = FirstFiles(K, k)
    OBVIOUS
  <2>13. Len(F) < MaxAssets /\ line[4] # Proxy!Missing /\ line[6] # Proxy!Missing
    BY <2>2, <2>3, <2>7, <2>9, <2>12
  <2>14. ListAfter(Append(list, Entry(r, F, 0)), line)
          = Append(list, Entry(r, Append(F, [name |-> line[4], size |-> line[5],
                                             path |-> Proxy!CopyPath(line[6])]), 0))
    BY <2>9, <2>13, FileLine
  <2>10. ListAfter(Append(list, Entry(r, FirstFiles(K, k), 0)), line)
          = Append(list, Entry(r, Append(FirstFiles(K, k),
              [name |-> line[4], size |-> line[5], path |-> Proxy!CopyPath(line[6])]), 0))
    BY <2>12, <2>14
  <2>11. QED
    BY <2>5, <2>6, <2>7, <2>8, <2>9, <2>10 DEF After, f
<1>4. h[0] = Append(list, Entry(r, <<>>, 0)) /\ h[n] = Append(list, Entry(r, FirstFiles(K, n), 0))
  <2>1. 0 \in 0 .. n /\ n \in 0 .. n
    BY <1>1
  <2>2. FirstFiles(K, 0) = <<>>
    BY FirstFilesGrow
  <2> HIDE DEF n
  <2>3. QED
    BY <2>1, <2>2
<1> HIDE DEF h, xs
<1>5. Runs("proxy", Append(list, Entry(r, <<>>, 0)), xs, Append(list, Entry(r, FirstFiles(K, n), 0)))
  BY <1>2, <1>3, <1>4 DEF Runs
<1>6. QED
  BY <1>5 DEF xs

\* All the lines of a release.
LEMMA ReleaseRuns ==
  ASSUME NEW list, Native!IsSeq(list), Len(list) < MaxReleases, NEW r \in Native!Release,
         r.tag # NoText, Proxy!Missing \notin TextsOf(r)
  PROVE  Runs("proxy", list, Proxy!ReleaseLines(r, Len(list)), Append(list, Shown(r)))
<1> DEFINE i == Len(list)
           K == BestFiles(r.assets)
           n == Len(K)
           zip == ZipFits(r)
           lost == NotShown(r)
           l1 == <<"R", i, r.tag, Proxy!ProxyDate(r), r.prerelease, Proxy!ProxyTitle(r)>>
           l3 == <<"A", i, n, SourceName[r.tag], "0", r.zip>>
           l4 == <<"#MORE", i, lost>>
           s2 == [k \in 1 .. n |-> <<"A", i, k - 1, K[k].name, K[k].size, K[k].url>>]
           s3 == IF zip THEN <<l3>> ELSE <<>>
           s4 == IF lost > 0 THEN <<l4>> ELSE <<>>
           F2 == FirstFiles(K, n)
           F3 == F2 \o IF zip THEN <<ZipFile(r)>> ELSE <<>>
           R(F, k) == Append(list, Entry(r, F, k))
<1>1. /\ K \in Seq(ToSet(r.assets)) /\ n \in Nat /\ n <= MaxAssets
      /\ Proxy!SelectAssets(r.assets).kept = K
      /\ Proxy!SelectAssets(r.assets).skipped = Len(r.assets) - n
      /\ Len(r.assets) - n \in Nat
  BY BestOf
<1>2. Proxy!NoText = NoText
  BY NoTexts
<1>3. Proxy!ReleaseLines(r, i) = <<l1>> \o s2 \o s3 \o s4
  BY <1>1, <1>2 DEF Proxy!ReleaseLines, ZipFits, NotShown
<1>4. Shown(r) = Entry(r, F3, lost) /\ lost \in Nat
  <2>1. Shown(r) = Entry(r, F3, lost)
    BY DEF Shown, ShownFiles
  <2>2. lost = (Len(r.assets) - n) + IF r.zip # NoText /\ ~zip THEN 1 ELSE 0
    BY DEF NotShown
  <2> HIDE DEF lost, zip
  <2>3. lost \in Nat
    <3>1. PICK m \in Nat : m = Len(r.assets) - n
      BY <1>1
    <3> DEFINE x == IF r.zip # NoText /\ ~zip THEN 1 ELSE 0
    <3>2. x = 0 \/ x = 1
      OBVIOUS
    <3>3. lost = m + x
      BY <2>2, <3>1
    <3> HIDE DEF x
    <3>4. QED
      BY <3>2, <3>3
  <2>4. QED
    BY <2>1, <2>3
<1>5. Runs("proxy", list, <<l1>>, R(<<>>, 0))
  <2>1. ListAfter(list, l1) = R(<<>>, 0)
    BY ReleaseLine
  <2>2. After("proxy", list, l1) = ListAfter(list, l1)
    BY DEF After
  <2> HIDE DEF l1, R
  <2>3. QED
    BY <2>1, <2>2, RunsOne
<1>6. Runs("proxy", R(<<>>, 0), s2, R(F2, 0))
  BY <1>1, FilesRun
<1>7. Runs("proxy", R(F2, 0), s3, R(F3, 0))
  <2>1. CASE zip
    <3>1. SourceName[r.tag] # Proxy!Missing /\ r.zip # Proxy!Missing
      BY DEF TextsOf
    <3>2. Len(F2) < MaxAssets
      BY <1>1, <2>1, FirstFilesGrow DEF ZipFits
    <3>3. ListAfter(R(F2, 0), l3) = R(Append(F2, ZipFile(r)), 0)
      <4>1. PICK line : line = l3
        OBVIOUS
      <4>2. /\ line[1] = "A" /\ Len(line) = 6 /\ line[2] = Len(list)
            /\ line[4] = SourceName[r.tag] /\ line[5] = "0" /\ line[6] = r.zip
        BY <4>1
      <4> HIDE DEF F2, n, l3
      <4>5. line[4] # Proxy!Missing /\ line[6] # Proxy!Missing
        BY <3>1, <4>2
      <4>6. PICK F : F = F2
        OBVIOUS
      <4>7. Len(F) < MaxAssets
        BY <3>2, <4>6
      <4>8. ListAfter(Append(list, Entry(r, F, 0)), line)
              = Append(list, Entry(r, Append(F, [name |-> line[4], size |-> line[5],
                                                 path |-> Proxy!CopyPath(line[6])]), 0))
        BY <4>2, <4>5, <4>7, FileLine
      <4>3. ListAfter(R(F2, 0), line) = R(Append(F2,
              [name |-> line[4], size |-> line[5], path |-> Proxy!CopyPath(line[6])]), 0)
        BY <4>6, <4>8
      <4>4. QED
        BY <4>1, <4>2, <4>3 DEF ZipFile
    <3>4. Append(F2, ZipFile(r)) = F3
      <4>1. F2 \in Seq({F2[j] : j \in 1 .. n})
        BY <1>1 DEF FirstFiles
      <4> HIDE DEF F2
      <4>2. QED
        BY <2>1, <4>1
    <3>5. After("proxy", R(F2, 0), l3) = R(F3, 0)
      BY <3>3, <3>4 DEF After
    <3>6. s3 = <<l3>>
      BY <2>1
    <3> HIDE DEF l3, F2, F3, R, s3
    <3>7. QED
      BY <3>5, <3>6, RunsOne
  <2>2. CASE ~zip
    <3>1. s3 = <<>>
      BY <2>2
    <3>2. F3 = F2
      <4>1. F2 \in Seq({F2[j] : j \in 1 .. n})
        BY <1>1 DEF FirstFiles
      <4> HIDE DEF F2
      <4>2. QED
        BY <2>2, <4>1
    <3> HIDE DEF s3, F2, F3, R
    <3>3. QED
      BY <3>1, <3>2, RunsNone
  <2>3. QED
    BY <2>1, <2>2
<1>8. Runs("proxy", R(F3, 0), s4, R(F3, lost))
  <2>1. CASE lost > 0
    <3>1. ListAfter(R(F3, 0), l4) = R(F3, lost)
      BY MoreLine
    <3>2. After("proxy", R(F3, 0), l4) = R(F3, lost)
      BY <3>1 DEF After
    <3>3. s4 = <<l4>>
      BY <2>1
    <3> HIDE DEF l4, F3, R, s4, lost
    <3>4. QED
      BY <3>2, <3>3, RunsOne
  <2>2. CASE ~(lost > 0)
    <3>1. s4 = <<>> /\ lost = 0
      BY <1>4, <2>2
    <3> HIDE DEF s4, F3, R, lost
    <3>2. QED
      BY <3>1, RunsNone
  <2>3. QED
    BY <2>1, <2>2
<1> DEFINE U == {l1, l3, l4} \cup {s2[k] : k \in 1 .. n}
<1>9. s2 \in Seq(U)
  BY <1>1
<1> HIDE DEF s2, l1, l3, l4
<1>10. <<l1>> \in Seq(U) /\ s3 \in Seq(U) /\ s4 \in Seq(U)
  <2>1. l1 \in U /\ l3 \in U /\ l4 \in U
    OBVIOUS
  <2> HIDE DEF U, zip, lost
  <2>2. QED
    BY <2>1
<1> HIDE DEF s3, s4, U, F2, F3, R
<1>11. <<l1>> \o s2 \in Seq(U) /\ (<<l1>> \o s2) \o s3 \in Seq(U)
  BY <1>9, <1>10
<1>12. Runs("proxy", list, <<l1>> \o s2, R(F2, 0))
  BY <1>5, <1>6, <1>9, <1>10, RunsJoin
<1>13. Runs("proxy", list, (<<l1>> \o s2) \o s3, R(F3, 0))
  BY <1>7, <1>10, <1>11, <1>12, RunsJoin
<1>14. Runs("proxy", list, ((<<l1>> \o s2) \o s3) \o s4, R(F3, lost))
  BY <1>8, <1>10, <1>11, <1>13, RunsJoin
<1>15. QED
  BY <1>3, <1>4, <1>14 DEF R

(***************************************************************************)
(* A release as it is expected is the one that is shown.                   *)
(***************************************************************************)

\* The list that is expected is made of the same files.
LEMMA ProxyBest == ASSUME NEW items PROVE Proxy!BestFiles(items) = BestFiles(items)
<1>1. \A name : Proxy!Rank(name) = Rank(name)
  BY DEF Proxy!Rank, Rank
<1>2. \A i, rank : Proxy!CountUpTo(items, i, rank) = CountUpTo(items, i, rank)
  <2> TAKE i, rank
  <2>1. {j \in 1 .. i : Proxy!Rank(items[j].name) = rank} = {j \in 1 .. i : Rank(items[j].name) = rank}
    BY <1>1
  <2>2. Proxy!CountUpTo(items, i, rank)
          = Proxy!Cardinality({j \in 1 .. i : Proxy!Rank(items[j].name) = rank})
    BY DEF Proxy!CountUpTo
  <2>3. \A S : Proxy!Cardinality(S) = Cardinality(S)
    BY DEF Proxy!Cardinality, Cardinality
  <2>4. QED
    BY <2>1, <2>2, <2>3 DEF CountUpTo
<1>3. Proxy!OthersThatFit(items) = OthersThatFit(items)
  BY <1>2 DEF Proxy!OthersThatFit, OthersThatFit
<1>4. \A i : Proxy!Stays(items, i) <=> Stays(items, i)
  BY <1>2, <1>3 DEF Proxy!Stays, Stays
<1>5. [i \in 1 .. Len(items) |-> IF Proxy!Stays(items, i) THEN <<items[i]>> ELSE <<>>]
        = [i \in 1 .. Len(items) |-> IF Stays(items, i) THEN <<items[i]>> ELSE <<>>]
  BY <1>4
<1>6. \A seqs : Proxy!FlattenSeq(seqs) = FlattenSeq(seqs)
  BY DEF Proxy!FlattenSeq, FlattenSeq
<1>7. QED
  BY <1>5, <1>6 DEF Proxy!BestFiles, BestFiles

\* A file after others.
LEMMA OneMore ==
  ASSUME NEW n \in Nat, NEW f, Native!IsSeq(f), Len(f) = n, NEW e
  PROVE  /\ Native!IsSeq(f \o <<e>>) /\ Len(f \o <<e>>) = n + 1 /\ (f \o <<e>>)[n + 1] = e
         /\ \A i \in 1 .. n : (f \o <<e>>)[i] = f[i]
<1> DEFINE S == ToSet(f) \cup {e}
<1>1. f \in Seq(ToSet(f))
  BY DEF Native!IsSeq, Native!ToSet, ToSet
<1>2. f \in Seq(S) /\ e \in S
  <2>1. ToSet(f) \subseteq S /\ e \in S
    OBVIOUS
  <2> HIDE DEF S
  <2>2. QED
    BY <1>1, <2>1, SeqMonotonic
<1> HIDE DEF S
<1>3. f \o <<e>> = Append(f, e)
  BY <1>2
<1>4. /\ Native!IsSeq(Append(f, e)) /\ Len(Append(f, e)) = Len(f) + 1
      /\ \A i \in 1 .. Len(f) : Append(f, e)[i] = f[i]
      /\ Append(f, e)[Len(f) + 1] = e
  BY AppendSeq
<1> HIDE DEF S
<1>5. QED
  BY <1>3, <1>4

\* Files as the proxy backend shows them, one by one.
LEMMA FittedFiles ==
  ASSUME NEW r \in Native!Release
  PROVE  /\ Native!IsSeq(Proxy!Expected(r).files) /\ Native!IsSeq(ShownFiles(r))
         /\ Len(ShownFiles(r)) = Len(Proxy!Expected(r).files)
         /\ \A k \in 1 .. Len(ShownFiles(r)) :
              ShownFiles(r)[k] = Proxy!Fitted(Proxy!Expected(r).files[k])
<1> DEFINE K == BestFiles(r.assets)
           n == Len(K)
           g == [i \in 1 .. n |-> Proxy!FileOf(K[i])]
           s == Proxy!Source(r)
           F == FirstFiles(K, n)
           t == ZipFile(r)
           G == Proxy!Expected(r).files
           H == ShownFiles(r)
<1>1. n \in Nat
  BY BestOf
<1>2. Proxy!NoText = NoText /\ Proxy!BestFiles(r.assets) = K
  BY NoTexts, ProxyBest
<1>3. G = g \o IF ZipFits(r) THEN <<s>> ELSE <<>>
  BY <1>2 DEF Proxy!Expected, ZipFits
<1>4. H = F \o IF ZipFits(r) THEN <<t>> ELSE <<>>
  BY DEF ShownFiles
<1>5. \A i \in 1 .. n : F[i] = Proxy!Fitted(g[i])
  BY DEF FirstFiles, Proxy!FileOf, Proxy!Fitted
<1>6. t = Proxy!Fitted(s)
  BY DEF ZipFile, Proxy!Source, Proxy!Fitted
<1>7. Native!IsSeq(g) /\ Len(g) = n /\ Native!IsSeq(F) /\ Len(F) = n
  <2>1. g \in Seq({g[i] : i \in 1 .. n}) /\ Len(g) = n
    BY <1>1
  <2>2. F \in Seq({F[i] : i \in 1 .. n}) /\ Len(F) = n
    BY <1>1 DEF FirstFiles
  <2> HIDE DEF g, F
  <2>3. QED
    BY <2>1, <2>2, InSeq
<1> HIDE DEF n, g, s, F, t, G, H
<1>8. CASE ZipFits(r)
  <2>1. G = g \o <<s>> /\ H = F \o <<t>>
    BY <1>3, <1>4, <1>8
  <2>2. /\ Native!IsSeq(G) /\ Len(G) = n + 1 /\ G[n + 1] = s
        /\ \A i \in 1 .. n : G[i] = g[i]
    BY <1>1, <1>7, <2>1, OneMore
  <2>3. /\ Native!IsSeq(H) /\ Len(H) = n + 1 /\ H[n + 1] = t
        /\ \A i \in 1 .. n : H[i] = F[i]
    BY <1>1, <1>7, <2>1, OneMore
  <2>4. ASSUME NEW k \in 1 .. Len(H) PROVE H[k] = Proxy!Fitted(G[k])
    <3>1. k \in 1 .. n \/ k = n + 1
      BY <1>1, <2>3
    <3>2. QED
      BY <1>5, <1>6, <2>2, <2>3, <3>1
  <2>5. QED
    BY <2>2, <2>3, <2>4 DEF G, H
<1>9. CASE ~ZipFits(r)
  <2>1. G = g /\ H = F
    <3>1. g \in Seq(ToSet(g)) /\ F \in Seq(ToSet(F))
      BY <1>7 DEF Native!IsSeq, Native!ToSet, ToSet
    <3>2. g \o <<>> = g /\ F \o <<>> = F
      BY <3>1
    <3>3. QED
      BY <1>3, <1>4, <1>9, <3>2
  <2>2. QED
    BY <1>5, <1>7, <2>1 DEF G, H
<1>10. QED
  BY <1>8, <1>9

\* A release as it is expected, its paths as they fit, and as it is shown.
LEMMA ExpectedShown ==
  ASSUME NEW r \in Native!Release
  PROVE  /\ Shown(r) = [Proxy!Expected(r) EXCEPT
                          !.files = [k \in 1 .. Len(@) |-> Proxy!Fitted(@[k])]]
         /\ ToSet(ShownFiles(r)) = {Proxy!Fitted(f) : f \in ToSet(Proxy!Expected(r).files)}
<1> DEFINE e == Proxy!Expected(r)
           G == e.files
           H == ShownFiles(r)
           M == [k \in 1 .. Len(G) |-> Proxy!Fitted(G[k])]
<1>1. /\ Native!IsSeq(G) /\ Native!IsSeq(H) /\ Len(H) = Len(G)
      /\ \A k \in 1 .. Len(H) : H[k] = Proxy!Fitted(G[k])
  BY FittedFiles
<1> HIDE DEF e, H
<1>2. /\ Len(G) \in Nat /\ DOMAIN G = 1 .. Len(G) /\ DOMAIN H = 1 .. Len(G)
      /\ H = [k \in 1 .. Len(G) |-> H[k]]
  BY <1>1 DEF Native!IsSeq
<1>3. M = H
  BY <1>1, <1>2
<1>4. ToSet(H) = {Proxy!Fitted(f) : f \in ToSet(G)}
  BY <1>1, <1>2 DEF ToSet
<1>5. Shown(r) = [e EXCEPT !.files = H]
  <2>1. Proxy!NoText = NoText /\ Proxy!Null = Null /\ Proxy!BestFiles(r.assets) = BestFiles(r.assets)
    BY NoTexts, ProxyBest DEF Proxy!Null, Null
  <2>2. Shown(r) = [tag |-> r.tag, date |-> Proxy!ProxyDate(r), prerelease |-> r.prerelease = "true",
                    title |-> IF r.name \in {Null, NoText} THEN r.tag ELSE r.name,
                    files |-> H, skipped |-> NotShown(r)]
    BY DEF Shown, Entry, H
  <2>3. e.skipped = NotShown(r)
    BY <2>1 DEF e, Proxy!Expected, NotShown, ZipFits
  <2>4. e.date = Proxy!ProxyDate(r)
    BY <2>1 DEF e, Proxy!Expected, Proxy!ProxyDate
  <2>5. e.title = IF r.name \in {Null, NoText} THEN r.tag ELSE r.name
    BY <2>1 DEF e, Proxy!Expected
  <2>6. e.tag = r.tag /\ e.prerelease = (r.prerelease = "true")
    BY DEF e, Proxy!Expected
  <2>7. e = [tag |-> e.tag, date |-> e.date, title |-> e.title, prerelease |-> e.prerelease,
             files |-> e.files, skipped |-> e.skipped]
    BY DEF e, Proxy!Expected
  <2>8. [e EXCEPT !.files = H] = [tag |-> e.tag, date |-> e.date, title |-> e.title,
                  prerelease |-> e.prerelease, files |-> H, skipped |-> e.skipped]
    BY <2>7
  <2>9. QED
    BY <2>2, <2>3, <2>4, <2>5, <2>6, <2>8
<1>6. [e EXCEPT !.files = [k \in 1 .. Len(@) |-> Proxy!Fitted(@[k])]] = [e EXCEPT !.files = M]
  OBVIOUS
<1>7. QED
  BY <1>3, <1>4, <1>5, <1>6 DEF e, H

(***************************************************************************)
(* The lines that come when the list is full.                              *)
(***************************************************************************)

\* The file a line stands for.
FileOn(line) == [name |-> line[4], size |-> line[5], path |-> Proxy!CopyPath(line[6])]

\* The first line of a release that is the i-th sent, and the ones that follow it.
FirstLine(r, i, line) == /\ line = <<"R", i, r.tag, Proxy!ProxyDate(r), r.prerelease, Proxy!ProxyTitle(r)>>
                         /\ line[1] = "R" /\ Len(line) = 6 /\ line[2] = i /\ line[3] = r.tag
LaterLine(r, i, line) ==
  /\ line[2] = i
  /\ \/ line[1] = "A" /\ Len(line) = 6 /\ FileOn(line) \in ToSet(ShownFiles(r))
     \/ line[1] = "#MORE" /\ Len(line) = 3

\* What each line of a release says of it.
LEMMA AboutLines ==
  ASSUME NEW r \in Native!Release, NEW i
  PROVE  \E l1, U, xs : /\ Proxy!ReleaseLines(r, i) = <<l1>> \o xs /\ xs \in Seq(U)
                        /\ FirstLine(r, i, l1) /\ \A line \in U : LaterLine(r, i, line)
<1> DEFINE K == BestFiles(r.assets)
           n == Len(K)
           zip == ZipFits(r)
           lost == NotShown(r)
           l1 == <<"R", i, r.tag, Proxy!ProxyDate(r), r.prerelease, Proxy!ProxyTitle(r)>>
           l3 == <<"A", i, n, SourceName[r.tag], "0", r.zip>>
           l4 == <<"#MORE", i, lost>>
           s2 == [k \in 1 .. n |-> <<"A", i, k - 1, K[k].name, K[k].size, K[k].url>>]
           s3 == IF zip THEN <<l3>> ELSE <<>>
           s4 == IF lost > 0 THEN <<l4>> ELSE <<>>
           U == {line \in {s2[k] : k \in 1 .. n} \cup {l3, l4} : LaterLine(r, i, line)}
<1>1. /\ n \in Nat
      /\ Proxy!SelectAssets(r.assets).kept = K
      /\ Proxy!SelectAssets(r.assets).skipped = Len(r.assets) - n
  BY BestOf
<1>2. Proxy!NoText = NoText
  BY NoTexts
<1>3. Proxy!ReleaseLines(r, i) = <<l1>> \o s2 \o s3 \o s4
  BY <1>1, <1>2 DEF Proxy!ReleaseLines, ZipFits, NotShown
<1>4. FirstLine(r, i, l1)
  BY DEF FirstLine
<1> DEFINE F == FirstFiles(K, n)
           H == ShownFiles(r)
<1>5. H = F \o IF zip THEN <<ZipFile(r)>> ELSE <<>>
  BY DEF ShownFiles
<1>6. /\ Native!IsSeq(F) /\ Len(F) = n
      /\ \A k \in 1 .. n : F[k] = [name |-> K[k].name, size |-> K[k].size,
                                   path |-> Proxy!CopyPath(K[k].url)]
  <2>1. F \in Seq({F[k] : k \in 1 .. n})
    BY <1>1 DEF FirstFiles
  <2>2. Native!IsSeq(F)
    <3> HIDE DEF F
    <3>1. QED
      BY <2>1, InSeq
  <2>3. QED
    BY <1>1, <2>2, FirstFilesGrow DEF FirstFiles
<1>7. /\ \A k \in 1 .. n : F[k] \in ToSet(H)
      /\ zip => ZipFile(r) \in ToSet(H)
  <2> HIDE DEF F, H, K, n
  <2>1. CASE zip
    <3>1. /\ Native!IsSeq(H) /\ Len(H) = n + 1 /\ H[n + 1] = ZipFile(r)
          /\ \A k \in 1 .. n : H[k] = F[k]
      BY <1>1, <1>5, <1>6, <2>1, OneMore
    <3>2. DOMAIN H = 1 .. n + 1
      BY <3>1 DEF Native!IsSeq
    <3>3. n + 1 \in DOMAIN H /\ \A k \in 1 .. n : k \in DOMAIN H
      BY <1>1, <3>2
    <3>4. QED
      BY <3>1, <3>3 DEF ToSet
  <2>2. CASE ~zip
    <3>1. F \in Seq(ToSet(F))
      BY <1>6 DEF Native!IsSeq, Native!ToSet, ToSet
    <3>2. H = F
      BY <1>5, <2>2, <3>1
    <3>3. DOMAIN H = 1 .. n
      BY <1>6, <3>2 DEF Native!IsSeq
    <3>4. QED
      BY <2>2, <3>2, <3>3 DEF ToSet
  <2>3. QED
    BY <2>1, <2>2
<1> HIDE DEF F, H
<1>8. ASSUME NEW k \in 1 .. n PROVE s2[k] \in U
  <2>1. s2[k] = <<"A", i, k - 1, K[k].name, K[k].size, K[k].url>>
    OBVIOUS
  <2>2. PICK line : line = s2[k]
    OBVIOUS
  <2>3. /\ line[1] = "A" /\ Len(line) = 6 /\ line[2] = i
        /\ FileOn(line) = [name |-> K[k].name, size |-> K[k].size,
                           path |-> Proxy!CopyPath(K[k].url)]
    BY <2>1, <2>2 DEF FileOn
  <2>4. FileOn(line) \in ToSet(H)
    BY <1>6, <1>7, <2>3
  <2>5. LaterLine(r, i, line)
    BY <2>3, <2>4 DEF LaterLine, H
  <2> HIDE DEF s2
  <2>6. QED
    BY <2>2, <2>5
<1>9. zip => l3 \in U
  <2>1. SUFFICES ASSUME zip PROVE l3 \in U
    OBVIOUS
  <2>2. PICK line : line = l3
    OBVIOUS
  <2>3. /\ line[1] = "A" /\ Len(line) = 6 /\ line[2] = i /\ FileOn(line) = ZipFile(r)
    BY <2>2 DEF FileOn, ZipFile
  <2>4. LaterLine(r, i, line)
    BY <1>7, <2>1, <2>3 DEF LaterLine, H
  <2> HIDE DEF l3
  <2>5. QED
    BY <2>2, <2>4
<1>10. l4 \in U
  <2>1. PICK line : line = l4
    OBVIOUS
  <2>2. line[1] = "#MORE" /\ line[2] = i /\ Len(line) = 3
    BY <2>1
  <2>3. LaterLine(r, i, line)
    BY <2>2 DEF LaterLine
  <2> HIDE DEF l4
  <2>4. QED
    BY <2>1, <2>3
<1>11. \A line \in U : LaterLine(r, i, line)
  OBVIOUS
<1>12. s2 \in Seq(U)
  <2>1. s2 = [k \in 1 .. n |-> s2[k]]
    OBVIOUS
  <2> HIDE DEF s2, U
  <2>2. QED
    BY <1>1, <1>8, <2>1
<1> HIDE DEF s2, l1, l3, l4, U
<1>13. s3 \in Seq(U) /\ s4 \in Seq(U)
  BY <1>9, <1>10
<1> HIDE DEF s3, s4
<1>14. Proxy!ReleaseLines(r, i) = <<l1>> \o (s2 \o s3 \o s4)
  <2> DEFINE V == U \cup {l1}
  <2>1. U \subseteq V /\ l1 \in V
    OBVIOUS
  <2> HIDE DEF V
  <2>2. s2 \in Seq(V) /\ s3 \in Seq(V) /\ s4 \in Seq(V) /\ <<l1>> \in Seq(V)
    BY <1>12, <1>13, <2>1, SeqMonotonic
  <2>3. <<l1>> \o s2 \o s3 \o s4 = <<l1>> \o (s2 \o s3 \o s4)
    BY <2>2
  <2>4. QED
    BY <1>3, <2>3
<1>15. s2 \o s3 \o s4 \in Seq(U)
  BY <1>12, <1>13
<1>16. QED
  BY <1>4, <1>11, <1>14, <1>15

\* No line of a release that comes after the last one that fits changes the list.
LEMMA FullStill ==
  ASSUME NEW list, Len(list) = MaxReleases, NEW i \in Nat, i >= MaxReleases, NEW r, NEW line,
         FirstLine(r, i, line) \/ LaterLine(r, i, line)
  PROVE  ListAfter(list, line) = list
<1>1. Len(list) \in Nat /\ Len(list) >= MaxReleases /\ i # Len(list) - 1 /\ line[2] = i
  BY ChoiceAssumption DEF FirstLine, LaterLine
<1>2. CASE line[1] = "R"
  BY <1>1, <1>2, LineEffects
<1>3. CASE line[1] = "A"
  BY <1>1, <1>3, LineEffects
<1>4. CASE line[1] = "#MORE"
  BY <1>1, <1>4, LineEffects
<1>5. QED
  BY <1>2, <1>3, <1>4 DEF FirstLine, LaterLine

\* All the lines of such a release.
LEMMA FullRuns ==
  ASSUME NEW list, Len(list) = MaxReleases, NEW i \in Nat, i >= MaxReleases,
         NEW r \in Native!Release
  PROVE  Runs("proxy", list, Proxy!ReleaseLines(r, i), list)
<1>1. PICK l1, U, xs : /\ Proxy!ReleaseLines(r, i) = <<l1>> \o xs /\ xs \in Seq(U)
                       /\ FirstLine(r, i, l1) /\ \A line \in U : LaterLine(r, i, line)
  BY AboutLines
<1> DEFINE V == U \cup {l1}
<1>2. \A line \in V : After("proxy", list, line) = list
  BY <1>1, FullStill DEF After
<1>3. U \subseteq V /\ l1 \in V
  OBVIOUS
<1> HIDE DEF V
<1>4. xs \in Seq(V) /\ <<l1>> \in Seq(V)
  BY <1>1, <1>3, SeqMonotonic
<1> DEFINE ys == <<l1>> \o xs
<1>5. ys \in Seq(V)
  BY <1>4
<1> HIDE DEF ys
<1>6. \A k \in 1 .. Len(ys) : After("proxy", list, ys[k]) = list
  BY <1>2, <1>5
<1>7. Runs("proxy", list, ys, list)
  BY <1>5, <1>6, RunsStill
<1>8. QED
  BY <1>1, <1>7 DEF ys

(***************************************************************************)
(* All lines of a list.                                                    *)
(***************************************************************************)

\* The first of the releases that are shown, as many as fit.
FirstReleases(shown, n) == [i \in 1 .. AtMost(n, MaxReleases) |-> Shown(shown[i])]

\* One more each time, as long as there is room.
LEMMA FirstReleasesGrow ==
  ASSUME NEW shown, NEW n \in Nat
  PROVE  /\ FirstReleases(shown, 0) = <<>> /\ Native!IsSeq(FirstReleases(shown, n))
         /\ Len(FirstReleases(shown, n)) = AtMost(n, MaxReleases)
         /\ n < MaxReleases => FirstReleases(shown, n + 1)
                                 = Append(FirstReleases(shown, n), Shown(shown[n + 1]))
         /\ n >= MaxReleases => FirstReleases(shown, n + 1) = FirstReleases(shown, n)
<1> DEFINE f(j) == Shown(shown[j])
           S == {f(j) : j \in Nat}
           F(m) == [j \in 1 .. m |-> f(j)]
<1>1. /\ MaxReleases \in Nat /\ AtMost(n, MaxReleases) \in Nat
      /\ AtMost(n + 1, MaxReleases) = AtMost(n, MaxReleases) + IF n + 1 <= MaxReleases THEN 1 ELSE 0
      /\ n < MaxReleases => AtMost(n, MaxReleases) = n
  BY ChoiceAssumption DEF AtMost
<1>2. \A m : FirstReleases(shown, m) = F(AtMost(m, MaxReleases))
  BY DEF FirstReleases
<1> HIDE DEF f
<1>3. \A m \in Nat : F(m) \in Seq(S) /\ Len(F(m)) = m /\ \A j \in 1 .. m : F(m)[j] = f(j)
  OBVIOUS
<1>4. \A m \in Nat : f(m) \in S
  OBVIOUS
<1> HIDE DEF F, S
<1>5. FirstReleases(shown, 0) = <<>>
  <2>1. AtMost(0, MaxReleases) = 0
    BY ChoiceAssumption DEF AtMost
  <2>2. PICK z \in Nat : z = 0
    OBVIOUS
  <2>3. F(z) \in Seq(S) /\ Len(F(z)) = z
    BY <1>3
  <2>4. F(z) = <<>>
    BY <2>2, <2>3, EmptySeq
  <2>5. QED
    BY <1>2, <2>1, <2>2, <2>4
<1>6. ASSUME NEW m \in Nat PROVE F(m + 1) = Append(F(m), f(m + 1))
  <2> DEFINE g == F(m)
             h == F(m + 1)
             a == Append(g, f(m + 1))
  <2>1. g \in Seq(S) /\ Len(g) = m /\ \A j \in 1 .. m : g[j] = f(j)
    BY <1>3
  <2>2. m + 1 \in Nat
    OBVIOUS
  <2>3. h \in Seq(S) /\ Len(h) = m + 1 /\ \A j \in 1 .. m + 1 : h[j] = f(j)
    BY <1>3, <2>2
  <2>4. f(m + 1) \in S
    BY <1>4, <2>2
  <2> HIDE DEF g, h
  <2>5. a \in Seq(S) /\ Len(a) = m + 1 /\ \A j \in 1 .. m + 1 : a[j] = f(j)
    BY <2>1, <2>4
  <2> HIDE DEF a
  <2>6. h = a
    BY <2>3, <2>5, SameSeq
  <2>7. QED
    BY <2>6 DEF h, g, a
<1>7. ASSUME n < MaxReleases
      PROVE  FirstReleases(shown, n + 1) = Append(FirstReleases(shown, n), f(n + 1))
  <2>1. AtMost(n, MaxReleases) = n /\ AtMost(n + 1, MaxReleases) = n + 1
    BY <1>1, <1>7
  <2>2. QED
    BY <1>2, <1>6, <2>1
<1>8. ASSUME n >= MaxReleases PROVE FirstReleases(shown, n + 1) = FirstReleases(shown, n)
  <2>1. AtMost(n + 1, MaxReleases) = AtMost(n, MaxReleases)
    BY <1>1, <1>8
  <2>2. QED
    BY <1>2, <2>1
<1>9. F(AtMost(n, MaxReleases)) \in Seq(S) /\ Len(F(AtMost(n, MaxReleases))) = AtMost(n, MaxReleases)
  BY <1>1, <1>3
<1>10. Native!IsSeq(FirstReleases(shown, n)) /\ Len(FirstReleases(shown, n)) = AtMost(n, MaxReleases)
  BY <1>2, <1>9, InSeq
<1>11. QED
  BY <1>5, <1>7, <1>8, <1>10 DEF f

\* The releases the proxy sends are releases of the answer.
LEMMA Sending ==
  ASSUME NEW a \in Answers
  PROVE  /\ Len(Proxy!Published(a)) \in Nat
         /\ \A i \in 1 .. Len(Proxy!Published(a)) :
              LET r == Proxy!Published(a)[i] IN
              r \in Native!Release /\ r.tag # NoText /\ Proxy!Missing \notin TextsOf(r)
<1> DEFINE S == ToSet(a)
           shown == Proxy!Published(a)
<1>1. a \in Seq(Native!Release)
  BY AnswersAssumption DEF Release, Asset, Native!Release, Native!Asset
<1>2. a \in Seq(S) /\ S \subseteq Native!Release
  BY <1>1 DEF ToSet
<1>3. \A r \in S : r.tag # NoText /\ Proxy!Missing \notin TextsOf(r)
  BY TextsAssumption
<1> HIDE DEF S, shown
<1>4. shown \in Seq(S)
  BY <1>2, Publishing DEF shown
<1>5. Len(shown) \in Nat /\ \A i \in 1 .. Len(shown) : shown[i] \in S
  BY <1>4
<1>6. QED
  BY <1>2, <1>3, <1>5 DEF shown

\* The parts of a body, and all the lines of releases in them.
Parts(shown) == [i \in 1 .. Len(shown) |-> Proxy!ReleaseLines(shown[i], i - 1)]

\* A line of one of the releases.
Says(shown, line) == \E j \in 1 .. Len(shown) : \E k \in Nat :
  k = j - 1 /\ (FirstLine(shown[j], k, line) \/ LaterLine(shown[j], k, line))

\* They are sequences of lines.
LEMMA PartsOf ==
  ASSUME NEW a \in Answers, NEW shown, shown = Proxy!Published(a)
  PROVE  \E S : /\ Parts(shown) \in Seq(Seq(S)) /\ Len(Parts(shown)) = Len(shown)
                /\ \A line \in S : Says(shown, line)
<1> DEFINE N == Len(shown)
           P == Parts(shown)
           S == {line \in UNION {ToSet(P[i]) : i \in 1 .. N} : Says(shown, line)}
<1>1. N \in Nat /\ \A i \in 1 .. N : shown[i] \in Native!Release
  BY Sending
<1>2. P = [i \in 1 .. N |-> Proxy!ReleaseLines(shown[i], i - 1)]
  BY DEF Parts
<1> HIDE DEF N, P
<1>3. ASSUME NEW i \in 1 .. N PROVE P[i] \in Seq(S)
  <2>1. PICK k \in Nat : k = i - 1
    <3>1. i - 1 \in Nat
      BY <1>1
    <3>2. QED
      BY <3>1
  <2>2. PICK l1, U, xs : /\ Proxy!ReleaseLines(shown[i], k) = <<l1>> \o xs /\ xs \in Seq(U)
                         /\ FirstLine(shown[i], k, l1)
                         /\ \A line \in U : LaterLine(shown[i], k, line)
    BY <1>1, AboutLines
  <2>3. P[i] = <<l1>> \o xs
    BY <1>2, <2>1, <2>2
  <2> DEFINE V == {line \in U \cup {l1} : Says(shown, line)}
             ys == <<l1>> \o xs
  <2>4. U \subseteq V /\ l1 \in V /\ \A line \in V : Says(shown, line)
    BY <2>1, <2>2 DEF Says, N
  <2> HIDE DEF V
  <2>5. xs \in Seq(V) /\ <<l1>> \in Seq(V)
    BY <2>2, <2>4, SeqMonotonic
  <2>6. ys \in Seq(V)
    BY <2>5
  <2> HIDE DEF ys
  <2>7. ys \in Seq(ToSet(ys)) /\ ToSet(ys) \subseteq V
    BY <2>6 DEF ToSet
  <2>8. P[i] = ys
    BY <2>3 DEF ys
  <2>9. ToSet(P[i]) \subseteq S
    BY <2>4, <2>7, <2>8
  <2> HIDE DEF S
  <2>10. QED
    BY <2>7, <2>8, <2>9, SeqMonotonic
<1>4. P \in Seq(Seq(S)) /\ Len(P) = N
  <2> HIDE DEF S
  <2>1. \A i \in 1 .. N : P[i] = Proxy!ReleaseLines(shown[i], i - 1)
    BY <1>2
  <2>2. P = [i \in 1 .. N |-> P[i]]
    BY <1>2, <2>1
  <2>3. QED
    BY <1>1, <1>3, <2>2
<1>5. \A line \in S : Says(shown, line)
  OBVIOUS
<1>6. QED
  BY <1>4, <1>5 DEF P, N

\* The lines of the releases, part after part.
LEMMA PartsRun ==
  ASSUME NEW a \in Answers, NEW shown, shown = Proxy!Published(a), NEW S,
         Parts(shown) \in Seq(Seq(S)), Len(Parts(shown)) = Len(shown)
  PROVE  /\ FlattenSeq(Parts(shown)) \in Seq(S)
         /\ Runs("proxy", <<>>, FlattenSeq(Parts(shown)), FirstReleases(shown, Len(shown)))
<1> DEFINE N == Len(shown)
           P == Parts(shown)
           M == MaxReleases
<1>1. N \in Nat /\ M \in Nat
      /\ \A i \in 1 .. N : /\ shown[i] \in Native!Release /\ shown[i].tag # NoText
                           /\ Proxy!Missing \notin TextsOf(shown[i])
  BY Sending, ChoiceAssumption
<1>2. \A i \in 1 .. N : P[i] = Proxy!ReleaseLines(shown[i], i - 1)
  BY DEF Parts
<1>3. P \in Seq(Seq(S)) /\ N = Len(P) /\ \A i \in 1 .. N : P[i] \in Seq(S)
  <2> HIDE DEF P
  <2>1. P \in Seq(Seq(S)) /\ N = Len(P)
    BY DEF P
  <2>2. QED
    BY <2>1
<1> HIDE DEF N, P, M
<1>4. PICK c \in [0 .. N -> Seq(S)] : Flattens(c, P, N)
  BY <1>3, Flattening
<1> DEFINE T == {n \in Nat : n <= N => Runs("proxy", <<>>, c[n], FirstReleases(shown, n))}
<1>5. 0 \in T
  <2>1. c[0] = <<>> /\ FirstReleases(shown, 0) = <<>>
    BY <1>4, FirstReleasesGrow DEF Flattens
  <2>2. Runs("proxy", <<>>, <<>>, <<>>)
    BY RunsNone
  <2>3. QED
    BY <2>1, <2>2
<1>6. ASSUME NEW n \in T PROVE n + 1 \in T
  <2>1. n \in Nat
    OBVIOUS
  <2>2. ASSUME n + 1 <= N PROVE Runs("proxy", <<>>, c[n + 1], FirstReleases(shown, n + 1))
    <3>1. PICK m \in 1 .. N : m = n + 1 /\ m - 1 = n
      BY <1>1, <2>1, <2>2
    <3>2. n <= N /\ n \in 0 .. N
      BY <1>1, <2>1, <2>2
    <3>3. Runs("proxy", <<>>, c[n], FirstReleases(shown, n)) /\ c[n] \in Seq(S)
      BY <1>4, <3>2
    <3>4. c[m] = c[n] \o P[m] /\ P[m] = Proxy!ReleaseLines(shown[m], n) /\ P[m] \in Seq(S)
      BY <1>2, <1>3, <1>4, <3>1 DEF Flattens
    <3>5. PICK r : r = shown[m]
      OBVIOUS
    <3>6. r \in Native!Release /\ r.tag # NoText /\ Proxy!Missing \notin TextsOf(r)
      BY <1>1, <3>5
    <3>7. PICK list : list = FirstReleases(shown, n)
      OBVIOUS
    <3>8. Native!IsSeq(list) /\ Len(list) = AtMost(n, MaxReleases)
      BY <2>1, <3>7, FirstReleasesGrow
    <3>9. Runs("proxy", list, P[m], FirstReleases(shown, m))
      <4>1. CASE n < MaxReleases
        <5>1. Len(list) = n /\ Len(list) < MaxReleases
          BY <2>1, <3>8, <4>1, ChoiceAssumption DEF AtMost
        <5>2. FirstReleases(shown, m) = Append(list, Shown(r))
          BY <2>1, <3>1, <3>5, <3>7, <4>1, FirstReleasesGrow
        <5>3. Runs("proxy", list, Proxy!ReleaseLines(r, Len(list)), Append(list, Shown(r)))
          BY <3>6, <3>8, <5>1, ReleaseRuns
        <5>4. QED
          BY <3>4, <3>5, <5>1, <5>2, <5>3
      <4>2. CASE n >= MaxReleases
        <5>1. Len(list) = MaxReleases
          BY <2>1, <3>8, <4>2, ChoiceAssumption DEF AtMost
        <5>2. FirstReleases(shown, m) = list
          BY <2>1, <3>1, <3>7, <4>2, FirstReleasesGrow
        <5>3. Runs("proxy", list, Proxy!ReleaseLines(r, n), list)
          BY <2>1, <3>6, <4>2, <5>1, FullRuns
        <5>4. QED
          BY <3>4, <3>5, <5>2, <5>3
      <4>3. QED
        BY <1>1, <2>1, <4>1, <4>2 DEF M
    <3>10. Runs("proxy", <<>>, c[n] \o P[m], FirstReleases(shown, m))
      BY <3>3, <3>4, <3>7, <3>9, RunsJoin
    <3>11. QED
      BY <3>1, <3>4, <3>10
  <2>3. QED
    BY <2>1, <2>2
<1>7. N \in T
  <2> HIDE DEF T
  <2>1. T \subseteq Nat
    BY DEF T
  <2>2. QED
    BY <1>1, <1>5, <1>6, <2>1, Induction
<1>8. Runs("proxy", <<>>, c[N], FirstReleases(shown, N)) /\ c[N] \in Seq(S)
  BY <1>1, <1>4, <1>7
<1>9. FlattenSeq(P) = c[N]
  BY <1>4 DEF Flattens
<1>10. QED
  BY <1>8, <1>9 DEF P, N

=============================================================================
