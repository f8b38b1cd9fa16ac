------------------------- MODULE ProxyServer_proofs -------------------------
(***************************************************************************)
(* Proofs about ProxyServer: for any threads, lifetimes, clock and number  *)
(* of restarts, how old an answer may be, how long its links last, and why *)
(* a link is refused.                                                      *)
(***************************************************************************)
EXTENDS ProxyServer, TLAPS

USE DEF server, request

-----------------------------------------------------------------------------
(* Arithmetic of seconds and instants. *)

LEMMA Positive ==
  ASSUME NEW a \in Nat \ {0}, NEW b \in Nat \ {0}
  PROVE  a * b \in Nat \ {0}
OBVIOUS

LEMMA Monotone ==
  ASSUME NEW a \in Nat, NEW b \in Nat, NEW c \in Nat, a <= b
  PROVE  c * a <= c * b
OBVIOUS

\* The lifetimes, in instants.
LEMMA Lifetimes ==
  /\ Sub * CACHE_TTL \in Nat \ {0} /\ Sub * ErrorTtl \in Nat \ {0}
  /\ \A kind : Sub * Ttl(kind) \in Nat \ {0} /\ Sub * Ttl(kind) <= Sub * CACHE_TTL
  /\ Ttl("list") = CACHE_TTL /\ Ttl("error") = ErrorTtl
<1>1. {CACHE_TTL, LINK_TTL, ErrorTtl, Sub} \subseteq Nat \ {0} /\ ErrorTtl <= CACHE_TTL
  BY ProxyAssumption
<1>2. Sub * CACHE_TTL \in Nat \ {0} /\ Sub * ErrorTtl \in Nat \ {0}
  BY <1>1, Positive
<1>3. Sub * ErrorTtl <= Sub * CACHE_TTL
  BY <1>1, Monotone
<1>4. Sub * CACHE_TTL <= Sub * CACHE_TTL
  BY <1>2
<1>5. \A kind : Ttl(kind) = CACHE_TTL \/ Ttl(kind) = ErrorTtl
  BY DEF Ttl
<1>6. QED
  BY <1>2, <1>3, <1>4, <1>5, Zenon DEF Ttl

\* sign_asset rounds the time down to a second, and a link still outlives a list
\* that is as old as the cache lets it be.
LEMMA LinkOutlives ==
  ASSUME NEW made \in Nat, NEW n \in Nat, n - made < Sub * CACHE_TTL
  PROVE  (made \div Sub + LINK_TTL) * Sub - n > Sub * (LINK_TTL - CACHE_TTL - 1)
<1>1. CACHE_TTL \in Nat /\ LINK_TTL \in Nat /\ Sub \in Nat /\ Sub > 0
  BY ProxyAssumption
<1> DEFINE q == made \div Sub
<1>2. q \in Int /\ q * Sub > made - Sub
  BY <1>1
<1>3. (q + LINK_TTL) * Sub = q * Sub + Sub * LINK_TTL
  BY <1>1, <1>2
<1>4. Sub * (LINK_TTL - CACHE_TTL - 1) = Sub * LINK_TTL - Sub * CACHE_TTL - Sub
  BY <1>1
<1>5. q * Sub \in Int /\ Sub * LINK_TTL \in Int /\ Sub * CACHE_TTL \in Int
  BY <1>1, <1>2
<1> HIDE DEF q
<1>6. ASSUME NEW w \in Int, NEW v \in Int, NEW x \in Int, NEW y \in Int, NEW z \in Int,
             w = x + y, v = y - z - Sub, x > made - Sub, n - made < z
      PROVE  w - n > v
  BY <1>1, <1>6
<1>7. (q + LINK_TTL) * Sub \in Int /\ Sub * (LINK_TTL - CACHE_TTL - 1) \in Int
  BY <1>1, <1>2
<1>8. QED
  BY <1>2, <1>3, <1>4, <1>5, <1>6, <1>7, Zenon DEF q

-----------------------------------------------------------------------------
(* Types of what is sent and kept. *)

LEMMA Constants ==
  /\ MaxTime \in Nat /\ MaxPublished \in Nat /\ MaxRestarts \in Nat
  /\ Sub \in Nat \ {0} /\ CACHE_TTL \in Nat \ {0} /\ LINK_TTL \in Nat \ {0}
BY ProxyAssumption

LEMMA Blank ==
  /\ NoBody.kind = "none" /\ NoBody.of = <<>> /\ NoBody.secret = 0 /\ Len(NoBody.of) = 0
  /\ NoBody \notin Bodies
BY DEF NoBody, Bodies

LEMMA ListedType ==
  ASSUME TypeOK
  PROVE  Listed \in Seq(Releases) /\ Len(Listed) = published
         /\ \A i \in 1 .. published : Listed[i] \in Releases
BY Constants DEF TypeOK, Listed, Releases

LEMMA SecretType ==
  ASSUME TypeOK
  PROVE  Secret \in 0 .. MaxRestarts /\ (configured => Secret = 0)
BY Constants DEF TypeOK, Secret

\* The body made of GitHub's answer is current.
LEMMA FetchedMade ==
  ASSUME TypeOK, NEW kind \in {"list", "error", "unreachable"}
  PROVE  LET b == [kind |-> kind, made |-> now, secret |-> Secret,
                   of |-> IF kind = "list" THEN Listed ELSE <<>>]
         IN Made(b) /\ b.kind = kind /\ b.made = now
<1> DEFINE o == IF kind = "list" THEN Listed ELSE <<>>
<1>1. o \in Seq(Releases) /\ Len(o) <= published
  <2>1. <<>> \in Seq(Releases) /\ Len(<<>>) = 0
    OBVIOUS
  <2>2. QED
    BY <2>1, ListedType DEF TypeOK
<1>2. now \in 0 .. MaxTime /\ Secret \in 0 .. MaxRestarts /\ now <= now
  BY SecretType, Constants DEF TypeOK
<1> HIDE DEF o
<1>3. [kind |-> kind, made |-> now, secret |-> Secret, of |-> o] \in Bodies
  BY <1>1, <1>2 DEF Bodies
<1>4. QED
  BY <1>1, <1>2, <1>3 DEF Made, o

\* An answer that is made now is recent, whatever it says.
LEMMA MadeNow ==
  ASSUME TypeOK, NEW b \in Bodies, b.made = now
  PROVE  Recent(b)
<1>1. now - b.made = 0
  BY Constants DEF TypeOK
<1>2. b.kind \in {"list", "error", "unreachable"}
  BY DEF Bodies
<1>3. now - b.made < Sub * CACHE_TTL /\ now - b.made < Sub * ErrorTtl
  BY <1>1, Lifetimes
<1>4. QED
  BY <1>1, <1>2, <1>3, Zenon DEF Recent

-----------------------------------------------------------------------------
(* One lemma per operation. *)

LEMMA LookupStep ==
  ASSUME PInv, NEW t \in Threads, Lookup(t)
  PROVE  PInv'
<1> USE DEF PInv
<1>1. /\ pc[t] = "idle" /\ start' = [start EXCEPT ![t] = now]
      /\ UNCHANGED <<now, published, server, cache, link, file, shown>>
  BY DEF Lookup
<1>a. Secret' = Secret /\ NoEntry' = NoEntry
  BY <1>1 DEF Secret
<1>b. \A b : (Made(b)' <=> Made(b)) /\ (Recent(b)' <=> Recent(b))
  BY <1>1, <1>a DEF Made, Recent
<1>2. start' \in [Threads -> 0 .. MaxTime] /\ start'[t] = now
      /\ \A u \in Threads : u # t => start'[u] = start[u]
  BY <1>1 DEF TypeOK
<1>n. now \in Nat /\ now <= now
  BY Constants DEF TypeOK
<1>3. CASE cache # NoEntry /\ cache.expiry > now
  <2>1. pc' = [pc EXCEPT ![t] = "answered"] /\ body' = [body EXCEPT ![t] = cache.body]
    BY <1>3 DEF Lookup
  <2>2. Made(cache.body) /\ cache.body.kind # "unreachable"
        /\ cache.expiry <= cache.body.made + Sub * Ttl(cache.body.kind)
    BY <1>3 DEF CacheIsCurrent
  <2>3. /\ pc'[t] = "answered" /\ body'[t] = cache.body
        /\ \A u \in Threads : u # t => pc'[u] = pc[u] /\ body'[u] = body[u]
    BY <2>1 DEF TypeOK
  <2>4. cache.body \in Bodies /\ cache.body.made \in Nat /\ cache.expiry \in Int
    BY <1>3, <2>2, Lifetimes, Constants DEF TypeOK, Made, Bodies
  <2>5. TypeOK'
    <3>1. pc' \in [Threads -> {"idle", "fetch", "store", "answered", "refused", "resolve", "stream"}]
          /\ body' \in [Threads -> Bodies \cup {NoBody}]
      BY <2>1, <2>4 DEF TypeOK
    <3>2. QED
      BY <1>1, <1>2, <3>1 DEF TypeOK
  <2>6. now - cache.body.made < Sub * Ttl(cache.body.kind)
    <3>1. Sub * Ttl(cache.body.kind) \in Nat
      BY Lifetimes
    <3>2. QED
      BY <1>3, <1>n, <2>2, <2>4, <3>1
  <2>7. AnswerIsRecent'
    <3> SUFFICES ASSUME NEW u \in Threads, pc'[u] = "answered" PROVE Recent(body[u])'
      BY DEF AnswerIsRecent
    <3>1. CASE u = t
      <4>1. cache.body.kind \in {"list", "error"}
        BY <2>2, <2>4 DEF Bodies
      <4>2. QED
        <5>1. Recent(cache.body)
          BY <2>6, <4>1, Lifetimes DEF Recent
        <5>2. QED
          BY <1>b, <2>3, <3>1, <5>1
    <3>2. CASE u # t
      BY <1>b, <2>3, <3>2 DEF AnswerIsRecent
    <3>3. QED
      BY <3>1, <3>2
  <2>8. ThreadsAreCurrent'
    BY <1>1, <1>b, <1>2, <2>2, <2>3 DEF ThreadsAreCurrent
  <2>9. CacheIsCurrent' /\ ShownOnce'
    BY <1>1, <1>a, <1>b DEF CacheIsCurrent, ShownOnce
  <2>10. LinksStood' /\ RefusedForAReason'
    BY <1>1, <2>3 DEF LinksStood, RefusedForAReason
  <2>11. QED
    BY <2>5, <2>7, <2>8, <2>9, <2>10
<1>4. CASE ~(cache # NoEntry /\ cache.expiry > now)
  <2>1. pc' = [pc EXCEPT ![t] = "fetch"] /\ body' = body
    BY <1>4 DEF Lookup
  <2>2. pc'[t] = "fetch" /\ \A u \in Threads : u # t => pc'[u] = pc[u]
    BY <2>1 DEF TypeOK
  <2>3. TypeOK'
    BY <1>1, <1>2, <2>1 DEF TypeOK
  <2>4. ThreadsAreCurrent'
    BY <1>1, <1>b, <1>2, <1>n, <2>1, <2>2 DEF ThreadsAreCurrent
  <2>5. CacheIsCurrent' /\ ShownOnce'
    BY <1>1, <1>a, <1>b DEF CacheIsCurrent, ShownOnce
  <2>6. LinksStood' /\ RefusedForAReason' /\ AnswerIsRecent'
    BY <1>1, <1>b, <2>1, <2>2 DEF LinksStood, RefusedForAReason, AnswerIsRecent
  <2>7. QED
    BY <2>3, <2>4, <2>5, <2>6
<1>5. QED
  BY <1>3, <1>4

LEMMA FetchedStep ==
  ASSUME PInv, NEW t \in Threads, Fetched(t)
  PROVE  PInv'
<1> USE DEF PInv
<1>1. pc[t] = "fetch" /\ UNCHANGED <<now, published, server, cache, start, link, file, shown>>
  BY DEF Fetched
<1>a. Secret' = Secret /\ NoEntry' = NoEntry
  BY <1>1 DEF Secret
<1>b. \A b : (Made(b)' <=> Made(b)) /\ (Recent(b)' <=> Recent(b))
  BY <1>1, <1>a DEF Made, Recent
<1>2. PICK kind \in {"list", "error", "unreachable"} :
        /\ body' = [body EXCEPT ![t] = [kind |-> kind, made |-> now, secret |-> Secret,
                                        of |-> IF kind = "list" THEN Listed ELSE <<>>]]
        /\ pc' = [pc EXCEPT ![t] = IF kind = "unreachable" THEN "answered" ELSE "store"]
  BY DEF Fetched
<1> DEFINE b == [kind |-> kind, made |-> now, secret |-> Secret,
                 of |-> IF kind = "list" THEN Listed ELSE <<>>]
<1>3. Made(b) /\ b.kind = kind /\ b.made = now
  BY FetchedMade
<1> HIDE DEF b
<1>4. body' = [body EXCEPT ![t] = b]
  BY <1>2 DEF b
<1>5. /\ pc'[t] = (IF kind = "unreachable" THEN "answered" ELSE "store") /\ body'[t] = b
      /\ \A u \in Threads : u # t => pc'[u] = pc[u] /\ body'[u] = body[u]
  BY <1>2, <1>4 DEF TypeOK
<1>6. TypeOK'
  <2>1. pc' \in [Threads -> {"idle", "fetch", "store", "answered", "refused", "resolve", "stream"}]
    BY <1>2 DEF TypeOK
  <2>2. body' \in [Threads -> Bodies \cup {NoBody}]
    BY <1>3, <1>4 DEF TypeOK, Made
  <2>3. QED
    BY <1>1, <2>1, <2>2 DEF TypeOK
<1>7. AnswerIsRecent'
  <2> SUFFICES ASSUME NEW u \in Threads, pc'[u] = "answered" PROVE Recent(body[u])'
    BY DEF AnswerIsRecent
  <2>1. CASE u = t
    <3>1. Recent(b)
      BY <1>3, MadeNow DEF Made
    <3>2. QED
      BY <1>b, <1>5, <2>1, <3>1
  <2>2. CASE u # t
    BY <1>b, <1>5, <2>2 DEF AnswerIsRecent
  <2>3. QED
    BY <2>1, <2>2
<1>8. ThreadsAreCurrent'
  <2>1. start[t] <= now
    BY <1>1 DEF ThreadsAreCurrent
  <2>2. QED
    BY <1>1, <1>b, <1>3, <1>5, <2>1 DEF ThreadsAreCurrent
<1>9. CacheIsCurrent' /\ ShownOnce'
  BY <1>1, <1>a, <1>b DEF CacheIsCurrent, ShownOnce
<1>10. LinksStood' /\ RefusedForAReason'
  BY <1>1, <1>5 DEF LinksStood, RefusedForAReason
<1>11. QED
  BY <1>6, <1>7, <1>8, <1>9, <1>10

LEMMA StoreStep ==
  ASSUME PInv, NEW t \in Threads, Store(t)
  PROVE  PInv'
<1> USE DEF PInv
<1>1. /\ pc[t] = "store"
      /\ cache' = [expiry |-> start[t] + Sub * Ttl(body[t].kind), body |-> body[t]]
      /\ pc' = [pc EXCEPT ![t] = "answered"]
      /\ UNCHANGED <<now, published, server, start, body, link, file, shown>>
  BY DEF Store
<1>a. Secret' = Secret /\ NoEntry' = NoEntry
  BY <1>1 DEF Secret
<1>b. \A b : (Made(b)' <=> Made(b)) /\ (Recent(b)' <=> Recent(b))
  BY <1>1, <1>a DEF Made, Recent
<1>2. start[t] <= now /\ Made(body[t]) /\ body[t].kind # "unreachable" /\ body[t].made = now
  BY <1>1 DEF ThreadsAreCurrent
<1>3. body[t] \in Bodies /\ body[t].kind \in {"list", "error"}
  BY <1>2 DEF Made, Bodies
<1>4. start[t] \in 0 .. MaxTime /\ now \in Nat
  BY Constants DEF TypeOK
<1>5. pc'[t] = "answered" /\ \A u \in Threads : u # t => pc'[u] = pc[u]
  BY <1>1 DEF TypeOK
<1>6. cache'.body = body[t] /\ cache'.expiry = start[t] + Sub * Ttl(body[t].kind)
  BY <1>1
<1>7. TypeOK'
  <2>1. start[t] + Sub * Ttl(body[t].kind) \in 0 .. MaxTime + Sub * CACHE_TTL
    <3>1. Sub * Ttl(body[t].kind) \in Nat /\ Sub * Ttl(body[t].kind) <= Sub * CACHE_TTL
          /\ Sub * CACHE_TTL \in Nat
      BY Lifetimes
    <3>2. QED
      BY <1>4, <3>1, Constants
  <2>2. pc' \in [Threads -> {"idle", "fetch", "store", "answered", "refused", "resolve", "stream"}]
    BY <1>1 DEF TypeOK
  <2>3. QED
    BY <1>1, <1>3, <1>6, <2>1, <2>2 DEF TypeOK
<1>8. CacheIsCurrent'
  <2>1. Sub * Ttl(body[t].kind) \in Nat
    BY Lifetimes
  <2>2. cache'.expiry <= cache'.body.made + Sub * Ttl(cache'.body.kind)
    BY <1>2, <1>4, <1>6, <2>1
  <2>3. QED
    BY <1>b, <1>2, <1>6, <2>2 DEF CacheIsCurrent
<1>9. AnswerIsRecent'
  <2> SUFFICES ASSUME NEW u \in Threads, pc'[u] = "answered" PROVE Recent(body[u])'
    BY DEF AnswerIsRecent
  <2>1. CASE u = t
    <3>1. Recent(body[t])
      BY <1>2, <1>3, MadeNow
    <3>2. QED
      BY <1>1, <1>b, <2>1, <3>1
  <2>2. CASE u # t
    BY <1>1, <1>b, <1>5, <2>2 DEF AnswerIsRecent
  <2>3. QED
    BY <2>1, <2>2
<1>10. ThreadsAreCurrent'
  BY <1>1, <1>b, <1>2, <1>5 DEF ThreadsAreCurrent
<1>11. ShownOnce' /\ LinksStood' /\ RefusedForAReason'
  BY <1>1, <1>5 DEF ShownOnce, LinksStood, RefusedForAReason
<1>12. QED
  BY <1>7, <1>8, <1>9, <1>10, <1>11

\* A thread that is done with its request, with shown as it was or made new.
LEMMA RestStep ==
  ASSUME PInv, NEW t \in Threads, AtRest(t), UNCHANGED <<now, published, server, cache>>,
         ShownOnce'
  PROVE  PInv'
<1> USE DEF PInv
<1>a. Secret' = Secret /\ NoEntry' = NoEntry /\ NoBody' = NoBody
  BY DEF Secret
<1>b. \A b : (Made(b)' <=> Made(b)) /\ (Recent(b)' <=> Recent(b))
  BY <1>a DEF Made, Recent
<1>1. /\ pc'[t] = "idle"
      /\ \A u \in Threads : u # t => /\ pc'[u] = pc[u] /\ start'[u] = start[u]
                                     /\ body'[u] = body[u]
  BY DEF AtRest, TypeOK
<1>2. \A u \in Threads : u # t => link'[u] = link[u]
  <2>1. link' = [link EXCEPT ![t] = NoLink]
    BY DEF AtRest
  <2>2. QED
    BY <2>1
<1>3. TypeOK'
  <2>1. pc' \in [Threads -> {"idle", "fetch", "store", "answered", "refused", "resolve", "stream"}]
        /\ start' \in [Threads -> 0 .. MaxTime]
    BY Constants DEF AtRest, TypeOK
  <2>2. body' \in [Threads -> Bodies \cup {NoBody}] /\ file' \in [Threads -> {0} \cup Releases]
        /\ link' \in [Threads -> LinkRecords]
    <3>1. NoLink \in LinkRecords
      BY Constants DEF NoLink, LinkRecords
    <3>2. QED
      BY <3>1 DEF AtRest, TypeOK
  <2>3. shown' \in Bodies \cup {NoBody}
    BY <1>a DEF ShownOnce
  <2>4. QED
    BY <2>1, <2>2, <2>3 DEF TypeOK
<1>4. ThreadsAreCurrent'
  BY <1>1, <1>b DEF ThreadsAreCurrent
<1>5. CacheIsCurrent'
  BY <1>a, <1>b DEF CacheIsCurrent
<1>6. LinksStood' /\ RefusedForAReason'
  BY <1>1, <1>2 DEF LinksStood, RefusedForAReason
<1>7. AnswerIsRecent'
  BY <1>1, <1>b DEF AnswerIsRecent
<1>8. QED
  BY <1>3, <1>4, <1>5, <1>6, <1>7

LEMMA DeliverStep ==
  ASSUME PInv, NEW t \in Threads, Deliver(t)
  PROVE  PInv'
<1>1. /\ AtRest(t) /\ UNCHANGED <<now, published, server, cache>> /\ pc[t] = "answered"
      /\ shown' = shown \/ shown' = body[t]
  BY DEF Deliver
<1>2. Made(body[t])
  BY <1>1 DEF PInv, ThreadsAreCurrent
<1>3. Made(body[t]) => body[t] \in Bodies /\ Len(body[t].of) <= published
                       /\ (configured => body[t].secret = 0)
  BY SecretType DEF Made, PInv
<1>4. ShownOnce'
  BY <1>1, <1>2, <1>3 DEF PInv, ShownOnce
<1>5. QED
  BY <1>1, <1>4, RestStep

LEMMA AssetDoneStep ==
  ASSUME PInv, NEW t \in Threads, AssetDone(t)
  PROVE  PInv'
<1>1. AtRest(t) /\ UNCHANGED <<now, published, server, cache, shown>>
  BY DEF AssetDone
<1>2. ShownOnce'
  BY <1>1 DEF PInv, ShownOnce
<1>3. QED
  BY <1>1, <1>2, RestStep

\* What a link says of the list it stands in.
LEMMA LinkFacts ==
  ASSUME PInv, NEW l \in Links(shown)
  PROVE  /\ \/ l.what = "asset" /\ l.id \in Releases
            \/ l.what = "zip" /\ l.id \in 1 .. published
         /\ l.secret = shown.secret
         /\ l \in LinkRecords
<1>1. PICK what \in {"asset", "zip"}, i \in DOMAIN shown.of : l = SignAsset(shown, what, i)
  BY DEF Links
<1>2. shown \in Bodies
  <2>1. shown # NoBody
    BY <1>1, Blank
  <2>2. QED
    BY <2>1 DEF PInv, ShownOnce
<1>3. shown.of \in Seq(Releases) /\ Len(shown.of) <= published /\ shown.made \in Nat
  BY <1>2, Constants DEF PInv, ShownOnce, Bodies
<1>4. i \in 1 .. published /\ shown.of[i] \in Releases
  <2>1. published \in Nat
    BY Constants DEF PInv, TypeOK
  <2>2. QED
    BY <1>1, <1>3, <2>1
<1>5. /\ shown.made \div Sub + LINK_TTL \in Nat /\ shown.secret \in 0 .. MaxRestarts
      /\ Releases \subseteq Nat /\ 1 .. published \subseteq Nat
  <2>1. shown.made \div Sub \in Nat
    <3>1. ASSUME NEW m \in Nat, NEW s \in Nat \ {0} PROVE m \div s \in Nat
      BY <3>1, SMT
    <3>2. QED
      BY <1>3, <3>1, Constants
  <2>2. shown.made \div Sub + LINK_TTL \in Nat
    BY <2>1, Constants
  <2>3. shown.secret \in 0 .. MaxRestarts
    BY <1>2 DEF Bodies
  <2>4. Releases \subseteq Nat /\ 1 .. published \subseteq Nat
    BY Constants DEF Releases, PInv, TypeOK
  <2>5. QED
    BY <2>2, <2>3, <2>4
<1>6. l = [what |-> what, id |-> IF what = "asset" THEN shown.of[i] ELSE i,
           expiry |-> shown.made \div Sub + LINK_TTL, secret |-> shown.secret,
           of |-> shown.of[i]]
  BY <1>1 DEF SignAsset
<1>7. l \in LinkRecords
  BY <1>4, <1>5, <1>6 DEF LinkRecords
<1>8. QED
  BY <1>4, <1>6, <1>7

LEMMA RouteAssetStep ==
  ASSUME PInv, NEW t \in Threads, RouteAsset(t)
  PROVE  PInv'
<1> USE DEF PInv
<1>1. PICK l \in Links(shown) :
        /\ link' = [link EXCEPT ![t] = l]
        /\ pc' = [pc EXCEPT ![t] = IF VerifyAsset(l) THEN "resolve" ELSE "refused"]
  BY DEF RouteAsset
<1>2. UNCHANGED <<now, published, server, cache, start, body, file, shown>>
  BY DEF RouteAsset
<1>a. Secret' = Secret /\ NoEntry' = NoEntry
  BY <1>2 DEF Secret
<1>b. \A b : (Made(b)' <=> Made(b)) /\ (Recent(b)' <=> Recent(b))
  BY <1>2, <1>a DEF Made, Recent
<1>3. /\ pc'[t] = (IF VerifyAsset(l) THEN "resolve" ELSE "refused")
      /\ \A u \in Threads : u # t => pc'[u] = pc[u]
  BY <1>1 DEF TypeOK
<1>4. \A u \in Threads : u # t => link'[u] = link[u]
  BY <1>1
<1>5. TypeOK'
  <2>1. pc' \in [Threads -> {"idle", "fetch", "store", "answered", "refused", "resolve", "stream"}]
        /\ link' \in [Threads -> LinkRecords]
    BY <1>1, LinkFacts DEF TypeOK
  <2>2. QED
    BY <1>2, <2>1 DEF TypeOK
<1>6. ThreadsAreCurrent' /\ AnswerIsRecent'
  BY <1>2, <1>b, <1>3 DEF ThreadsAreCurrent, AnswerIsRecent
<1>7. CacheIsCurrent' /\ ShownOnce'
  BY <1>2, <1>a, <1>b DEF CacheIsCurrent, ShownOnce
<1>8. link'[t] = l
  BY <1>1 DEF TypeOK
<1>9. LinksStood'
  BY <1>2, <1>3, <1>4, <1>8, LinkFacts DEF LinksStood
<1>10. RefusedForAReason'
  <2> SUFFICES ASSUME NEW u \in Threads, pc'[u] = "refused"
               PROVE  now' > Sub * link'[u].expiry
                        \/ (~configured' /\ link'[u].secret # restarts')
    BY DEF RefusedForAReason
  <2>1. CASE u # t
    BY <1>2, <1>3, <1>4, <2>1 DEF RefusedForAReason
  <2>2. CASE u = t
    <3>1. ~(l.secret = Secret /\ l.expiry * Sub >= now)
      BY <1>3, <2>2 DEF VerifyAsset
    <3>2. l.expiry * Sub \in Int /\ l.expiry * Sub = Sub * l.expiry /\ now \in Int
      BY LinkFacts, Constants DEF TypeOK, LinkRecords
    <3>3. CASE l.secret = Secret
      BY <1>2, <1>8, <2>2, <3>1, <3>2, <3>3
    <3>4. CASE l.secret # Secret
      <4>1. l.secret = shown.secret
        BY LinkFacts
      <4>2. ~configured
        BY <3>4, <4>1, SecretType DEF ShownOnce
      <4>3. QED
        BY <1>2, <1>8, <2>2, <3>4, <4>2 DEF Secret
    <3>5. QED
      BY <3>3, <3>4
  <2>3. QED
    BY <2>1, <2>2
<1>11. QED
  BY <1>5, <1>6, <1>7, <1>9, <1>10

LEMMA ResolveAssetUrlStep ==
  ASSUME PInv, NEW t \in Threads, ResolveAssetUrl(t)
  PROVE  PInv'
<1> USE DEF PInv
<1>1. pc[t] = "resolve" /\ UNCHANGED <<now, published, server, cache, shown>>
  BY DEF ResolveAssetUrl
<1>a. Secret' = Secret /\ NoEntry' = NoEntry /\ NoBody' = NoBody
  BY <1>1 DEF Secret
<1>b. \A b : (Made(b)' <=> Made(b)) /\ (Recent(b)' <=> Recent(b))
  BY <1>1, <1>a DEF Made, Recent
<1>2. CASE AtRest(t)
  BY <1>1, <1>2, RestStep DEF ShownOnce
<1>3. CASE /\ file' = [file EXCEPT ![t] =
                        IF link[t].what = "asset" THEN link[t].id ELSE Listed[link[t].id]]
           /\ pc' = [pc EXCEPT ![t] = "stream"]
           /\ UNCHANGED <<start, body, link>>
  <2>1. pc'[t] = "stream" /\ \A u \in Threads : u # t => pc'[u] = pc[u]
    BY <1>3 DEF TypeOK
  <2>2. (IF link[t].what = "asset" THEN link[t].id ELSE Listed[link[t].id]) \in Releases
    <3>1. \/ link[t].what = "asset" /\ link[t].id \in Releases
          \/ link[t].what = "zip" /\ link[t].id \in 1 .. published
      BY <1>1 DEF LinksStood
    <3>2. QED
      BY <3>1, ListedType
  <2>3. TypeOK'
    <3>1. pc' \in [Threads -> {"idle", "fetch", "store", "answered", "refused", "resolve", "stream"}]
          /\ file' \in [Threads -> {0} \cup Releases]
      BY <1>3, <2>2 DEF TypeOK
    <3>2. QED
      BY <1>1, <1>3, <3>1 DEF TypeOK
  <2>4. ThreadsAreCurrent' /\ AnswerIsRecent'
    BY <1>1, <1>3, <1>b, <2>1 DEF ThreadsAreCurrent, AnswerIsRecent
  <2>5. CacheIsCurrent' /\ ShownOnce'
    BY <1>1, <1>a, <1>b DEF CacheIsCurrent, ShownOnce
  <2>6. LinksStood' /\ RefusedForAReason'
    BY <1>1, <1>3, <2>1 DEF LinksStood, RefusedForAReason
  <2>7. QED
    BY <2>3, <2>4, <2>5, <2>6
<1>4. QED
  BY <1>2, <1>3 DEF ResolveAssetUrl

LEMMA PublishStep ==
  ASSUME PInv, Publish
  PROVE  PInv'
<1> USE DEF PInv
<1>1. /\ published < MaxPublished /\ published' = published + 1
      /\ UNCHANGED <<now, server, cache, request, shown>>
  BY DEF Publish
<1>2. published \in Nat /\ published' \in 0 .. MaxPublished /\ published <= published'
  BY <1>1, Constants DEF TypeOK
<1>a. Secret' = Secret /\ NoEntry' = NoEntry /\ NoBody' = NoBody
  BY <1>1 DEF Secret
<1>b. \A b : (Made(b) => Made(b)') /\ (Recent(b)' <=> Recent(b))
  <2> SUFFICES ASSUME NEW b PROVE (Made(b) => Made(b)') /\ (Recent(b)' <=> Recent(b))
    OBVIOUS
  <2>1. b \in Bodies => Len(b.of) \in Nat
    BY DEF Bodies
  <2>2. QED
    BY <1>1, <1>2, <1>a, <2>1 DEF Made, Recent
<1>3. TypeOK'
  BY <1>1, <1>2 DEF TypeOK
<1>4. CacheIsCurrent' /\ ThreadsAreCurrent'
  BY <1>1, <1>a, <1>b DEF CacheIsCurrent, ThreadsAreCurrent
<1>5. ShownOnce'
  <2>1. Len(shown.of) \in Nat
    BY Blank DEF Bodies, ShownOnce
  <2>2. QED
    BY <1>1, <1>2, <1>a, <2>1 DEF ShownOnce
<1>6. LinksStood'
  BY <1>1, <1>2 DEF LinksStood
<1>7. AnswerIsRecent' /\ RefusedForAReason'
  BY <1>1, <1>b DEF AnswerIsRecent, RefusedForAReason
<1>8. QED
  BY <1>3, <1>4, <1>5, <1>6, <1>7

LEMMA TickStep ==
  ASSUME PInv, Tick
  PROVE  PInv'
<1> USE DEF PInv
<1>1. /\ now < MaxTime /\ now' = now + 1
      /\ \A t \in Threads : pc[t] \in {"idle", "fetch", "resolve", "stream"}
      /\ UNCHANGED <<published, server, cache, request, shown>>
  BY DEF Tick
<1>2. now \in Nat /\ now' \in 0 .. MaxTime /\ now <= now'
  BY <1>1, Constants DEF TypeOK
<1>a. Secret' = Secret /\ NoEntry' = NoEntry /\ NoBody' = NoBody
  BY <1>1 DEF Secret
<1>b. \A b : Made(b) => Made(b)'
  <2> SUFFICES ASSUME NEW b, Made(b) PROVE Made(b)'
    OBVIOUS
  <2>1. b.made \in Nat
    BY Constants DEF Made, Bodies
  <2>2. QED
    BY <1>1, <1>2, <1>a, <2>1 DEF Made
<1>3. TypeOK'
  BY <1>1, <1>2 DEF TypeOK
<1>4. CacheIsCurrent' /\ ShownOnce'
  BY <1>1, <1>a, <1>b DEF CacheIsCurrent, ShownOnce
<1>5. ThreadsAreCurrent'
  <2> SUFFICES ASSUME NEW t \in Threads, pc'[t] = "fetch" PROVE start'[t] <= now'
    BY <1>1 DEF ThreadsAreCurrent
  <2>1. start[t] <= now /\ start[t] \in Int
    BY <1>1, Constants DEF ThreadsAreCurrent, TypeOK
  <2>2. QED
    BY <1>1, <1>2, <2>1
<1>6. LinksStood'
  BY <1>1 DEF LinksStood
<1>7. AnswerIsRecent' /\ RefusedForAReason'
  BY <1>1 DEF AnswerIsRecent, RefusedForAReason
<1>8. QED
  BY <1>3, <1>4, <1>5, <1>6, <1>7

\* Nothing is asked and nothing is kept.
LEMMA RestartedTypes ==
  /\ AllIdle \in [Threads -> {"idle", "fetch", "store", "answered", "refused", "resolve", "stream"}]
  /\ Zero \in [Threads -> 0 .. MaxTime] /\ Zero \in [Threads -> {0} \cup Releases]
  /\ Nothing \in [Threads -> Bodies \cup {NoBody}] /\ NoLinks \in [Threads -> LinkRecords]
  /\ \A t \in Threads : AllIdle[t] = "idle"
<1>1. NoLink \in LinkRecords
  BY Constants DEF NoLink, LinkRecords
<1>2. QED
  BY <1>1, Constants DEF AllIdle, Zero, Nothing, NoLinks

LEMMA RestartStep ==
  ASSUME PInv, Restart
  PROVE  PInv'
<1> USE DEF PInv
<1>1. /\ restarts < MaxRestarts /\ restarts' = restarts + 1
      /\ pc' = AllIdle /\ start' = Zero /\ body' = Nothing
      /\ link' = NoLinks /\ file' = Zero /\ cache' = NoEntry
      /\ UNCHANGED <<now, published, configured, shown>>
  BY DEF Restart
<1>2. restarts' \in 0 .. MaxRestarts
  BY <1>1, Constants DEF TypeOK
<1>3. \A t \in Threads : pc'[t] = "idle"
  BY <1>1, RestartedTypes
<1>a. NoEntry' = NoEntry /\ NoBody' = NoBody
  BY DEF NoEntry, NoBody
<1>4. TypeOK'
  BY <1>1, <1>2, <1>a, RestartedTypes DEF TypeOK
<1>5. CacheIsCurrent'
  BY <1>1, <1>a DEF CacheIsCurrent
<1>6. ThreadsAreCurrent' /\ LinksStood' /\ AnswerIsRecent' /\ RefusedForAReason'
  BY <1>3 DEF ThreadsAreCurrent, LinksStood, AnswerIsRecent, RefusedForAReason
<1>7. ShownOnce'
  BY <1>1, <1>a DEF ShownOnce
<1>8. QED
  BY <1>4, <1>5, <1>6, <1>7

-----------------------------------------------------------------------------
(* The theorems. *)

\* The inductive invariant holds of the server: what is cached and what the
\* threads carry is made with the key in use and expires in time.
THEOREM Invariance == Spec => []PInv
<1>1. Init => PInv
  <2> SUFFICES ASSUME Init PROVE PInv
    OBVIOUS
  <2>1. /\ now = 0 /\ published = 0 /\ restarts = 0 /\ configured \in BOOLEAN
        /\ pc = AllIdle /\ start = Zero /\ body = Nothing
        /\ link = NoLinks /\ file = Zero /\ cache = NoEntry /\ shown = NoBody
    BY DEF Init
  <2>2. TypeOK
    BY <2>1, RestartedTypes, Constants DEF TypeOK
  <2>3. CacheIsCurrent /\ ShownOnce
    BY <2>1, Blank DEF CacheIsCurrent, ShownOnce
  <2>4. \A t \in Threads : pc[t] = "idle"
    BY <2>1, RestartedTypes
  <2>5. QED
    BY <2>2, <2>3, <2>4
       DEF PInv, ThreadsAreCurrent, LinksStood, AnswerIsRecent, RefusedForAReason
<1>2. PInv /\ [Next]_vars => PInv'
  <2> SUFFICES ASSUME PInv, [Next]_vars PROVE PInv'
    OBVIOUS
  <2>1. CASE \E t \in Threads : \/ Lookup(t) \/ Fetched(t) \/ Store(t) \/ Deliver(t)
                                \/ RouteAsset(t) \/ ResolveAssetUrl(t) \/ AssetDone(t)
    BY <2>1, LookupStep, FetchedStep, StoreStep, DeliverStep, RouteAssetStep,
       ResolveAssetUrlStep, AssetDoneStep
  <2>2. CASE Publish
    BY <2>2, PublishStep
  <2>3. CASE Tick
    BY <2>3, TickStep
  <2>4. CASE Restart
    BY <2>4, RestartStep
  <2>5. CASE UNCHANGED vars
    <3>1. Secret' = Secret /\ UNCHANGED <<now, published, server, cache, request, shown>>
      BY <2>5 DEF vars, Secret
    <3>2. \A b : (Made(b)' <=> Made(b)) /\ (Recent(b)' <=> Recent(b))
      BY <3>1 DEF Made, Recent
    <3>3. TypeOK' /\ CacheIsCurrent' /\ ThreadsAreCurrent' /\ ShownOnce'
      BY <3>1, <3>2 DEF PInv, TypeOK, CacheIsCurrent, ThreadsAreCurrent, ShownOnce
    <3>4. LinksStood' /\ AnswerIsRecent' /\ RefusedForAReason'
      BY <3>1, <3>2 DEF PInv, LinksStood, AnswerIsRecent, RefusedForAReason
    <3>5. QED
      BY <3>3, <3>4 DEF PInv
  <2>6. QED
    BY <2>1, <2>2, <2>3, <2>4, <2>5 DEF Next
<1>3. QED
  BY <1>1, <1>2, PTL DEF Spec

\* Every variable of the server keeps to its type.
THEOREM TypeCorrect == Spec => []TypeOK
<1>1. PInv => TypeOK
  BY DEF PInv
<1>2. QED
  BY <1>1, Invariance, PTL

\* However the threads of the server overtake each other, no answer is older
\* than its lifetime, and a failed connection is never told from the cache.
THEOREM AnswersAreRecent == Spec => []AnswerIsRecent
<1>1. PInv => AnswerIsRecent
  BY DEF PInv
<1>2. QED
  BY <1>1, Invariance, PTL

\* Every link of every list that is sent is of the key in use and can be
\* followed for LINK_TTL - CACHE_TTL - 1 seconds.
THEOREM LinksOutlive == Spec => []LinksLast
<1>1. PInv => LinksLast
  <2> SUFFICES ASSUME PInv, NEW t \in Threads, pc[t] = "answered", body[t].kind = "list"
               PROVE  /\ body[t].secret = Secret
                      /\ \A l \in Links(body[t]) :
                           l.expiry * Sub - now > Sub * (LINK_TTL - CACHE_TTL - 1)
    BY DEF LinksLast
  <2>1. Made(body[t]) /\ Recent(body[t])
    BY DEF PInv, ThreadsAreCurrent, AnswerIsRecent
  <2>2. now - body[t].made < Sub * CACHE_TTL
    BY <2>1 DEF Recent
  <2>3. body[t].made \in Nat /\ now \in Nat
    BY <2>1, Constants DEF Made, Bodies, PInv, TypeOK
  <2>4. ASSUME NEW l \in Links(body[t])
        PROVE  l.expiry * Sub - now > Sub * (LINK_TTL - CACHE_TTL - 1)
    <3>1. l.expiry = body[t].made \div Sub + LINK_TTL
      BY DEF Links, SignAsset
    <3>2. QED
      BY <2>2, <2>3, <3>1, LinkOutlives
  <2>5. QED
    BY <2>1, <2>4 DEF Made
<1>2. QED
  BY <1>1, Invariance, PTL

\* A link that stood in a list is refused only when it has expired, or when a
\* server without a configured key was started again.
THEOREM RefusalsExplained == Spec => []RefusedForAReason
<1>1. PInv => RefusedForAReason
  BY DEF PInv
<1>2. QED
  BY <1>1, Invariance, PTL
=============================================================================
