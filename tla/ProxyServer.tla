----------------------------- MODULE ProxyServer -----------------------------
(***************************************************************************)
(* gitfetch_proxy.py: one thread per request, a cache of bodies behind a   *)
(* lock, signed links that expire, GitHub, which changes and fails, and    *)
(* the clients, who ask for a file some time after they got the list it    *)
(* is in.  All requests here have the same cache key: other keys share     *)
(* nothing with it but the lock.                                           *)
(***************************************************************************)
EXTENDS Integers, Sequences

CONSTANTS
  Threads,
  CACHE_TTL, LINK_TTL,
  ErrorTtl,      \* the 60 of cached_releases
  Sub,           \* instants of time.time() in a second of int(time.time())
  MaxTime,       \* bound: instants
  MaxPublished,  \* bound: releases GitHub ever gets
  MaxRestarts    \* bound: restarts of the server

ASSUME ProxyAssumption ==
  /\ {CACHE_TTL, LINK_TTL, ErrorTtl, Sub} \subseteq Nat \ {0}
  /\ ErrorTtl <= CACHE_TTL /\ CACHE_TTL < LINK_TTL
  /\ MaxTime \in Nat /\ MaxPublished \in Nat \ {0} /\ MaxRestarts \in Nat

VARIABLES
  now,         \* time.time()
  published,   \* releases of the repository, numbered from the oldest
  configured,  \* GITFETCH_SECRET is set
  restarts,
  cache,       \* _cache[key]: expiry and body, or NoEntry
  pc, start, body, link, file,      \* per thread
  shown        \* a list some client got and has not replaced; or NoBody

request == <<pc, start, body, link, file>>
server  == <<configured, restarts>>
vars    == <<now, published, server, cache, request, shown>>

Releases == 1 .. MaxPublished
Bodies == [kind : {"list", "error", "unreachable"}, of : Seq(Releases),
           made : 0 .. MaxTime, secret : 0 .. MaxRestarts]
NoBody  == [kind |-> "none", of |-> <<>>, made |-> 0, secret |-> 0]
NoEntry == [expiry |-> 0, body |-> NoBody]
LinkRecords == [what : {"none", "asset", "zip"}, id : Nat, expiry : Nat,
                secret : 0 .. MaxRestarts, of : Nat]
NoLink  == [what |-> "none", id |-> 0, expiry |-> 0, secret |-> 0, of |-> 0]

TypeOK ==
  /\ now \in 0 .. MaxTime /\ published \in 0 .. MaxPublished /\ restarts \in 0 .. MaxRestarts
  /\ configured \in BOOLEAN
  /\ \/ cache = NoEntry
     \/ cache.body \in Bodies /\ cache.expiry \in 0 .. MaxTime + Sub * CACHE_TTL
  /\ pc \in [Threads -> {"idle", "fetch", "store", "answered", "refused", "resolve", "stream"}]
  /\ start \in [Threads -> 0 .. MaxTime]
  /\ body \in [Threads -> Bodies \cup {NoBody}] /\ shown \in Bodies \cup {NoBody}
  /\ link \in [Threads -> LinkRecords] /\ file \in [Threads -> {0} \cup Releases]

\* The answer of GitHub: the newest first.
Listed == [i \in 1 .. published |-> published + 1 - i]

-----------------------------------------------------------------------------
(* Links. *)

\* Mutant: a key is made up whether or not there is one.
Secret_Always == restarts

\* main: without a configured secret every start makes up another.
Secret == IF configured THEN 0 ELSE restarts

\* sign_asset: an asset goes by its id, a source zip by the place of its
\* release.  "of" only remembers under which release the link stood.
SignAsset(b, what, i) ==
  [what |-> what, id |-> IF what = "asset" THEN b.of[i] ELSE i,
   expiry |-> b.made \div Sub + LINK_TTL, secret |-> b.secret, of |-> b.of[i]]
Links(b) == {SignAsset(b, what, i) : what \in {"asset", "zip"}, i \in DOMAIN b.of}

VerifyAsset(l) == l.secret = Secret /\ l.expiry * Sub >= now

-----------------------------------------------------------------------------
(* GET /v1/releases. *)

\* cached_releases up to the end of the first locked part.
Lookup(t) ==
  /\ pc[t] = "idle"
  /\ start' = [start EXCEPT ![t] = now]
  /\ IF cache # NoEntry /\ cache.expiry > now
     THEN /\ pc' = [pc EXCEPT ![t] = "answered"]
          /\ body' = [body EXCEPT ![t] = cache.body]
     ELSE pc' = [pc EXCEPT ![t] = "fetch"] /\ UNCHANGED body
  /\ UNCHANGED <<now, published, server, cache, link, file, shown>>

\* GitHub's answer, and the body made of it with its links: a list, an HTTP
\* error, or anything else that can go wrong, which is not put in the cache.
Fetched(t) ==
  /\ pc[t] = "fetch"
  /\ \E kind \in {"list", "error", "unreachable"} :
       /\ body' = [body EXCEPT ![t] =
            [kind |-> kind, made |-> now, secret |-> Secret,
             of |-> IF kind = "list" THEN Listed ELSE <<>>]]
       /\ pc' = [pc EXCEPT ![t] = IF kind = "unreachable" THEN "answered" ELSE "store"]
  /\ UNCHANGED <<now, published, server, cache, start, link, file, shown>>

\* Mutant: an error is kept as long as a list.
Ttl_Same(kind) == CACHE_TTL
Ttl(kind) == IF kind = "list" THEN CACHE_TTL ELSE ErrorTtl

\* Mutant: a list is kept as long as its links.
Store_LinkTtl(t) ==
  /\ pc[t] = "store"
  /\ cache' = [expiry |-> start[t] + Sub * LINK_TTL, body |-> body[t]]
  /\ pc' = [pc EXCEPT ![t] = "answered"]
  /\ UNCHANGED <<now, published, server, start, body, link, file, shown>>

\* The second locked part: whatever is there by now is replaced, and the time
\* runs from before the fetch.
Store(t) ==
  /\ pc[t] = "store"
  /\ cache' = [expiry |-> start[t] + Sub * Ttl(body[t].kind), body |-> body[t]]
  /\ pc' = [pc EXCEPT ![t] = "answered"]
  /\ UNCHANGED <<now, published, server, start, body, link, file, shown>>

AtRest(t) == /\ pc' = [pc EXCEPT ![t] = "idle"] /\ start' = [start EXCEPT ![t] = 0]
             /\ body' = [body EXCEPT ![t] = NoBody]
             /\ link' = [link EXCEPT ![t] = NoLink] /\ file' = [file EXCEPT ![t] = 0]

\* send_text, to the client whose list we follow or to another.
Deliver(t) ==
  /\ pc[t] = "answered"
  /\ shown' \in {shown} \cup (IF body[t].kind = "list" THEN {body[t]} ELSE {})
  /\ AtRest(t)
  /\ UNCHANGED <<now, published, server, cache>>

-----------------------------------------------------------------------------
(* GET /v1/asset. *)

RouteAsset(t) ==
  /\ pc[t] = "idle"
  /\ \E l \in Links(shown) :
       /\ link' = [link EXCEPT ![t] = l]
       /\ pc' = [pc EXCEPT ![t] = IF VerifyAsset(l) THEN "resolve" ELSE "refused"]
  /\ UNCHANGED <<now, published, server, cache, start, body, file, shown>>

\* resolve_asset_url asks GitHub again, which may refuse the file or not answer.
ResolveAssetUrl(t) ==
  /\ pc[t] = "resolve"
  /\ \/ /\ file' = [file EXCEPT ![t] =
                      IF link[t].what = "asset" THEN link[t].id ELSE Listed[link[t].id]]
        /\ pc' = [pc EXCEPT ![t] = "stream"]
        /\ UNCHANGED <<start, body, link>>
     \/ AtRest(t)
  /\ UNCHANGED <<now, published, server, cache, shown>>

\* A refusal, or stream_asset, has been sent.
AssetDone(t) == /\ pc[t] \in {"refused", "stream"} /\ AtRest(t)
                /\ UNCHANGED <<now, published, server, cache, shown>>

-----------------------------------------------------------------------------
(* The world. *)

Publish ==
  /\ published < MaxPublished
  /\ published' = published + 1
  /\ UNCHANGED <<now, server, cache, request, shown>>

\* Time passes only while a thread waits for GitHub or a client: the lock is
\* held for a moment, and nothing else comes before Store and send_text.
Tick == /\ now < MaxTime
        /\ \A t \in Threads : pc[t] \in {"idle", "fetch", "resolve", "stream"}
        /\ now' = now + 1
        /\ UNCHANGED <<published, server, cache, request, shown>>

AllIdle == [t \in Threads |-> "idle"]
Zero    == [t \in Threads |-> 0]
Nothing == [t \in Threads |-> NoBody]
NoLinks == [t \in Threads |-> NoLink]

\* The process stops at any point and is started again.
Restart ==
  /\ restarts < MaxRestarts
  /\ restarts' = restarts + 1
  /\ pc' = AllIdle /\ start' = Zero /\ body' = Nothing
  /\ link' = NoLinks /\ file' = Zero /\ cache' = NoEntry
  /\ UNCHANGED <<now, published, configured, shown>>

Init ==
  /\ now = 0 /\ published = 0
  /\ configured \in BOOLEAN /\ restarts = 0
  /\ pc = AllIdle /\ start = Zero /\ body = Nothing
  /\ link = NoLinks /\ file = Zero /\ cache = NoEntry /\ shown = NoBody

Next == \/ \E t \in Threads : \/ Lookup(t) \/ Fetched(t) \/ Store(t) \/ Deliver(t)
                              \/ RouteAsset(t) \/ ResolveAssetUrl(t) \/ AssetDone(t)
        \/ Publish \/ Tick \/ Restart

Spec == Init /\ [][Next]_vars

-----------------------------------------------------------------------------
\* Who gets a list, from the cache or not, can use every link in it, and for
\* LINK_TTL - CACHE_TTL - 1 seconds at least: sign_asset rounds the time down,
\* the cache counts from before the links were signed, and loses its lists
\* together with the key that signed them.
LinksLast ==
  \A t \in Threads : pc[t] = "answered" /\ body[t].kind = "list" =>
    /\ body[t].secret = Secret
    /\ \A l \in Links(body[t]) : l.expiry * Sub - now > Sub * (LINK_TTL - CACHE_TTL - 1)

Recent(b) ==
  LET age == now - b.made
  IN CASE b.kind = "list"        -> age < Sub * CACHE_TTL
       [] b.kind = "error"       -> age < Sub * ErrorTtl
       [] b.kind = "unreachable" -> age = 0

\* No answer is older than it may be, however the threads overtake each other:
\* a list CACHE_TTL, an error of GitHub 60 seconds ("korte negatieve cache"),
\* and that GitHub could not be reached is never told from memory.
AnswerIsRecent == \A t \in Threads : pc[t] = "answered" => Recent(body[t])

\* A link from a list is refused only because it has expired or because the
\* server was restarted without a configured key (doc/proxy-deploy.en.md 31).
RefusedForAReason ==
  \A t \in Threads : pc[t] = "refused" =>
    \/ now > Sub * link[t].expiry
    \/ ~configured /\ link[t].secret # restarts

-----------------------------------------------------------------------------
(* What makes these inductive. *)

\* An answer, once it is made, is of the key in use and knows no release that is
\* not out; no other thread or tick comes between GitHub's answer and the cache.
\* What is in the cache expires a lifetime after it was made, at the latest.
Made(b) == b \in Bodies /\ b.made <= now /\ b.secret = Secret /\ Len(b.of) <= published

CacheIsCurrent ==
  cache # NoEntry =>
    /\ Made(cache.body) /\ cache.body.kind # "unreachable"
    /\ cache.expiry <= cache.body.made + Sub * Ttl(cache.body.kind)

ThreadsAreCurrent ==
  \A t \in Threads :
    /\ pc[t] \in {"fetch", "store"} => start[t] <= now
    /\ pc[t] \in {"store", "answered"} => Made(body[t])
    /\ pc[t] = "store" => body[t].kind # "unreachable" /\ body[t].made = now

\* Clients keep lists over a restart, but not over a change of the configured key.
ShownOnce ==
  /\ shown = NoBody \/ shown \in Bodies
  /\ Len(shown.of) <= published
  /\ configured => shown.secret = 0

\* A link that is followed stood in a list.
LinksStood ==
  \A t \in Threads : pc[t] \in {"refused", "resolve", "stream"} =>
    \/ link[t].what = "asset" /\ link[t].id \in Releases
    \/ link[t].what = "zip" /\ link[t].id \in 1 .. published

\* The inductive invariant.
PInv ==
  /\ TypeOK /\ CacheIsCurrent /\ ThreadsAreCurrent /\ ShownOnce /\ LinksStood
  /\ AnswerIsRecent /\ RefusedForAReason

-----------------------------------------------------------------------------
\* A link gives the file of the release it stood under (doc/protocol.md 51: the
\* id of a source zip refers to the release).
LinkIsItsRelease ==
  \A t \in Threads : pc[t] = "stream" => file[t] = link[t].of
=============================================================================
