---------------------------- MODULE AssetStream -----------------------------
(***************************************************************************)
(* stream_asset of the proxy server: what gf_http_get gets to read for     *)
(* what the server itself gets from GitHub's storage.                      *)
(***************************************************************************)
EXTENDS Integers

CONSTANTS
  Headers,       \* the headers, as HttpGet has them
  MaxAsset,   \* MAX_ASSET
  Chunk       \* what one read of the upstream returns at most

\* reached: the storage host answered; sized: with a Content-Length; size: of
\* the file; came: how much of it came before the end or an error.
Upstream == [reached : BOOLEAN, sized : BOOLEAN, size : Nat, came : Nat]

ErrorPage == [head |-> Headers, kind |-> "refused", length |-> 2, full |-> 2, body |-> 2]

\* A block is sent on unless it would exceed MAX_ASSET; then, with the headers
\* long gone, the connection is closed.
Passed(n) == IF n <= MaxAsset THEN n ELSE (MaxAsset \div Chunk) * Chunk

StreamAsset(u) ==
  IF ~u.reached \/ (u.sized /\ u.size > MaxAsset) THEN ErrorPage
  ELSE [head |-> Headers, kind |-> "ok", length |-> IF u.sized THEN u.size ELSE 0,
        full |-> u.size, body |-> Passed(u.came)]
=============================================================================
