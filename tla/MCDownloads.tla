---------------------------- MODULE MCDownloads -----------------------------
EXTENDS Downloads

\* "x\n\r\n": the blank line is met with and without carriage returns.
CrLf   == <<"x", "r", "n", "r", "n">>
Lf     == <<"x", "n", "n">>
NoEnd  == <<"x", "n", "x", "r", "x", "x">>      \* headers that never end

Server == INSTANCE AssetStream WITH Headers <- CrLf, MaxAsset <- 3, Chunk <- 2

U(r, s, n, c) == [reached |-> r, sized |-> s, size |-> n, came |-> c]
A(h, k, l, f, b) == [head |-> h, kind |-> k, length |-> l, full |-> f, body |-> b]

\* What GitFetch's own server answers: a file of three bytes, whole or cut off;
\* one that is too large; one of unknown length; none.
Sized == {Server!StreamAsset(U(TRUE, TRUE, 3, n)) : n \in 0 .. 3}
UnknownLength == {Server!StreamAsset(U(TRUE, FALSE, 4, n)) : n \in 0 .. 4}
Refusals == {Server!StreamAsset(U(FALSE, FALSE, 3, 0)), Server!StreamAsset(U(TRUE, TRUE, 4, 4))}
\* What something else at that address may answer.
Others == {A(Lf, "ok", 3, 3, n) : n \in 0 .. 3}
            \cup {A(CrLf, k, 2, 2, 2) : k \in {"chunked", "nohttp"}}
            \cup {A(NoEnd, "ok", 2, 2, 2)}

AllAnswers  == Sized \cup UnknownLength \cup Refusals \cup Others
AllBackends == {"proxy", "native"}
JustProxy   == {"proxy"}
AllKinds    == {"fetch", "download"}
=============================================================================
