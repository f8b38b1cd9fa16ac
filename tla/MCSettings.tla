----------------------------- MODULE MCSettings -----------------------------
(* Small instance of Settings: the values at the edges of what the code     *)
(* tells apart.                                                             *)
EXTENDS Settings

NoIcon  == [f \in Fields |-> Absent]
MCIcons == {NoIcon,
            [NoIcon EXCEPT !.host = Word("amiga"), !.port = Number(65536),
                           !.max = Number(26), !.backend = Word("proxy"),
                           !.notify = Word("no")]}

MCEntries == {[host |-> NoWord, port |-> 65535, max |-> 25, verify |-> 0],
              [host |-> "proxy", port |-> 0, max |-> 0, backend |-> "proxy",
               verify |-> 1, notify |-> 0]}

MCEdits == {<<"verify", Word("yes")>>, <<"port", Word("no")>>,
            <<"window", Box(<<-20, 100, 2000, 1000>>)>>}

MCScreens == {[width |-> 640, height |-> 256, bar |-> 10],
              [width |-> 1024, height |-> 768, bar |-> 20]}
MCPicks   == {2, 5}
MCPlaces  == {<<10, 11, 620, 200>>, <<300, 400, 700, 300>>}
=============================================================================
