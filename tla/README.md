# GitFetch: TLA+ models and proofs

GitFetch is an AmigaOS 3.x program that lists the releases of a GitHub
repository and downloads files from them.  This directory holds TLA+ models of
its code, the TLC configurations that check them and theorems checked by TLAPS.
Paths below are relative to the repository (`src/`).

## 1. Inventory

| Part | State it keeps | Operations | Talks to |
|---|---|---|---|
| GUI task (`src/gui.c`) | `GFApp`: window, gadgets, one `GFJob`, one `ReleaseList`, `job_active`, `iconified`, `selected_release` | `gf_gui_run`: wait, progress, reply, input, shutdown; one handler per gadget | worker (message, two signals, shared memory), preferences window, notifications |
| Worker process (`src/worker.c`) | its own stack; `job->worker_task`, `running`, `result`, counters | `worker_entry`, `worker_progress` | GUI (reply, progress signal), backends |
| Backend dispatch (`src/backend.c`) | `server_message` | `gf_fetch_releases`, `gf_download_asset` | both backends; read by the GUI |
| HTTP client (`src/net.c`) | `SocketBase`, one `Conn` per request | `gf_net_open/close`, `gf_http_get` | TCP/IP stack, a sink callback |
| Proxy backend (`src/backend_proxy.c`) | parser or file of the transfer | fetch, download | HTTP client, parser, DOS |
| Native backend (`src/backend_native.c`) | `ssl_ctx`, three library bases | fetch, download | AmiSSL, JSON parser, DOS |
| Protocol parser (`src/parse.c`) | line, header/end/status flags, list | `init`, `feed`, `finish` | proxy backend |
| JSON parser (`src/json.c`), file choice (`src/assets.c`) | lexer, depth, release and file being built | `init`, `feed`, `finish`; `gf_asset_offer` | native backend |
| Bookmarks (`src/bookmarks.c`) | list of at most 40; two files | load, save, add, remove | GUI, `ENV:`, `ENVARC:` |
| Notifications (`src/notify.c`) | reply port, `wedged`, `registered` per server | open, `gf_notify`, close | ARexx ports of Herald, Ranchero, Ringhio |
| Proxy server (`server/gitfetch_proxy.py`) | cache with lock, secret | releases, asset | GitHub, clients; one thread per request |
| Settings (`src/prefs.c`, `src/prefswin.c`) | `GFPrefs`, `ENV:`, ToolTypes | load, edit, save | GUI, worker (copy in the job) |
| Address (`src/url.c`) | none | `gf_normalize_repo` | GUI |

Hard behaviours: two tasks share the job, the list and the server message
without a lock, kept apart only by who holds the job message; Stop is a signal
to a task whose pointer is read a moment earlier; the window can be iconified or
closed at any time; a transfer can be aborted, time out, be cut short or fail to
write; one socket library base serves consecutive workers; notification
servers may answer late or never; proxy threads share a cache, and links expire;
other programs touch the file while the user is asked about it; the settings are
eight files saved one by one, and the screen changes between two starts.
`PROJECT.json` lists each hazard at its line with the properties about it.

## 2. Modules

| Module | Models | State and actions, and the code they stand for |
|---|---|---|
| `GitFetchJob` | `gui.c`, `worker.c`, `backend.c` | Two kinds of tasks. `guiPc` is the place in `gf_gui_run`; `pc[p]` that of each worker process. Shared memory (`job`, `list`, `serverMsg`, `socketBase`), message (`mail`) and signals (`signals`, `ctrlC`) are variables of their own, and every step between two points at which the other task can run is an action. What is drawn in the window (`buttons`, `status`, `gauge`, `rows`, `files`) is kept apart from what it shows. The backend is one choice of `Dispatch`, where `gf_fetch_releases` first looks at the job's copy of the settings. |
| `JobPromise` | what the user is promised of a job | one at a time, ends once, aborted only when asked, no exit while busy |
| `HttpGet` | `gf_http_get`, `gf_proxy_download_asset` | The answer is a run of header units and body bytes; `pos`, `len`, `eof` are the fields of `struct Conn`. `Arrive` and `HangUp` are the server, `UserStop` the signal. |
| `AssetStream` | `stream_asset` of the proxy server | operator: for a file, its announced size and the point where GitHub stops, the bytes and the header the client gets; the answers of `MCDownloads` are its values, so the server and the HTTP client are checked against each other |
| `FileDownload` | what a download promises of its file | kept by both backends: success with all of the file, as far as its length is known, or an error and its part deleted, unless the file system refuses (then it is `left`); a file that was there is untouched until the transfer opens it |
| `Downloads` | `action_download` and either backend | `place` goes through the look for the file, the question and the check for space; then `Proxy == INSTANCE HttpGet` or `Native == INSTANCE NativeDownload` takes the steps. `Appear` and `Vanish` are another program that makes or removes the file at any time before it is opened. |
| `NativeDownload` | `backend_native.c` | `amissl_open` part by part (each may fail), `fetch_url`, sinks, `amissl_close`; several jobs in a row |
| `GitHubAnswer`, `FileChoice` | the JSON, and `assets.c` / `select_assets` | operators used by both parsers; `ExpectedList` is the reference definition |
| `JsonParser` | `json.c` | one action per token; `p` is `struct GFJson` |
| `LineParser` | `build_releases`, `build_error`, `parse.c`, `gf_proxy_fetch_releases` | the proxy's lines, any of which may be lost or the rest cut off, fed to the line handlers |
| `ReleaseLists` | both of them behind `gf_fetch_releases` | composes the two with `INSTANCE`; states what list either leaves: `ExpectedList` through the proxy, and `NativeList`, which differs from it in two fields, through `json.c` |
| `Address` | `gf_normalize_repo` | operator on words and signs: prefixes, owner, repository, `.git` |
| `Settings` | `prefs.c`, `prefswin.c`, the chooser and the window's place in `gui.c` | `prefs` is `app->prefs`; `todo` holds the variables `save_prefs` has still to write, so that a reset or a full disk can come in before, in the middle of and after each; `Load` is `gf_prefs_load` |
| `Bookmarks` | `bookmarks.c`, its two buttons | what is added is `Normalize` of the text in the field; list, `ENV:` and `ENVARC:` files; a save is two actions, each of which may fail, silently or not, also in the middle of a name (`Torn`); `worst` remembers the worst that has happened to a write |
| `Notify` | `notify.c` | the GUI task, the reply port and its messages, told apart by their numbers; servers start, quit and answer at any time |
| `ProxyServer` | `gitfetch_proxy.py` | one `pc` per thread; the two locked parts of `cached_releases` are the actions `Lookup` and `Store`, with the fetch in between; time counts in fractions of a second |

`MC...` modules give the constants their values.  The proofs are in
`GitFetchJob_proofs` (memory, library, aborts, refinement; then the window),
`Notify_proofs`, `ProxyServer_proofs`, `Bookmarks_proofs`, `Settings_proofs`,
`Downloads_proofs`, `ReleaseLists_proofs` (arrays, errors, the choice of files) and,
on top of it, `ReleaseListContents_proofs` (what the lists hold).  Definitions that
begin a name with that of another and an underscore (`Store_LinkTtl`) are not part of
a specification: they are the mistakes each property was tried against, listed under
`mutants` in `PROJECT.json`.

## 3. Runs

| Run | Bounds | What it shows |
|---|---|---|
| `job_safety` | 2 processes, 2 repositories, both backends, 1 block | Every interleaving of the GUI with a worker that ends while the next starts. Memory, library and job have one owner; the window agrees with the list and the job; the text of an error is the job's own; the inductive invariant of the proofs holds; each step is one of `JobPromise`. |
| `job_liveness` | 1 process, 1 repository, proxy backend | The whole promise with its liveness; closing the window ends the program; a Ctrl-C that arrives ends the job, as aborted or as a failed wait (`net.c:111` comes before the signal), never as a success. |
| `job_lost_stop` | as above | **violation**: Stop before `worker_task` is filled in has no effect (`worker.c:132`, against the comment at 129). |
| `job_list_race` | 2 repositories | **violation**: a click on a release during a fetch reads the list that is being filled (`gui.c:1457`, against `worker.c:88`). |
| `downloads` | both backends; headers of both line endings, bodies of 0-3 of 3 bytes, read buffer of 3, header buffer of 6; 2 native jobs of 2 blocks | From the click to the file. Every way to cut the stream into reads: the file is the body and nothing else; nothing is left open, AmiSSL is used only while open; a stop lets one more block through at most; both backends implement `FileDownload`, with another program at work on the file until it is opened, and with a `DeleteFile` that may fail; every job ends or waits in AmiSSL. |
| `http_unknown` | bodies without `Content-Length` | **violation**: a body that was cut short passes as a success (`net.c:360`, against 358). |
| `lists` | arrays of 2 releases and 2 files; up to 3 releases, up to 4 files in all orders | The native backend has at every moment the beginning of its list, and all of it at the end of the answer: in all but two fields (section 7) that of `test/json_reference.py`; a success of the proxy backend is the whole list, with the paths as they fit in `GF_MAX_PATH` (one does not); lines too long lose files, never misplace them; an error is the one the proxy reported. Both backends get names that are `null` and releases published later than made, or not at all. |
| `bookmarks` | list of 2; three repositories, two of which differ in case only, each written in every combination of 14 beginnings and 6 ends; ten texts without one | What is saved is what was pasted, and stays itself when it is picked; no duplicates, unless a file was cut off in a name, which may then be another's; as long as writes succeed, a restart at any moment brings back the last list, unless it was emptied. |
| `settings` | 2 starts, 2 icons, 2 screens, 2 places, 2 clicks on Save or Use, 1 trouble (a variable set by hand, a failed write, a reset during a save); resets at rest at any time | What was saved comes back whatever the icon says, each variable by itself if the saving was cut off; port and number of releases are usable; the certificate check is off only if the user turned it off; the window opens in reach, and where it was if it fits. |
| `notify` | 2 servers, 2 notifications, 2 looks at the port | A late answer finds its message and port; no answer is taken for another; the GUI is not kept. |
| `server` | 2 threads, lifetimes 2 (list), 1 (error) and 3 (link) seconds of 2 instants, 8 instants, 1 restart | How old an answer, how short-lived a link may be; why a link is refused. |
| `server_zip` | 1 thread, 2 releases | **violation**: a source zip link gives the zip of another release once a new one is published (`gitfetch_proxy.py:426`, against `doc/protocol.md:51`). |

Why the bounds suffice.  Only one job is alive at a time, so the second process
is the one that matters (the new worker meets the old one that has not exited);
a third would have to meet the first, which has no state left.  One block has a
read before, at and after it.  In `downloads` the answer is longer than the read
buffer and the headers of one answer longer than theirs; the blank line falls
within a read, at its end and across two.  In `lists` arrays of two already have
a place that is full, spare and missing, and four files let an archive displace
and be displaced.  In `bookmarks` two places make the list full, and the home repository is one of
the three.
In `settings` the second start is the one that reads what the first wrote, on the
other screen; two clicks give an old and a new value, and 0, 25, 26, 65535 and
65536 are the edges of its numbers.  `notify`
needs a second notification to take the answer of the first.  In `server` the
8 instants let a list expire in the cache, a link expire at the client and an
error in between; the names of releases do not matter to its properties (one is
published), and in `server_zip` two are needed.

Deadlock is checked in every run: each specification says where its system may
stop (`Terminated`, `Done`, `Finished`) or always has something to do.

## 4. Fairness

* `GitFetchJob`: weak fairness of the GUI task and of each worker, because Exec
  schedules both and neither waits for ever: the GUI waits for signals, which
  the model lets it do without a step, and `wait_readable` has a timeout.  Not
  the user, not the network.  Reads of the native backend have no timeout
  (`backend_native.c:268`), which is why `job_liveness` takes the proxy backend.
* `Downloads`: weak fairness of every step of the worker once there is a job, none
  of the user at the questions: of the HTTP client, because the timeout in
  `WaitReadable` makes each wait end, and of the native backend except in
  `OSSL_HTTP_get` (called with timeout 0) and `BIO_read`, which may block for
  ever.  `DownloadEnds` therefore allows a worker to stay there.
* `Notify`: weak fairness of the GUI's own steps (`Delay` comes back), none of
  the servers.
* The others have no liveness properties and no fairness.

## 5. Proofs

`GitFetchJob_proofs` proves, for any processes, repositories, backends, number of
blocks and progress step, from `JobAssumption` alone:

* `TypeCorrect`: `TypeOK`.
* `Invariance`: `IInv`, the inductive invariant.  `TypeOK` and the three safety
  properties are not inductive by themselves: that a replied job is not touched
  needs `OneOwner` (where the message is determines which process, if any, is
  engaged with it); that a base is used by its opener needs `LibraryOwned` (it
  is open just while its opener is between `gf_net_open` and `gf_net_close`);
  that an abort was asked for needs `AbortTraced` (the error of the transfer,
  the pending Ctrl-C and the task about to be signalled all go back to a request
  for this job).
* `MemoryOutlivesWorker`, `LibraryPerTask`, `AbortWasAsked`: the safety
  properties, from `IInv`.
* `ImplementsPromise`: with the refinement mapping of `Promise`, the initial
  states and every step of `GitFetchJob` are those of `JobPromise` or stutter.

The proofs go action by action: the frame of each process (`WorkerFrame`) makes
the conjuncts an action cannot disturb a matter of one leaf.  `job_safety` checks
the same formulas on a small instance.

`Notify_proofs` proves, for any servers, wait and number of notifications:

* `Invariance`: `NInv`, the inductive invariant.  None of the three safety
  properties says what a reply may be before it comes; `OneMessage` does (the
  message that is waited for is the only one out, at the server or on the port),
  `Tidy` and `GivenUp` say the same of the moments in which none is waited for.
* `TypeCorrect`, `LateReplies`, `Answers`, `Leftovers`: the safety properties,
  from `NInv`.

The second part of `GitFetchJob_proofs` proves, on top of `IInv`, what the window
shows:

* `ViewInvariance`: `VInv`.  That the columns agree with the list is not
  inductive: it needs that the buttons are those of a busy program while a job
  is out, also when there is no window to draw them in; that the counters start
  at 0 and only the sink of a download moves them (so a late progress signal
  finds 0 or this job's numbers); that from the first read on the server message is
  the explanation of the error the job is ending with or else this job's note of a
  missing CA bundle, if it has one; and that a click on a release is one of the rows.
* `ListIsShown`, `GaugeIsOfThisJob`, `StopIsOffered`, `ErrorsExplained` from it,
  and `DownloadIsShown`, an action property: the step that starts a download
  takes what is shown.

`ProxyServer_proofs` proves, for any threads, lifetimes and clock allowed by
`ProxyAssumption`, any number of restarts and releases:

* `Invariance`: `PInv`.  An answer may wait in a thread while others come and go
  and the clock moves, so the cache alone says too little: `ThreadsAreCurrent`
  says of what each thread holds when it was made, with which key and until when
  its links last; `LinksStood` ties the links clients hold to a list that was
  sent.  Whole seconds against fractions is the arithmetic of `ShownOnce` and
  `Recent`.
* `TypeCorrect`, `AnswersAreRecent`, `LinksOutlive`, `RefusalsExplained` from it.

`Bookmarks_proofs` proves, for any bound on the list and texts of any length, from
`BookmarksAssumption` (files found at the start are lists without doubles) and, for
the last two points only, `AddressAssumption` (signs have no other case) and
`PagesAssumption`: a text the user pastes is a page or a clone address of the
repository that is meant (`IsPageOf`, which says how such texts are written and
nothing of how they are read), or there is no name in it, it is an address of another
service, or the name is too long; the home repository and the names in the files are
names of repositories.

* `Invariance`: `BInv`.  A restart reads the files, so what is true of the list
  must be true of each file (`OnceInFiles`); a save in progress has one file
  ahead of the other (`Ahead`), and which of them a restart reads is `Restores`.
* `RememberedOnce` from it, and `RestartRestores`, an action property: it speaks of
  lists with a name in them, since an emptied one is taken for none (section 7).
* `PageRead`: of every text that `IsPageOf` allows, `gf_normalize_repo` keeps exactly
  the repository.  Each beginning differs from those tried before it in its first or
  fourth token (`LeadsDiffer`), so they are taken off one by one (`FrontSkipped`) and,
  as a slash comes after the owner, an owner called `git` or `www` stays
  (`OwnerNoLead`).  What is left is always an end of the text (`IsEnd`), so its length
  says which one (`Ends`).  `NameEnds` finds the end of the name, before `.git` in any
  spelling.  `RepositoryRead` is the case of the repository alone; `NoNameRefused` and
  `ElsewhereRefused` are the texts that are none.
* `PastedIsSaved`: `SavesWhatWasPasted`, by `PasteInv`: the files, too, hold only names
  that are read as themselves, or torn ones (`ReadableFiles`).

`Settings_proofs` proves, for any icons, gadgets, variables set by hand, screens
and places (`SettingsAssumption` gives their types; an entry has a port and a
maximum of any size):

* lemmas about the operators: `LoadType` (whatever icon and variables hold, what
  is loaded can be used), `ReadsBack` and `LoadsBack` (what is printed reads as
  it was, for all 16-bit values), `Clamped` (where a window is put).
* `Invariance`: `SInv`.  `SavedComesBack` speaks of reading; inductive is what is
  written (`OnDisk`: the printed value is in both files, but for the variable
  being replaced) together with `WritesInOrder` (nothing changes a setting
  between its two files).  `UncheckedOnlyIfAsked` needs the same of the files
  (`CheckedUnlessAsked`).
* `SavedSurvives`, `UncheckedIfAsked` from it, and `OpensInReach`, an action
  property, from it and `Clamped`.

`Downloads_proofs` proves, for any answers, sizes of both buffers, blocks and
number of jobs allowed by `DownloadsAssumption` (one thing it says of the answers:
their first blank line ends the headers, so `body` is what follows it):

* `Invariance`: `DInv`, with `HttpInv` and `NativeInv` of the backend at work while
  the other rests.  That the file gets the body is not inductive: it needs
  `InOrder`, that the newlines counted are those of the headers read so far (so the
  body starts where the head ends, wherever the reads were cut) and that what was
  written is what the buffer has given; success with the whole length needs
  `Ending`; closing needs `Handles`, and for the native backend `Opening`, what is
  open between the steps of `amissl_open`, and `Counted`, which block is on its way.
* `FileGetsBody`, `StopsSoon`, `AllIsClosed`, `OpenIsUsed` from it.
* `ImplementsDownload`: both backends behind the questions implement
  `FileDownload`.  Each step of the program is one of the things that can be done
  to the file (leave it, begin, fail, delete or not, close, make another), and each
  of those is a step of `FileDownload` or a stutter under `State` and `Outcome`.

`ReleaseLists_proofs` proves, for any answers made of releases
(`AnswersAssumption` gives the fields their types), any bounds of the arrays and
any errors the proxy has a message for (`ErrorsAssumption`: `ERROR_MESSAGES` has
one for each):

* `ArraysHold`: `WithinArrays`.  A file is written where the last opening brace
  said, which may be long ago; what makes that safe is the place in the answer.
  `JsonInv` therefore speaks of the braces and brackets that are open, a sequence
  the program does not have: a release is in progress only inside the second, a
  list of files only inside the third, a file only inside the fourth, and `depth`
  is their number.  The lemmas `OpenBrace` to `CloseBracket` keep it token by token;
  `JsonNested` shows that the tokens of every answer match, so there is always a
  brace to close.
* `ErrorIsExplained`: `ErrorExplained`, with `ProxyInv`: the lines still to be read
  are those of the body that was sent (`ProxyShape`), and the message waits in the
  parser until `gf_parser_finish` (`Explained`).  `ListQuiet` shows that no line of
  a list reports an error, `CutIsQuiet` that no part of such a line does.
* lemmas on recursion.  `Induction`, for sets of naturals, comes from the fact that
  `<` is well-founded (the library's theorem for operators is out of the provers'
  reach); `Recursion` and `Flattened` give from it what a function defined by
  recursion, or `FlattenSeq`, can return, and `Selected` what `select_assets` does:
  files it was given, never too many.
* `SelectsBest`: what `select_assets` keeps by going through the files once, pushing
  out the last file of a lower rank, is `BestFiles`, the choice described in
  `protocol.md`.  `Chosen` says after how many files what is kept: archives and
  others that would stay if the list ended there; the step from one file to the next
  is by rank and by whether there is still room.
* `Runs`: what a parser makes of a sequence of lines or tokens, as a relation, since
  a function of the parser's state would have to name all states.  `ReleaseRuns` and
  the lemmas after it follow the proxy's parser through the lines of one release and
  of a whole list.

`ReleaseListContents_proofs` proves what the lists hold, from the same assumptions
and two more.  `TextsAssumption`: every release has a tag, and no text is the word the
model uses for a field that is not there (`ErrorsAssumption` also says that no error
has the code 0: the codes are those of HTTP).  `InputsAssumption`, for the native
backend: every release has a tag and a date of creation, every file a name and an
address, as GitHub gives them; the name of a release may be missing or `null`, and it
may be published at any time.

* `SuccessIsWhole`: `OkIsWhole`.  The list in the parser alone does not tell what
  will become of it.  `ListsInv` says where the lines that are left lead:
  `Runs` with them ends at the whole list as long as no line was too long
  (`ListBody`, from the lines of one release, `ReleaseRuns`), and `#END` is the last
  line, so a parser that has seen it has seen them all.  A body cut inside a
  line is no success, because `gf_parser_finish` sees the part of a line but no
  `#END` (`FinishCode`); an error or another server's page never is.
* `FilesStayTogether`: `FilesBelong`, by `Filed`: a line that got lost leaves the
  list with fewer releases than were sent, so the number of the last release read
  is at least its place; the lines to come belong to it or to later ones
  (`Beyond`), and `handle_asset` takes only those with the number of the place.
* `PrefixOfExpected`: `ListIsPrefix`.  The list is that of `json_reference.py` but for
  the two fields in which `json.c` departs from it (`NativeEntry`, section 7; the
  lemma `ShownFieldsAre` says that the others are equal).  That it is a beginning of
  such a list says nothing of the next token; inductive is `ListLeads`: the tokens that are left
  lead from the parser as it is to exactly that list (`Arrives`), and no token takes
  anything off it (`Grown`, `RunsGrow`).  What remains is to follow `json.c` through
  the whole answer.  A field that is not wanted leaves things like `last_key` behind,
  so the steps are those of a view of `struct GFJson` with only what later tokens can
  tell apart (`Agrees`): `Steps` says what the tokens of a field, an object, the list
  of files and a release make of the view, whatever the rest holds.  The files are
  then taken in one by one, as `gf_asset_offer` does for the expected list too, and
  releases that are drafts or have no room leave the list as it is.

The inductive invariants were model-checked with the bounds of section 3 before
they were proved, except for the part of `JsonInv` about what is open, which is not
in the state, and `ListsInv` and `ListLeads`, whose `Runs` quantifies over functions;
the properties they imply were.

Every safety invariant and action property of the passing runs is proved.  Only
model-checked: all liveness (fairness and `ENABLED` are out of the prover's reach).
Each module states its type invariant, which is part of the
inductive invariants above.

## 6. Abstractions

* Data is kept as far as a property tells it apart: blocks instead of bytes in
  `GitFetchJob` and `NativeDownload`, names as model values or short strings.
* `resolve()`, `connect()`, `OSSL_HTTP_get` and everything AmigaOS does is one
  step that may fail.
* `LineParser` loses whole lines and cuts the rest; how bytes become lines is
  not modelled.  `JsonParser` starts from tokens, `Address` from words.
* In `Settings` a text is a word, as `strnicmp` sees it, with four numbers, as
  `atoi` sees it.  The copy the settings window works on differs from
  `app->prefs` only inside one handler, so there is one variable.  A gadget the
  user left alone holds the setting.  Variables are set by hand between, not
  during, the program's own writes, and failed writes, resets during a save and
  variables set by hand share the bound `MaxTroubles`.
* `Survives` in `Settings` names what is not promised to come back: an empty host
  (an empty variable reads as none) and a window of at most 100 by 60.
* In `ProxyServer` time stands still while a thread holds the lock or is between
  GitHub's answer and the reply; one cache key is modelled, as others share
  nothing with it.
* The count of notifications, jobs, restarts, releases published and instants is
  bounded by a constant named in the module (`MaxNotes`, `MaxJobs`,
  `MaxRestarts`, `MaxPublished`, `MaxTime`), as are the blocks of a transfer
  (`MaxBlocks`, `Full`), the starts and clicks of `Settings` (`MaxStarts`,
  `MaxPresses`).

Not modelled: the layout of the windows, the menu strip and the About box, which
keep no state; the lexer of the JSON parser and the line buffer of the protocol
parser (bytes to tokens and lines); texts and catalogs; the command line tester, a
sequential driver of the same functions; the tests; the build (see `components` in
`PROJECT.json`).

## 7. Noticed while modelling, without a run of their own

* A name that is `null` becomes the title "null" with the native backend
  (`json.c:443`); `test/json_reference.py:29` and the proxy use the tag.
* The native backend shows `created_at`, which comes first in the answer
  (`json.c:125`); `test/json_reference.py:30` and the proxy show
  `published_at`.  `ListIsPrefix` states both fields as `json.c` fills them.
* When the socket library cannot be opened, the status line may show the server
  message of an earlier job (`worker.c:65`, `backend.c:54`; `gui.c:745` means
  the message of this one).  `ErrorIsOfThisJob` says that this is the only case in
  which the text is of another job.
* `gf_worker_abort` may signal a task that has exited in between (`worker.c:132`).
* What is drawn while the program is iconified is lost (`gui.c:271`, 428), and
  `WMHI_UNICONIFY` draws nothing again (`gui.c:1441`): after a job that ended
  meanwhile the status line is old, Stop stays on, and Fetch and Download stay off
  until something else sets them.
* Stop has no effect on the native backend while the server is silent
  (`backend_native.c:268`), although the guide says that it breaks off the
  transfer.  `DownloadEnds` allows that wait.
* The note about missing certificates is left in `server_message`
  (`backend_native.c:155`), which is shown only after an error (`gui.c:745`), and then
  in place of its cause: `ErrorIsOfThisJob` allows that.  The user of a transfer that
  succeeds unchecked is not told, although the comment says that he ought to know
  (`backend_native.c:144`, 151).
* A TLS connection that breaks ends a list or a file like its end does
  (`backend_native.c:268`, 403), without the check `net.c:358` and `parse.c:222`
  have.
* A signed path of a long repository name may exceed `GF_MAX_PATH`
  (`gitfetch_proxy.py:182`, `parse.c:118`); the file is then listed but refused.
* Removing the last bookmark brings back the home repository at the next start, which
  looks at the number of names and not at whether there is a saved list; the comment
  says that it does not come back (`bookmarks.c:78`).  `KeptOverRestart` is about
  lists with a name in them.
* The warning comes only when both files could not be written (`bookmarks.c:113`).  If
  only `ENVARC:` failed, the list is gone after a reboot without a warning, although
  `gfbookmarks.h:5` and the guide (line 92) have it survive.  `KeptOverRestart`
  says nothing once a write has failed.
* A notification server counts as registered whatever it replied, also after it
  was started anew (`notify.c:223`).
* An answer that was asked for first may be stored last and replace a newer
  list: an error for up to a minute, an older list for up to `CACHE_TTL` (`gitfetch_proxy.py:334`).
  `AnswerIsRecent` bounds how old such an answer gets; it does not forbid it.
* Settings.  Save also writes what was only tried for this session through
  `ENV:`, a ToolType or the chooser (`gui.c:1496`, `prefswin.c:98`).  "All" in the
  chooser follows the maximum in the settings only at the start (`gui.c:963`,
  against the comment at 180).  An empty host cannot be saved (`prefs.c:31`).
  `VerifyCert` set by hand to "yes" or "on" turns the check off, because it goes
  through `atoi` (`prefs.c:153`) where `Notify` does not; `UncheckedOnlyIfAsked`
  counts that as asked for.  Whether a variable could be written is never looked
  at (`prefswin.c:82`).  Ctrl-C while the settings window is open closes only that
  window (`prefswin.c:326`), and a Save queued behind Cancel is still carried out
  (`prefswin.c:329`).
* A remembered window as tall as a smaller screen is put one title bar down and so
  reaches below the screen (`gui.c:856`); `ReopensInReach` asks for its title bar.
* `x.git.git` becomes `x.git` when it is saved and `x` when it is fetched
  (`url.c:90`); GitHub gives out no such names.
* A bookmark file edited by hand may hold a repository twice (`bookmarks.c:54`);
  `BookmarksAssumption` leaves such files out, and `PagesAssumption` those in which a
  name is none.
* Questions before a download.  A file of the same name made after `Lock` has looked
  for it (`gui.c:530`) is overwritten without a question, although the guide says
  there is one (line 157): `MODE_NEWFILE` replaces what is there.
  `Appear` is that other program, and `FileDownload` does not promise a question.
  On a full volume the free space counts as unknown
  and there is no warning (`gui.c:1344`, against the guide); the size in kilobytes
  of a file near 4 GB wraps.  A drawer of more than 255 characters is looked at
  under one name and written under another (`gui.c:527`, 566).
* After a failed transfer the result of `DeleteFile` is ignored (`backend_proxy.c:173`,
  `backend_native.c:406`): if the file is in use or the disk has gone, its part stays,
  which looks whole.  `KeepsDownload` allows it (`left`).
* When the public screen cannot be locked, a remembered place is not clamped
  (`gui.c:846`); the window does not open then either.
* `stream_asset` cuts a file without an announced size at its limit without an
  error (`gitfetch_proxy.py:471`), which is the case of `http_unknown`.

## 8. Plan

Done: `GitFetchJob`, `Notify`, `Settings`, `ProxyServer`, `Bookmarks` with
`Address`, and `Downloads` over `HttpGet`, `NativeDownload` and `AssetStream`, all
with their proofs; the parsers and their comparison, with proofs for the arrays of
`json.c`, the errors of the proxy, the choice of files and the lists both backends
give.  Left: the lexer of `json.c` and the line buffer of `parse.c`.
