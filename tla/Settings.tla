------------------------------ MODULE Settings ------------------------------
(***************************************************************************)
(* The settings: where a start takes them from (prefs.c), the window that  *)
(* changes them (prefswin.c), what the main window adds (gui.c), and the   *)
(* variables in ENV: and ENVARC: they are kept in between.                 *)
(***************************************************************************)
EXTENDS Integers, Sequences

CONSTANTS
  Icons,       \* what the ToolTypes may hold: functions from Order's fields to texts
  Entries,     \* what a user may do to the gadgets: the fields changed, to what
  Edits,       \* variables a user may set by hand: <<field, text>>
  Screens,     \* public screens: [width, height, bar]
  Places,      \* where a window may be dragged: <<left, top, width, height>>
  Picks,       \* the lines of the chooser a user tries, of 1 .. 5
  MaxStarts, MaxPresses, MaxTroubles   \* bounds

VARIABLES
  pc,          \* "off", "main", "settings" or "ending"
  prefs,       \* app->prefs; the copy `work` differs from it inside one handler only
  window,      \* where the main window is; None when it is not open
  screen,
  all,         \* count_values[4], the last line of the chooser
  todo,        \* the variables still to be written, the first one being written
  part,        \* of the first: "env" or "arc"
  env, arc,    \* ENV:GitFetch/ and ENVARC:GitFetch/
  saved,       \* history: per field the value the program wrote last, if any
  unticked,    \* history: the certificate check was turned off by the user
  starts, presses, troubles   \* counted up to their bounds

gui  == <<prefs, window, screen, all>>
disk == <<todo, part, env, arc, saved>>
bounds == <<starts, presses, troubles>>
vars == <<pc, gui, disk, unticked, bounds>>

MaxReleases == 25
Order  == <<"host", "port", "destdir", "max", "backend", "verify", "notify", "window">>
Fields == {"host", "port", "destdir", "max", "backend", "verify", "notify", "window"}
Tools  == Fields \ {"verify", "window"}     \* there is no ToolType for these

\* A text as the code sees it: a word for strnicmp, four numbers for atoi.
Word(w)   == [word |-> w, nums |-> <<0, 0, 0, 0>>]
Number(n) == [word |-> IF n = 0 THEN "0" ELSE "digits", nums |-> <<n, 0, 0, 0>>]
Box(b)    == [word |-> "digits", nums |-> b]
NoWord    == "(none)"                            \* the empty word
Empty     == Word(NoWord)
Absent    == [word |-> NoWord, nums |-> <<1, 0, 0, 0>>]   \* no text reads like this
None      == <<0, 0, 0, 0>>

MaxUWord  == 65535
MinWord   == -32768
MaxWord   == 32767
Words     == MinWord .. MaxWord
Boxes     == Words \X Words \X Words \X Words
IsText(t) == /\ t = [word |-> t.word, nums |-> t.nums]
             /\ t.nums \in Int \X Int \X Int \X Int
             /\ t.word = NoWord => t \in {Absent, Empty}

IsEntry(e) ==
  /\ DOMAIN e \subseteq Fields \ {"destdir", "window"}
  /\ "port" \in DOMAIN e => e["port"] \in Int
  /\ "max" \in DOMAIN e => e["max"] \in Int
  /\ "backend" \in DOMAIN e => e["backend"] \in {"native", "proxy"}
  /\ "verify" \in DOMAIN e => e["verify"] \in {0, 1}
  /\ "notify" \in DOMAIN e => e["notify"] \in {0, 1}

ASSUME SettingsAssumption ==
  /\ \A icon \in Icons : DOMAIN icon = Fields /\ \A f \in Fields : IsText(icon[f])
  /\ \A e \in Entries : IsEntry(e)
  /\ \A e \in Edits : e[1] \in Fields /\ IsText(e[2])
  /\ Screens # {}
  /\ \A s \in Screens : s.width \in 1 .. MaxWord /\ s.height \in 1 .. MaxWord
                         /\ s.bar \in Nat /\ s.bar + 1 < s.height
  /\ \A b \in Places : b \in Boxes /\ b[3] > 0 /\ b[4] > 0
  /\ Picks \subseteq 1 .. 5

-----------------------------------------------------------------------------
(* prefs.c *)

Defaults == [host |-> "localhost", port |-> 8080, destdir |-> "RAM:", max |-> 1,
             backend |-> "native", verify |-> 1, notify |-> 1, window |-> None]

SwitchValue(t) == IF t.word \in {"no", "off", "0"} THEN 0 ELSE 1
UWord(n)       == n % (MaxUWord + 1)
SWord(n)       == ((n - MinWord) % (MaxUWord + 1)) + MinWord

ReadWindow(t, old) ==
  LET n == t.nums
      v == <<SWord(n[1]), SWord(n[2]), SWord(n[3]), SWord(n[4])>>
  IN IF v[3] > 100 /\ v[4] > 60 THEN v ELSE old

\* The value of field f after text t was found for it.
Taken(f, t, old) ==
  [host    |-> IF t = Empty THEN old ELSE t.word,
   destdir |-> IF t = Empty THEN old ELSE t.word,
   port    |-> UWord(t.nums[1]),
   max     |-> UWord(t.nums[1]),
   backend |-> IF t.word = "native" THEN "native" ELSE "proxy",
   verify  |-> IF t.nums[1] # 0 THEN 1 ELSE 0,
   notify  |-> SwitchValue(t),
   window  |-> ReadWindow(t, old)][f]

ApplyTooltypes(p, icon) ==
  [f \in Fields |-> IF f \in Tools /\ icon[f] # Absent THEN Taken(f, icon[f], p[f]) ELSE p[f]]

\* Mutant: an empty variable counts.
ReadEnv_Empty(t) == t # Absent

\* GetVar returns 0 for an empty variable, and that counts as none.
ReadEnv(t) == t \notin {Absent, Empty}

ApplyEnv(p, variable) ==
  [f \in Fields |-> IF ReadEnv(variable[f]) THEN Taken(f, variable[f], p[f]) ELSE p[f]]

Load(icon, variable) ==
  [ApplyEnv(ApplyTooltypes(Defaults, icon), variable) EXCEPT
     !["port"] = IF @ = 0 THEN 80 ELSE @,
     !["max"]  = IF @ \notin 1 .. MaxReleases THEN 1 ELSE @]

-----------------------------------------------------------------------------
(* gui.c: the number of releases and the place of the window *)

Values(top) == <<1, 3, 5, 10, top>>
Least(a, b) == IF a < b THEN a ELSE b

\* Mutant: a window that is too far right stays there.
Clamp_NotRight(b, s) ==
  LET w == Least(b[3], s.width)
      h == Least(b[4], s.height)
  IN <<IF b[1] < 0 THEN 0 ELSE b[1],
       IF b[2] < 0 \/ b[2] + h > s.height THEN s.bar + 1 ELSE b[2], w, h>>

\* clamp_window_prefs
Clamp(b, s) ==
  LET w == Least(b[3], s.width)
      h == Least(b[4], s.height)
  IN IF b = None THEN b
     ELSE <<IF b[1] < 0 \/ b[1] + w > s.width THEN 0 ELSE b[1],
            IF b[2] < 0 \/ b[2] + h > s.height THEN s.bar + 1 ELSE b[2], w, h>>

Within(b, s) == b[1] >= 0 /\ b[2] >= 0 /\ b[1] + b[3] <= s.width /\ b[2] + b[4] <= s.height

-----------------------------------------------------------------------------
Init ==
  /\ pc = "off" /\ prefs = Defaults /\ window = None
  /\ screen = CHOOSE s \in Screens : TRUE
  /\ all = MaxReleases
  /\ todo = <<>> /\ part = "env"
  /\ env = [f \in Fields |-> Absent] /\ arc = env
  /\ saved = [f \in Fields |-> {}] /\ unticked = FALSE
  /\ starts = 0 /\ presses = 0 /\ troubles = 0

\* main: gf_prefs_load, gf_gui_run up to the loop.  Without a remembered place
\* window.class centres the window.  A window that will not open ends the program,
\* by way of the same cleanup.  When there is no public screen to lock the place is
\* not looked at, and no screen for the window to open on either.
Start ==
  /\ pc = "off" /\ starts < MaxStarts
  /\ starts' = starts + 1
  /\ screen' \in Screens
  /\ \E icon \in Icons, locked \in BOOLEAN :
       LET p == Load(icon, env)
       IN /\ prefs' = IF locked THEN [p EXCEPT !["window"] = Clamp(@, screen')] ELSE p
          /\ pc' \in {"ending"} \cup (IF locked THEN {"main"} ELSE {})
  /\ all' = IF prefs'["max"] > 10 THEN prefs'["max"] ELSE MaxReleases
  /\ \/ /\ pc' = "main" /\ todo' = todo
        /\ window' \in IF prefs'["window"] # None THEN {prefs'["window"]}
                       ELSE {b \in Places : Within(b, screen')}
     \/ /\ pc' = "ending" /\ window' = None
        /\ todo' = IF prefs'["window"] # None THEN <<"window">> ELSE <<>>
  /\ UNCHANGED <<part, env, arc, saved, unticked, presses, troubles>>

-----------------------------------------------------------------------------
(* The main window. *)

\* Intuition: the user moves or sizes it.
Drag ==
  /\ pc = "main" /\ window # None
  /\ window' \in {b \in Places : Within(b, screen)}
  /\ UNCHANGED <<pc, prefs, screen, all, disk, unticked, bounds>>

\* WMHI_ICONIFY: remember_window, and the window is gone.
Iconify ==
  /\ pc = "main" /\ window # None
  /\ prefs' = [prefs EXCEPT !["window"] = window]
  /\ window' = None
  /\ UNCHANGED <<pc, screen, all, disk, unticked, bounds>>

\* WMHI_UNICONIFY: window.class opens it where it was, or cannot.
Uniconify ==
  /\ pc = "main" /\ window = None /\ prefs["window"] # None
  /\ window' = prefs["window"]
  /\ UNCHANGED <<pc, prefs, screen, all, disk, unticked, bounds>>

\* GID_COUNT
OnCount ==
  /\ pc = "main" /\ window # None
  /\ \E i \in Picks : prefs' = [prefs EXCEPT !["max"] = Values(all)[i]]
  /\ UNCHANGED <<pc, window, screen, all, disk, unticked, bounds>>

\* The menu needs the window.
OpenSettings ==
  /\ pc = "main" /\ window # None
  /\ pc' = "settings"
  /\ UNCHANGED <<gui, disk, unticked, bounds>>

\* WMHI_CLOSEWINDOW or Ctrl-C, and the cleanup.  The window may be iconified.
Quit ==
  /\ pc = "main"
  /\ prefs' = IF window # None THEN [prefs EXCEPT !["window"] = window] ELSE prefs
  /\ window' = None
  /\ pc' = "ending"
  /\ todo' = IF prefs'["window"] # None THEN <<"window">> ELSE <<>>
  /\ UNCHANGED <<screen, all, part, env, arc, saved, unticked, bounds>>

-----------------------------------------------------------------------------
(* The settings window.  A gadget the user left alone holds the setting.   *)

Collect(p, entry) ==
  [f \in Fields |->
     IF \/ f \notin DOMAIN entry
        \/ f = "port" /\ entry[f] \notin 1 .. MaxUWord
        \/ f = "max" /\ entry[f] \notin 1 .. MaxReleases
     THEN p[f] ELSE entry[f]]

\* The copy is taken over.  Events behind the click in the queue are still handled,
\* so another click may follow before the window closes.
Press ==
  /\ pc = "settings" /\ todo = <<>> /\ presses < MaxPresses
  /\ presses' = presses + 1
  /\ \E entry \in Entries :
       /\ prefs' = Collect(prefs, entry)
       /\ unticked' = (unticked \/ ("verify" \in DOMAIN entry /\ entry["verify"] = 0))
  /\ UNCHANGED <<pc, window, screen, all, part, env, arc, saved, starts, troubles>>

\* save_prefs writes one variable after the other.
PressSave ==
  /\ Press
  /\ todo' = SubSeq(Order, 1, IF prefs["window"] = None THEN 7 ELSE 8)

PressUse == Press /\ UNCHANGED todo

\* Cancel, the close gadget, the end of the queue after any click, or Ctrl-C, which
\* this window consumes.
LeaveSettings ==
  /\ pc = "settings" /\ todo = <<>>
  /\ pc' = "main"
  /\ UNCHANGED <<gui, disk, unticked, bounds>>

-----------------------------------------------------------------------------
(* save_var: SetVar writes ENV:, then creates the file in ENVARC:, empty   *)
(* until it is written.  Nothing looks at the result.                      *)

Writing == todo # <<>>
Now     == Head(todo)

\* Field f with value v as save_prefs writes it.
Format(f, v) ==
  IF f \in {"host", "destdir", "backend"} THEN Word(v)
  ELSE IF f = "window" THEN Box(v) ELSE Number(v)

Printed(f) == Format(f, prefs[f])

\* The histories.
Kept ==
  /\ saved' = [saved EXCEPT ![Now] = {prefs[Now]}]
  /\ unticked' = (unticked /\ ~(Now = "verify" /\ prefs["verify"] = 1))

WriteEnv ==
  /\ Writing /\ part = "env"
  /\ env' = [env EXCEPT ![Now] = Printed(Now)]
  /\ arc' = [arc EXCEPT ![Now] = Empty]
  /\ part' = "arc"
  /\ UNCHANGED <<pc, gui, todo, saved, unticked, bounds>>

\* Mutant: the variable is only written to ENV:.
WriteArc_NotKept ==
  /\ Writing /\ part = "arc"
  /\ arc' = arc
  /\ Kept
  /\ todo' = Tail(todo) /\ part' = "env"
  /\ UNCHANGED <<pc, gui, env, bounds>>

WriteArc ==
  /\ Writing /\ part = "arc"
  /\ arc' = [arc EXCEPT ![Now] = Printed(Now)]
  /\ Kept
  /\ todo' = Tail(todo) /\ part' = "env"
  /\ UNCHANGED <<pc, gui, env, bounds>>

\* A full or protected disk, at any point: the next variable is tried all the same.
WriteFails ==
  /\ Writing /\ troubles < MaxTroubles
  /\ troubles' = troubles + 1
  /\ env' \in {env, [env EXCEPT ![Now] = Printed(Now)]}
  /\ saved' = [saved EXCEPT ![Now] = {}]
  /\ todo' = Tail(todo) /\ part' = "env"
  /\ UNCHANGED <<pc, gui, arc, unticked, starts, presses>>

\* What the program had in memory is gone.
Gone == pc' = "off" /\ prefs' = Defaults /\ window' = None /\ all' = MaxReleases

End ==
  /\ pc = "ending" /\ todo = <<>>
  /\ Gone
  /\ UNCHANGED <<screen, disk, unticked, bounds>>

-----------------------------------------------------------------------------
(* Outside the program. *)

\* SetEnv, for this session or with SAVE; not in the middle of the program's own writes.
EditVariable ==
  /\ ~Writing /\ troubles < MaxTroubles
  /\ troubles' = troubles + 1
  /\ \E e \in Edits :
       /\ env' = [env EXCEPT ![e[1]] = e[2]]
       /\ arc' \in {arc, [arc EXCEPT ![e[1]] = e[2]]}
       /\ saved' = [saved EXCEPT ![e[1]] = {}]
       /\ unticked' = (unticked \/ e[1] = "verify")
  /\ UNCHANGED <<pc, gui, todo, part, starts, presses>>

\* A reset, also while a variable is being written: ENV: is filled from ENVARC:.
Reboot ==
  /\ Writing => troubles < MaxTroubles
  /\ troubles' = IF Writing THEN troubles + 1 ELSE troubles
  /\ Gone
  /\ env' = arc
  /\ saved' = IF Writing THEN [saved EXCEPT ![Now] = {}] ELSE saved
  /\ todo' = <<>> /\ part' = "env"
  /\ UNCHANGED <<screen, arc, unticked, starts, presses>>

Next ==
  \/ Start \/ Drag \/ Iconify \/ Uniconify \/ OnCount \/ OpenSettings \/ Quit
  \/ PressSave \/ PressUse \/ LeaveSettings
  \/ WriteEnv \/ WriteArc \/ WriteFails \/ End
  \/ EditVariable \/ Reboot

Spec == Init /\ [][Next]_vars

-----------------------------------------------------------------------------
\* struct GFPrefs
IsValue(f, v) ==
  /\ f = "port"    => v \in 1 .. MaxUWord
  /\ f = "destdir" => v # NoWord
  /\ f = "max"     => v \in 1 .. MaxReleases
  /\ f = "backend" => v \in {"native", "proxy"}
  /\ f \in {"verify", "notify"} => v \in {0, 1}
  /\ f = "window"  => v \in Boxes

TypeOK ==
  /\ pc \in {"off", "main", "settings", "ending"}
  /\ DOMAIN prefs = Fields /\ \A f \in Fields : IsValue(f, prefs[f])
  /\ window \in Boxes /\ screen \in Screens /\ all \in 11 .. MaxReleases
  /\ unticked \in BOOLEAN /\ todo \in Seq(Fields) /\ part \in {"env", "arc"}
  /\ DOMAIN env = Fields /\ DOMAIN arc = Fields /\ DOMAIN saved = Fields
  /\ \A f \in Fields : IsText(env[f]) /\ IsText(arc[f])

\* What does not survive the way through a variable: an empty host, which reads as no
\* variable, and a window too small to be taken seriously.
Survives(f, v) ==
  /\ f = "host" => v # NoWord
  /\ f = "window" => v[3] > 100 /\ v[4] > 60

\* save_prefs and gf_prefs_load: what was written last comes back at every later start,
\* whatever the ToolTypes say, before and after a reset, also when the saving was cut
\* off: then every variable that was finished or not yet begun.  And whatever icon,
\* variables, gadgets and chooser hold, a request is made with a port and a number of
\* releases that exist.
SavedComesBack ==
  /\ pc # "off" => prefs["port"] \in 1 .. MaxUWord /\ prefs["max"] \in 1 .. MaxReleases
  /\ \A icon \in Icons, variable \in {env, arc} :
       LET next == Load(icon, variable)
       IN \A f \in Fields : \A v \in saved[f] :
            Survives(f, v) /\ ~(Writing /\ f = Now) => next[f] = v

\* prefs.verify_cert: the certificate of GitHub goes unchecked only after the user took
\* the tick away or set the variable, not after a torn save or an empty variable.
UncheckedOnlyIfAsked == pc # "off" /\ prefs["verify"] = 0 => unticked

\* clamp_window_prefs: after a change of screen the window opens no larger than the
\* screen, with its title bar in reach; and where it was left, if it fits there.
ReopensInReach ==
  [][ pc = "off" /\ window' # None =>
        /\ window'[1] >= 0 /\ window'[1] + window'[3] <= screen'.width
        /\ window'[2] >= 0 /\ window'[2] < screen'.height /\ window'[4] <= screen'.height
        /\ \A b \in saved["window"] :
             Survives("window", b) /\ Within(b, screen') => window' = b ]_vars

-----------------------------------------------------------------------------
(* What makes these inductive. *)

\* No setting changes while one is being written, and the window is closed by then, but
\* for a save from the settings window.
WritesInOrder ==
  /\ Writing => pc \in {"settings", "ending"}
  /\ part = "arc" => Writing /\ env[Now] = Printed(Now)
  /\ pc \in {"off", "ending"} => window = None

\* No file says that the certificate is not to be checked, either.
CheckedUnlessAsked ==
  ~unticked => /\ prefs["verify"] = 1
               /\ \A t \in {env["verify"], arc["verify"]} : ReadEnv(t) => t.nums[1] # 0

\* What was written is on both disks, but for the variable that is being replaced.
OnDisk ==
  \A f \in Fields : \A v \in saved[f] : ~(Writing /\ f = Now) =>
    IsValue(f, v) /\ env[f] = Format(f, v) /\ arc[f] = Format(f, v)

\* The inductive invariant.
SInv == TypeOK /\ WritesInOrder /\ CheckedUnlessAsked /\ OnDisk
=============================================================================
