--------------------------- MODULE Settings_proofs --------------------------
(***************************************************************************)
(* Proofs about Settings: for any icons, gadgets, hand-made variables,     *)
(* screens and number of starts, what comes back of what was written, when *)
(* the certificate goes unchecked, and where the window opens.             *)
(***************************************************************************)
EXTENDS Settings, TLAPS

USE DEF gui, disk, bounds

-----------------------------------------------------------------------------
(* The fields. *)

LEMMA FieldList ==
  \A f \in Fields : \/ f = "host" \/ f = "port" \/ f = "destdir" \/ f = "max"
                    \/ f = "backend" \/ f = "verify" \/ f = "notify" \/ f = "window"
BY DEF Fields

LEMMA Sizes ==
  /\ MaxUWord \in Nat /\ MinWord \in Int /\ MaxWord \in Nat
  /\ MinWord < 0 /\ MaxWord > 1000 /\ MaxUWord > 10000 /\ MaxReleases \in Nat
  /\ MaxReleases = 25 /\ MaxWord - MinWord = MaxUWord
BY SMT DEF MaxUWord, MinWord, MaxWord, MaxReleases

\* Four numbers.
LEMMA Quad ==
  ASSUME NEW S, NEW a \in S, NEW b \in S, NEW c \in S, NEW d \in S
  PROVE  <<a, b, c, d>> \in S \X S \X S \X S
OBVIOUS

LEMMA QuadFacts ==
  ASSUME NEW S, NEW q \in S \X S \X S \X S
  PROVE  q = <<q[1], q[2], q[3], q[4]>> /\ q[1] \in S /\ q[2] \in S /\ q[3] \in S /\ q[4] \in S
OBVIOUS

LEMMA BoxFacts ==
  /\ 0 \in Words /\ None \in Boxes /\ Words \subseteq Int
  /\ \A a, b, c, d \in Words : <<a, b, c, d>> \in Boxes
  /\ \A q \in Boxes : /\ q = <<q[1], q[2], q[3], q[4]>> /\ q \in Int \X Int \X Int \X Int
                       /\ q[1] \in Words /\ q[2] \in Words /\ q[3] \in Words /\ q[4] \in Words
<1>1. 0 \in Words /\ Words \subseteq Int
  BY Sizes DEF Words
<1>2. \A a, b, c, d \in Words : <<a, b, c, d>> \in Boxes
  BY Quad DEF Boxes
<1>3. ASSUME NEW q \in Boxes
      PROVE  /\ q = <<q[1], q[2], q[3], q[4]>> /\ q \in Int \X Int \X Int \X Int
             /\ q[1] \in Words /\ q[2] \in Words /\ q[3] \in Words /\ q[4] \in Words
  <2>1. /\ q = <<q[1], q[2], q[3], q[4]>>
        /\ q[1] \in Words /\ q[2] \in Words /\ q[3] \in Words /\ q[4] \in Words
    BY QuadFacts DEF Boxes
  <2>2. <<q[1], q[2], q[3], q[4]>> \in Int \X Int \X Int \X Int
    BY <1>1, <2>1, Quad
  <2>3. QED
    BY <2>1, <2>2
<1>4. None \in Boxes
  BY <1>1, <1>2 DEF None
<1>5. QED
  BY <1>1, <1>2, <1>3, <1>4

LEMMA DefaultsType ==
  DOMAIN Defaults = Fields /\ \A f \in Fields : IsValue(f, Defaults[f])
<1>1. DOMAIN Defaults = Fields
  BY DEF Defaults, Fields
<1>2. /\ Defaults["port"] \in 1 .. MaxUWord /\ Defaults["max"] \in 1 .. MaxReleases
      /\ Defaults["backend"] \in {"native", "proxy"}
      /\ Defaults["verify"] \in {0, 1} /\ Defaults["notify"] \in {0, 1}
  BY Sizes DEF Defaults
<1>3. Defaults["window"] \in Boxes /\ Defaults["destdir"] # NoWord
  BY BoxFacts DEF Defaults, NoWord
<1>4. \A f \in Fields : IsValue(f, Defaults[f])
  BY <1>2, <1>3 DEF IsValue
<1>5. QED
  BY <1>1, <1>4

-----------------------------------------------------------------------------
(* What is printed and what is read. *)

LEMMA TextFacts ==
  ASSUME NEW t, IsText(t)
  PROVE  /\ t.nums[1] \in Int /\ t.nums[2] \in Int /\ t.nums[3] \in Int /\ t.nums[4] \in Int
         /\ t.word = NoWord => t \in {Absent, Empty}
BY QuadFacts DEF IsText

LEMMA Made ==
  ASSUME NEW w, NEW q \in Int \X Int \X Int \X Int,
         w = NoWord => [word |-> w, nums |-> q] \in {Absent, Empty}
  PROVE  IsText([word |-> w, nums |-> q])
BY DEF IsText

LEMMA BlankTexts ==
  /\ Absent.word = NoWord /\ Empty.word = NoWord /\ Absent.nums[1] = 1 /\ Empty.nums[1] = 0
  /\ Absent # Empty /\ IsText(Absent) /\ IsText(Empty)
  /\ ~ReadEnv(Absent) /\ ~ReadEnv(Empty)
<1>1. Absent.word = NoWord /\ Empty.word = NoWord /\ Absent.nums[1] = 1 /\ Empty.nums[1] = 0
  BY DEF Absent, Empty, Word
<1>2. <<1, 0, 0, 0>> \in Int \X Int \X Int \X Int /\ <<0, 0, 0, 0>> \in Int \X Int \X Int \X Int
  BY Quad
<1>3. IsText([word |-> NoWord, nums |-> <<1, 0, 0, 0>>]) /\ IsText([word |-> NoWord, nums |-> <<0, 0, 0, 0>>])
  BY <1>2, Made DEF Absent, Empty, Word
<1>4. QED
  BY <1>1, <1>3 DEF ReadEnv, Absent, Empty, Word

\* What each kind of variable looks like.
LEMMA PrintedHow ==
  ASSUME NEW v
  PROVE  /\ Format("host", v) = Word(v) /\ Format("destdir", v) = Word(v)
         /\ Format("backend", v) = Word(v) /\ Format("window", v) = Box(v)
         /\ Format("port", v) = Number(v) /\ Format("max", v) = Number(v)
         /\ Format("verify", v) = Number(v) /\ Format("notify", v) = Number(v)
BY DEF Format

\* How each kind is read.
LEMMA TakenHow ==
  ASSUME NEW t, NEW old
  PROVE  /\ Taken("host", t, old) = IF t = Empty THEN old ELSE t.word
         /\ Taken("destdir", t, old) = IF t = Empty THEN old ELSE t.word
         /\ Taken("port", t, old) = UWord(t.nums[1])
         /\ Taken("max", t, old) = UWord(t.nums[1])
         /\ Taken("backend", t, old) = IF t.word = "native" THEN "native" ELSE "proxy"
         /\ Taken("verify", t, old) = IF t.nums[1] # 0 THEN 1 ELSE 0
         /\ Taken("notify", t, old) = SwitchValue(t)
         /\ Taken("window", t, old) = ReadWindow(t, old)
BY DEF Taken

\* Everything that is printed is a text.
LEMMA PrintIsText ==
  ASSUME NEW f \in Fields, NEW v, IsValue(f, v)
  PROVE  IsText(Format(f, v))
<1>1. ASSUME NEW w PROVE IsText(Word(w))
  <2>1. <<0, 0, 0, 0>> \in Int \X Int \X Int \X Int
    BY Quad
  <2>2. QED
    BY <2>1, Made DEF Word, Empty
<1>2. ASSUME NEW n \in Int PROVE IsText(Number(n))
  <2>1. <<n, 0, 0, 0>> \in Int \X Int \X Int \X Int
    BY Quad
  <2>2. "0" # NoWord /\ "digits" # NoWord
    BY DEF NoWord
  <2>3. QED
    BY <2>1, <2>2, Made DEF Number
<1>3. ASSUME NEW b \in Boxes PROVE IsText(Box(b))
  <2>1. b \in Int \X Int \X Int \X Int /\ "digits" # NoWord
    BY BoxFacts DEF NoWord
  <2>2. QED
    BY <2>1, Made DEF Box
<1>4. CASE f \in {"host", "destdir", "backend"}
  BY <1>1, <1>4, PrintedHow
<1>5. CASE f \in {"port", "max", "verify", "notify"}
  <2>1. v \in Int
    BY <1>5, Sizes DEF IsValue
  <2>2. Format(f, v) = Number(v)
    BY <1>5, PrintedHow
  <2>3. QED
    BY <1>2, <2>1, <2>2
<1>6. CASE f = "window"
  BY <1>3, <1>6, PrintedHow DEF IsValue
<1>7. QED
  BY <1>4, <1>5, <1>6, FieldList

LEMMA WordSize ==
  ASSUME NEW n \in Int
  PROVE  /\ UWord(n) \in 0 .. MaxUWord /\ SWord(n) \in Words
         /\ n \in 0 .. MaxUWord => UWord(n) = n
         /\ n \in Words => SWord(n) = n
BY Sizes DEF UWord, SWord, Words

\* What is taken from a text is of its type, but a number may be out of range.
LEMMA TakenType ==
  ASSUME NEW f \in Fields, NEW t, IsText(t), t # Absent, NEW old,
         f \notin {"port", "max"} => IsValue(f, old)
  PROVE  IF f \in {"port", "max"} THEN Taken(f, t, old) \in 0 .. MaxUWord
                                  ELSE IsValue(f, Taken(f, t, old))
<1>1. CASE f \in {"port", "max"}
  BY <1>1, TakenHow, TextFacts, WordSize
<1>2. CASE f \in {"host", "destdir"}
  BY <1>2, TakenHow, TextFacts DEF IsValue
<1>3. CASE f \in {"backend", "verify", "notify"}
  BY <1>3, TakenHow DEF IsValue, SwitchValue
<1>4. CASE f = "window"
  <2>1. <<SWord(t.nums[1]), SWord(t.nums[2]), SWord(t.nums[3]), SWord(t.nums[4])>> \in Boxes
    BY TextFacts, WordSize, BoxFacts
  <2>2. ReadWindow(t, old) \in Boxes
    BY <1>4, <2>1 DEF ReadWindow, IsValue
  <2>3. QED
    BY <1>4, <2>2, TakenHow DEF IsValue
<1>5. QED
  BY <1>1, <1>2, <1>3, <1>4, FieldList

\* What is printed reads as it was, if it survives at all.
LEMMA ReadsBack ==
  ASSUME NEW f \in Fields, NEW v, IsValue(f, v), Survives(f, v), NEW old
  PROVE  ReadEnv(Format(f, v)) /\ Taken(f, Format(f, v), old) = v
<1>1. ASSUME NEW w, w # NoWord PROVE ReadEnv(Word(w)) /\ Word(w) # Empty /\ Word(w).word = w
  BY <1>1 DEF ReadEnv, Word, Empty, Absent
<1>2. ASSUME NEW n \in Int PROVE ReadEnv(Number(n)) /\ Number(n).nums[1] = n
  <2>1. Number(n).word # NoWord
    BY DEF Number, NoWord
  <2>2. QED
    BY <2>1, BlankTexts DEF ReadEnv, Number
<1>3. CASE f \in {"host", "destdir"}
  <2>1. v # NoWord /\ Format(f, v) = Word(v)
    BY <1>3, PrintedHow DEF Survives, IsValue
  <2>2. QED
    BY <1>1, <1>3, <2>1, TakenHow
<1>4. CASE f = "backend"
  <2>1. v \in {"native", "proxy"} /\ v # NoWord /\ Format(f, v) = Word(v)
    BY <1>4, PrintedHow DEF IsValue, NoWord
  <2>2. QED
    BY <1>1, <1>4, <2>1, TakenHow
<1>5. CASE f \in {"port", "max"}
  <2>1. v \in 0 .. MaxUWord /\ v \in Int /\ Format(f, v) = Number(v)
    BY <1>5, PrintedHow, Sizes DEF IsValue
  <2>2. UWord(v) = v
    BY <2>1, WordSize
  <2>3. QED
    BY <1>2, <1>5, <2>1, <2>2, TakenHow
<1>6. CASE f = "verify"
  <2>1. v \in {0, 1} /\ Format(f, v) = Number(v)
    BY <1>6, PrintedHow DEF IsValue
  <2>2. QED
    BY <1>2, <1>6, <2>1, TakenHow
<1>7. CASE f = "notify"
  <2>1. v \in {0, 1} /\ Format(f, v) = Number(v)
    BY <1>7, PrintedHow DEF IsValue
  <2>2. SwitchValue(Number(v)) = v
    BY <2>1 DEF SwitchValue, Number
  <2>3. QED
    BY <1>2, <1>7, <2>1, <2>2, TakenHow
<1>8. CASE f = "window"
  <2>1. v \in Boxes /\ v[3] > 100 /\ v[4] > 60 /\ Format(f, v) = Box(v)
    BY <1>8, PrintedHow DEF IsValue, Survives
  <2>2. /\ v = <<v[1], v[2], v[3], v[4]>>
        /\ SWord(v[1]) = v[1] /\ SWord(v[2]) = v[2] /\ SWord(v[3]) = v[3] /\ SWord(v[4]) = v[4]
    BY <2>1, BoxFacts, WordSize
  <2>3. Box(v).nums = v /\ Box(v).word # NoWord
    BY DEF Box, NoWord
  <2>4. ReadWindow(Box(v), old) = v
    BY <2>1, <2>2, <2>3 DEF ReadWindow
  <2>5. ReadEnv(Box(v))
    BY <2>3, BlankTexts DEF ReadEnv
  <2>6. QED
    BY <1>8, <2>1, <2>4, <2>5, TakenHow
<1>9. QED
  BY <1>3, <1>4, <1>5, <1>6, <1>7, <1>8, FieldList

\* The two corrections at the end of gf_prefs_load.
LEMMA LoadHow ==
  ASSUME NEW icon, NEW e
  PROVE  LET b == ApplyEnv(ApplyTooltypes(Defaults, icon), e)
         IN /\ DOMAIN Load(icon, e) = Fields
            /\ Load(icon, e)["port"] = IF b["port"] = 0 THEN 80 ELSE b["port"]
            /\ Load(icon, e)["max"] = IF b["max"] \notin 1 .. MaxReleases THEN 1 ELSE b["max"]
            /\ \A f \in Fields \ {"port", "max"} : Load(icon, e)[f] = b[f]
<1> DEFINE b == ApplyEnv(ApplyTooltypes(Defaults, icon), e)
<1>1. DOMAIN b = Fields /\ "port" \in Fields /\ "max" \in Fields
  BY DEF ApplyEnv, Fields
<1>2. Load(icon, e) = [b EXCEPT !["port"] = IF b["port"] = 0 THEN 80 ELSE b["port"],
                                !["max"] = IF b["max"] \notin 1 .. MaxReleases THEN 1 ELSE b["max"]]
  BY DEF Load
<1> HIDE DEF b
<1>3. QED
  BY <1>1, <1>2 DEF b

\* A start finds values that can be used, whatever icon and variables hold.
LEMMA LoadType ==
  ASSUME NEW icon \in Icons, NEW e, \A f \in Fields : IsText(e[f])
  PROVE  DOMAIN Load(icon, e) = Fields /\ \A f \in Fields : IsValue(f, Load(icon, e)[f])
<1> DEFINE a == ApplyTooltypes(Defaults, icon)
           b == ApplyEnv(a, e)
           Rough(f, v) == IF f \in {"port", "max"} THEN v \in 0 .. MaxUWord ELSE IsValue(f, v)
<1>1. ASSUME NEW f \in Fields, NEW v, IsValue(f, v) PROVE Rough(f, v)
  BY <1>1, Sizes DEF IsValue
<1>2. \A f \in Fields : Rough(f, a[f])
  <2> SUFFICES ASSUME NEW f \in Fields PROVE Rough(f, a[f])
    OBVIOUS
  <2>1. a[f] = IF f \in Tools /\ icon[f] # Absent THEN Taken(f, icon[f], Defaults[f]) ELSE Defaults[f]
    BY DEF ApplyTooltypes
  <2>2. IsText(icon[f])
    BY SettingsAssumption
  <2>3. Rough(f, Defaults[f]) /\ IsValue(f, Defaults[f])
    BY <1>1, DefaultsType
  <2>4. icon[f] # Absent => Rough(f, Taken(f, icon[f], Defaults[f]))
    BY <2>2, <2>3, TakenType
  <2> HIDE DEF a, Rough
  <2>5. QED
    BY <2>1, <2>3, <2>4
<1>3. \A f \in Fields : Rough(f, b[f])
  <2> SUFFICES ASSUME NEW f \in Fields PROVE Rough(f, b[f])
    OBVIOUS
  <2>1. b[f] = IF ReadEnv(e[f]) THEN Taken(f, e[f], a[f]) ELSE a[f]
    BY DEF ApplyEnv
  <2>2. ReadEnv(e[f]) => e[f] # Absent
    BY DEF ReadEnv
  <2> HIDE DEF a
  <2>3. f \notin {"port", "max"} => IsValue(f, a[f])
    BY <1>2
  <2>4. ReadEnv(e[f]) => Rough(f, Taken(f, e[f], a[f]))
    BY <2>2, <2>3, TakenType
  <2> HIDE DEF b, Rough
  <2>5. QED
    BY <1>2, <2>1, <2>4
<1>4. "port" \in Fields /\ "max" \in Fields
  BY DEF Fields
<1>5. b["port"] \in 0 .. MaxUWord /\ b["max"] \in 0 .. MaxUWord
  BY <1>3, <1>4
<1>6. \A f \in Fields \ {"port", "max"} : IsValue(f, b[f])
  BY <1>3
<1> HIDE DEF b, a
<1>7. /\ DOMAIN Load(icon, e) = Fields
      /\ Load(icon, e)["port"] = IF b["port"] = 0 THEN 80 ELSE b["port"]
      /\ Load(icon, e)["max"] = IF b["max"] \notin 1 .. MaxReleases THEN 1 ELSE b["max"]
      /\ \A f \in Fields \ {"port", "max"} : Load(icon, e)[f] = b[f]
  BY LoadHow DEF b, a
<1>8. Load(icon, e)["port"] \in 1 .. MaxUWord /\ Load(icon, e)["max"] \in 1 .. MaxReleases
  BY <1>5, <1>7, Sizes
<1>9. IsValue("port", Load(icon, e)["port"]) /\ IsValue("max", Load(icon, e)["max"])
  BY <1>8 DEF IsValue
<1>10. QED
  BY <1>6, <1>7, <1>9

\* What was written comes back, whatever the icon says.
LEMMA LoadsBack ==
  ASSUME NEW icon, NEW e, NEW f \in Fields, NEW v,
         IsValue(f, v), Survives(f, v), e[f] = Format(f, v)
  PROVE  Load(icon, e)[f] = v
<1> DEFINE b == ApplyEnv(ApplyTooltypes(Defaults, icon), e)
<1>1. b[f] = v
  BY ReadsBack DEF ApplyEnv
<1>2. f = "port" => v # 0
  BY Sizes DEF IsValue
<1>3. f = "max" => v \in 1 .. MaxReleases
  BY DEF IsValue
<1> HIDE DEF b
<1>4. /\ Load(icon, e)["port"] = IF b["port"] = 0 THEN 80 ELSE b["port"]
      /\ Load(icon, e)["max"] = IF b["max"] \notin 1 .. MaxReleases THEN 1 ELSE b["max"]
      /\ \A g \in Fields \ {"port", "max"} : Load(icon, e)[g] = b[g]
  BY LoadHow DEF b
<1>5. QED
  BY <1>1, <1>2, <1>3, <1>4

-----------------------------------------------------------------------------
(* Where the window opens. *)

\* No ToolType sets it, and what a variable sets is of some size.
LEMMA LoadWindow ==
  ASSUME NEW icon, NEW e, Load(icon, e)["window"] # None
  PROVE  Load(icon, e)["window"][3] > 100 /\ Load(icon, e)["window"][4] > 60
<1> DEFINE a == ApplyTooltypes(Defaults, icon)
           b == ApplyEnv(a, e)
<1>1. "window" \in Fields \ {"port", "max"} /\ "window" \notin Tools
  BY DEF Fields, Tools
<1>2. a["window"] = None
  BY <1>1 DEF ApplyTooltypes, Defaults
<1>3. b["window"] = IF ReadEnv(e["window"]) THEN ReadWindow(e["window"], a["window"]) ELSE a["window"]
  BY <1>1, TakenHow DEF ApplyEnv
<1>4. Load(icon, e)["window"] = b["window"]
  BY <1>1, LoadHow
<1> HIDE DEF a, b
<1>5. Load(icon, e)["window"] = ReadWindow(e["window"], None)
  BY <1>2, <1>3, <1>4
<1>6. QED
  BY <1>5 DEF ReadWindow

LEMMA LoadVerify ==
  ASSUME NEW icon, NEW e, ReadEnv(e["verify"]) => e["verify"].nums[1] # 0
  PROVE  Load(icon, e)["verify"] = 1
<1> DEFINE a == ApplyTooltypes(Defaults, icon)
           b == ApplyEnv(a, e)
<1>1. "verify" \in Fields \ {"port", "max"} /\ "verify" \notin Tools
  BY DEF Fields, Tools
<1>2. a["verify"] = 1
  BY <1>1 DEF ApplyTooltypes, Defaults
<1>3. b["verify"] = 1
  BY <1>1, <1>2, TakenHow DEF ApplyEnv
<1>4. Load(icon, e)["verify"] = b["verify"]
  BY <1>1, LoadHow
<1>5. QED
  BY <1>3, <1>4

LEMMA ScreenFacts ==
  ASSUME NEW s \in Screens
  PROVE  /\ s.width \in Words /\ s.height \in Words /\ s.bar + 1 \in Words /\ s.bar \in Nat
         /\ s.width > 0 /\ s.height > 0 /\ s.bar + 1 < s.height
BY SettingsAssumption, Sizes DEF Words

\* clamp_window_prefs: a place is changed into one in reach, and only if it must be.
LEMMA Clamped ==
  ASSUME NEW b \in Boxes, NEW s \in Screens
  PROVE  /\ Clamp(b, s) \in Boxes
         /\ b = None => Clamp(b, s) = None
         /\ b[3] > 100 /\ b[4] > 60 =>
              /\ Clamp(b, s) # None
              /\ Clamp(b, s)[1] >= 0 /\ Clamp(b, s)[1] + Clamp(b, s)[3] <= s.width
              /\ Clamp(b, s)[2] >= 0 /\ Clamp(b, s)[2] < s.height /\ Clamp(b, s)[4] <= s.height
              /\ Within(b, s) => Clamp(b, s) = b
<1> DEFINE w == Least(b[3], s.width)
           h == Least(b[4], s.height)
           x == IF b[1] < 0 \/ b[1] + w > s.width THEN 0 ELSE b[1]
           y == IF b[2] < 0 \/ b[2] + h > s.height THEN s.bar + 1 ELSE b[2]
<1>1. /\ b = <<b[1], b[2], b[3], b[4]>>
      /\ b[1] \in Words /\ b[2] \in Words /\ b[3] \in Words /\ b[4] \in Words
      /\ Words \subseteq Int /\ 0 \in Words
  BY BoxFacts
<1>2. /\ s.width \in Words /\ s.height \in Words /\ s.bar + 1 \in Words
      /\ s.width > 0 /\ s.height > 0 /\ s.bar + 1 < s.height /\ s.bar \in Nat
  BY ScreenFacts
<1>3. w \in Words /\ h \in Words /\ w \in Int /\ h \in Int /\ s.width \in Int /\ s.height \in Int
  BY <1>1, <1>2 DEF Least
<1>4. x \in Words /\ y \in Words
  BY <1>1, <1>2, <1>3
<1>5. Clamp(b, s) = IF b = None THEN b ELSE <<x, y, w, h>>
  BY DEF Clamp
<1>6. Clamp(b, s) \in Boxes /\ (b = None => Clamp(b, s) = None)
  <2> HIDE DEF x, y, w, h
  <2>1. <<x, y, w, h>> \in Boxes
    BY <1>3, <1>4, BoxFacts
  <2>2. QED
    BY <1>5, <2>1
<1>7. ASSUME b[3] > 100, b[4] > 60
      PROVE  /\ Clamp(b, s) # None
             /\ Clamp(b, s)[1] >= 0 /\ Clamp(b, s)[1] + Clamp(b, s)[3] <= s.width
             /\ Clamp(b, s)[2] >= 0 /\ Clamp(b, s)[2] < s.height /\ Clamp(b, s)[4] <= s.height
             /\ Within(b, s) => Clamp(b, s) = b
  <2>1. w > 0 /\ w <= s.width /\ w <= b[3] /\ h > 0 /\ h <= s.height /\ h <= b[4]
    BY <1>1, <1>2, <1>7 DEF Least
  <2>2. /\ b[1] \in Int /\ b[2] \in Int /\ b[3] \in Int /\ b[4] \in Int
    BY <1>1
  <2>3. x >= 0 /\ x + w <= s.width /\ y >= 0 /\ y < s.height
    <3> HIDE DEF w, h
    <3>1. QED
      BY <1>2, <1>3, <2>1, <2>2
  <2>4. Within(b, s) => x = b[1] /\ y = b[2] /\ w = b[3] /\ h = b[4]
    BY <1>2, <1>3, <2>2 DEF Within, Least
  <2>5. b # None
    BY <1>7 DEF None
  <2> HIDE DEF x, y, w, h
  <2>6. Clamp(b, s) = <<x, y, w, h>>
    BY <1>5, <2>5
  <2>7. /\ Clamp(b, s)[1] = x /\ Clamp(b, s)[2] = y /\ Clamp(b, s)[3] = w /\ Clamp(b, s)[4] = h
    BY <2>6
  <2>8. Clamp(b, s) # None
    BY <2>1, <2>7, <1>3 DEF None
  <2>9. Within(b, s) => Clamp(b, s) = b
    BY <1>1, <2>4, <2>6
  <2>10. QED
    BY <2>1, <2>3, <2>7, <2>8, <2>9
<1>8. QED
  BY <1>6, <1>7

-----------------------------------------------------------------------------
(* The steps. *)

LEMMA SetField ==
  ASSUME NEW p, DOMAIN p = Fields, \A f \in Fields : IsValue(f, p[f]),
         NEW g \in Fields, NEW v, IsValue(g, v)
  PROVE  LET q == [p EXCEPT ![g] = v]
         IN /\ DOMAIN q = Fields /\ \A f \in Fields : IsValue(f, q[f])
            /\ q[g] = v /\ \A f \in Fields \ {g} : q[f] = p[f]
<1> DEFINE q == [p EXCEPT ![g] = v]
<1>1. DOMAIN q = Fields /\ q[g] = v /\ \A f \in Fields \ {g} : q[f] = p[f]
  OBVIOUS
<1> HIDE DEF q
<1>2. \A f \in Fields : IsValue(f, q[f])
  BY <1>1
<1>3. QED
  BY <1>1, <1>2 DEF q

LEMMA SetVariable ==
  ASSUME NEW d, DOMAIN d = Fields, \A f \in Fields : IsText(d[f]),
         NEW g \in Fields, NEW t, IsText(t)
  PROVE  LET q == [d EXCEPT ![g] = t]
         IN /\ DOMAIN q = Fields /\ \A f \in Fields : IsText(q[f])
            /\ q[g] = t /\ \A f \in Fields \ {g} : q[f] = d[f]
<1> DEFINE q == [d EXCEPT ![g] = t]
<1>1. DOMAIN q = Fields /\ q[g] = t /\ \A f \in Fields \ {g} : q[f] = d[f]
  OBVIOUS
<1> HIDE DEF q
<1>2. \A f \in Fields : IsText(q[f])
  BY <1>1
<1>3. QED
  BY <1>1, <1>2 DEF q

LEMMA Names ==
  /\ "host" \in Fields /\ "port" \in Fields /\ "max" \in Fields
  /\ "verify" \in Fields /\ "window" \in Fields
BY DEF Fields

\* While nothing is being written the rest of the invariant is about the tick and the
\* window only.
LEMMA Quiet ==
  ASSUME SInv, TypeOK', ~Writing, part' = part, UNCHANGED <<env, arc, saved>>,
         todo' # <<>> => pc' \in {"settings", "ending"},
         pc' \in {"off", "ending"} => window' = None,
         ~unticked' => ~unticked /\ prefs'["verify"] = 1
  PROVE  SInv'
<1>1. part = "env"
  BY DEF SInv, WritesInOrder, TypeOK
<1>2. WritesInOrder'
  BY <1>1 DEF WritesInOrder, Writing
<1>3. CheckedUnlessAsked'
  BY DEF SInv, CheckedUnlessAsked
<1>4. OnDisk'
  BY DEF SInv, OnDisk
<1>5. QED
  BY <1>2, <1>3, <1>4 DEF SInv

LEMMA IdleMeans ==
  ASSUME SInv, pc \in {"off", "main"} \/ todo = <<>>
  PROVE  ~Writing /\ todo = <<>>
BY DEF SInv, WritesInOrder, Writing

LEMMA WindowTodo ==
  <<>> \in Seq(Fields) /\ <<"window">> \in Seq(Fields)
BY DEF Fields

LEMMA InitInv ==
  ASSUME Init
  PROVE  SInv
<1>1. screen \in Screens
  BY SettingsAssumption DEF Init
<1>2. DOMAIN prefs = Fields /\ \A f \in Fields : IsValue(f, prefs[f])
  BY DefaultsType DEF Init
<1>3. /\ DOMAIN env = Fields /\ DOMAIN arc = Fields /\ DOMAIN saved = Fields
      /\ \A f \in Fields : env[f] = Absent /\ arc[f] = Absent /\ saved[f] = {}
  BY DEF Init
<1>4. \A f \in Fields : IsText(env[f]) /\ IsText(arc[f])
  BY <1>3, BlankTexts
<1>5. TypeOK
  <2>1. window \in Boxes /\ all \in 11 .. MaxReleases
    BY BoxFacts DEF Init, MaxReleases
  <2>2. pc = "off" /\ unticked = FALSE /\ todo \in Seq(Fields) /\ part = "env"
    BY WindowTodo DEF Init
  <2>3. QED
    BY <1>1, <1>2, <1>3, <1>4, <2>1, <2>2 DEF TypeOK
<1>6. WritesInOrder
  BY DEF Init, WritesInOrder, Writing
<1>7. CheckedUnlessAsked
  <2>1. prefs["verify"] = 1
    BY DEF Init, Defaults
  <2>2. env["verify"] = Absent /\ arc["verify"] = Absent
    BY <1>3, Names
  <2>3. QED
    BY <2>1, <2>2, BlankTexts DEF CheckedUnlessAsked
<1>8. OnDisk
  BY <1>3 DEF OnDisk
<1>9. QED
  BY <1>5, <1>6, <1>7, <1>8 DEF SInv

\* A start: what the variables hold may be used, and the tick is where it was.
LEMMA StartStep ==
  ASSUME SInv, Start
  PROVE  SInv'
<1>1. PICK icon \in Icons, locked \in BOOLEAN :
        LET p == Load(icon, env)
        IN prefs' = IF locked THEN [p EXCEPT !["window"] = Clamp(@, screen')] ELSE p
  BY DEF Start
<1> DEFINE p == Load(icon, env)
<1>2. DOMAIN p = Fields /\ \A f \in Fields : IsValue(f, p[f])
  BY LoadType DEF SInv, TypeOK
<1>3. screen' \in Screens
  BY DEF Start
<1>4. ~unticked => p["verify"] = 1
  BY LoadVerify DEF SInv, CheckedUnlessAsked
<1> HIDE DEF p
<1>5. p["window"] \in Boxes
  BY <1>2, Names DEF IsValue
<1>6. Clamp(p["window"], screen') \in Boxes
  BY <1>3, <1>5, Clamped
<1>7. prefs' = [p EXCEPT !["window"] = Clamp(p["window"], screen')] \/ prefs' = p
  BY <1>1 DEF p
<1>8. IsValue("window", Clamp(p["window"], screen'))
  BY <1>6 DEF IsValue
<1>9. /\ DOMAIN prefs' = Fields /\ \A f \in Fields : IsValue(f, prefs'[f])
      /\ prefs'["verify"] = p["verify"] /\ prefs'["window"] \in Boxes
  <2>1. CASE prefs' = [p EXCEPT !["window"] = Clamp(p["window"], screen')]
    BY <1>2, <1>6, <1>8, <2>1, SetField, Names
  <2>2. CASE prefs' = p
    BY <1>2, <1>5, <2>2
  <2>3. QED
    BY <1>7, <2>1, <2>2
<1>10. prefs'["max"] \in 1 .. 25
  BY <1>9, Names DEF IsValue, MaxReleases
<1>11. all' \in 11 .. MaxReleases
  <2>1. all' = IF prefs'["max"] > 10 THEN prefs'["max"] ELSE MaxReleases
    BY DEF Start
  <2>2. QED
    BY <1>10, <2>1 DEF MaxReleases
<1>12. window' \in Boxes /\ todo' \in Seq(Fields)
  <2>1. \A b \in Places : b \in Boxes
    BY SettingsAssumption
  <2>2. window' = None \/ window' = prefs'["window"] \/ window' \in Places
    BY DEF Start
  <2>3. todo' \in {todo, <<"window">>, <<>>}
    BY DEF Start
  <2>4. QED
    BY <1>6, <1>9, <2>1, <2>2, <2>3, BoxFacts, WindowTodo DEF SInv, TypeOK
<1>13. todo = <<>> /\ ~Writing
  BY IdleMeans DEF Start
<1>14. TypeOK'
  BY <1>3, <1>9, <1>11, <1>12 DEF Start, SInv, TypeOK
<1>15. todo' # <<>> => pc' \in {"settings", "ending"}
  BY <1>13 DEF Start
<1>16. pc' \in {"off", "ending"} => window' = None
  BY DEF Start
<1>17. ~unticked' => ~unticked /\ prefs'["verify"] = 1
  BY <1>4, <1>9 DEF Start
<1>18. part' = part /\ UNCHANGED <<env, arc, saved>>
  BY DEF Start
<1>19. QED
  BY <1>13, <1>14, <1>15, <1>16, <1>17, <1>18, Quiet

\* What the main window changes: the remembered place and the number of releases.
LEMMA MainSteps ==
  ASSUME SInv, Drag \/ Iconify \/ Uniconify \/ OnCount \/ OpenSettings \/ Quit
  PROVE  SInv'
<1>1. todo = <<>> /\ ~Writing
  BY IdleMeans DEF Drag, Iconify, Uniconify, OnCount, OpenSettings, Quit
<1>2. part' = part /\ UNCHANGED <<env, arc, saved, unticked, screen, all>>
  BY DEF Drag, Iconify, Uniconify, OnCount, OpenSettings, Quit
<1>3. /\ pc' \in {"main", "settings", "ending"} /\ todo' \in {<<>>, <<"window">>}
      /\ todo' # <<>> => pc' = "ending"
      /\ pc' \in {"off", "ending"} => window' = None
  BY <1>1 DEF Drag, Iconify, Uniconify, OnCount, OpenSettings, Quit
<1>4. window' \in Boxes
  <2>1. \A b \in Places : b \in Boxes
    BY SettingsAssumption
  <2>2. window' \in {None, window, prefs["window"]} \cup Places
    BY DEF Drag, Iconify, Uniconify, OnCount, OpenSettings, Quit
  <2>3. prefs["window"] \in Boxes
    BY Names DEF SInv, TypeOK, IsValue
  <2>4. QED
    BY <2>1, <2>2, <2>3, BoxFacts DEF SInv, TypeOK
<1>5. /\ DOMAIN prefs' = Fields /\ \A f \in Fields : IsValue(f, prefs'[f])
      /\ prefs'["verify"] = prefs["verify"]
  <2>1. DOMAIN prefs = Fields /\ \A f \in Fields : IsValue(f, prefs[f])
    BY DEF SInv, TypeOK
  <2>2. CASE prefs' = prefs
    BY <2>1, <2>2
  <2>3. CASE prefs' = [prefs EXCEPT !["window"] = window]
    <3>1. IsValue("window", window)
      BY DEF SInv, TypeOK, IsValue
    <3>2. QED
      BY <2>1, <2>3, <3>1, SetField, Names
  <2>4. CASE OnCount
    <3>1. PICK i \in Picks : prefs' = [prefs EXCEPT !["max"] = Values(all)[i]]
      BY <2>4 DEF OnCount
    <3>2. i \in 1 .. 5
      BY SettingsAssumption
    <3>3. Values(all)[i] \in {1, 3, 5, 10, all}
      BY <3>2 DEF Values
    <3>4. Values(all)[i] \in 1 .. MaxReleases
      <4>1. all \in 11 .. 25
        BY DEF SInv, TypeOK, MaxReleases
      <4>2. QED
        BY <3>3, <4>1 DEF MaxReleases
    <3>5. IsValue("max", Values(all)[i])
      BY <3>4 DEF IsValue
    <3>6. QED
      BY <2>1, <3>1, <3>5, SetField, Names
  <2>5. QED
    BY <2>2, <2>3, <2>4 DEF Drag, Iconify, Uniconify, OpenSettings, Quit
<1>6. TypeOK'
  BY <1>2, <1>3, <1>4, <1>5, WindowTodo DEF SInv, TypeOK
<1>7. ~unticked' => ~unticked /\ prefs'["verify"] = 1
  BY <1>2, <1>5 DEF SInv, CheckedUnlessAsked
<1>8. QED
  BY <1>1, <1>2, <1>3, <1>6, <1>7, Quiet

\* Whatever the gadgets hold, values out of range are not taken over.
LEMMA CollectType ==
  ASSUME NEW p, DOMAIN p = Fields, \A f \in Fields : IsValue(f, p[f]),
         NEW entry \in Entries
  PROVE  LET q == Collect(p, entry)
         IN /\ DOMAIN q = Fields /\ \A f \in Fields : IsValue(f, q[f])
            /\ q["verify"] = IF "verify" \in DOMAIN entry THEN entry["verify"] ELSE p["verify"]
<1> DEFINE q == Collect(p, entry)
           Left(f) == \/ f \notin DOMAIN entry
                      \/ f = "port" /\ entry[f] \notin 1 .. MaxUWord
                      \/ f = "max" /\ entry[f] \notin 1 .. MaxReleases
<1>1. IsEntry(entry)
  BY SettingsAssumption
<1>2. DOMAIN q = Fields /\ \A f \in Fields : q[f] = IF Left(f) THEN p[f] ELSE entry[f]
  BY DEF Collect
<1>3. ASSUME NEW f \in Fields, ~Left(f) PROVE IsValue(f, entry[f])
  BY <1>1, <1>3 DEF IsEntry, IsValue
<1>4. Left("verify") <=> "verify" \notin DOMAIN entry
  OBVIOUS
<1> HIDE DEF q, Left
<1>5. \A f \in Fields : IsValue(f, q[f])
  BY <1>2, <1>3
<1>6. q["verify"] = IF "verify" \in DOMAIN entry THEN entry["verify"] ELSE p["verify"]
  BY <1>2, <1>4, Names
<1>7. QED
  BY <1>2, <1>5, <1>6 DEF q

LEMMA WholeOrder ==
  SubSeq(Order, 1, 7) \in Seq(Fields) /\ SubSeq(Order, 1, 8) \in Seq(Fields)
<1>1. Order \in Seq(Fields) /\ Len(Order) = 8
  BY DEF Order, Fields
<1>2. ASSUME NEW s \in Seq(Fields), Len(s) = 8
      PROVE  SubSeq(s, 1, 7) \in Seq(Fields) /\ SubSeq(s, 1, 8) \in Seq(Fields)
  BY <1>2
<1>3. QED
  BY <1>1, <1>2

LEMMA SettingsSteps ==
  ASSUME SInv, PressSave \/ PressUse \/ LeaveSettings
  PROVE  SInv'
<1>1. todo = <<>> /\ ~Writing /\ pc = "settings"
  BY IdleMeans DEF PressSave, PressUse, Press, LeaveSettings
<1>2. part' = part /\ UNCHANGED <<env, arc, saved, screen, all, window>>
  BY DEF PressSave, PressUse, Press, LeaveSettings
<1>3. todo' \in Seq(Fields)
  BY <1>1, WholeOrder, WindowTodo DEF PressSave, PressUse, LeaveSettings
<1>4. pc' \in {"main", "settings"} /\ (todo' # <<>> => pc' = "settings")
  BY <1>1 DEF PressSave, PressUse, Press, LeaveSettings
<1>5. /\ DOMAIN prefs' = Fields /\ \A f \in Fields : IsValue(f, prefs'[f])
      /\ ~unticked' => ~unticked /\ prefs'["verify"] = 1
      /\ unticked' \in BOOLEAN
  <2>1. DOMAIN prefs = Fields /\ \A f \in Fields : IsValue(f, prefs[f])
    BY DEF SInv, TypeOK
  <2>2. ~unticked => prefs["verify"] = 1
    BY DEF SInv, CheckedUnlessAsked
  <2>3. CASE LeaveSettings
    BY <2>1, <2>2, <2>3 DEF LeaveSettings, SInv, TypeOK
  <2>4. CASE Press
    <3>1. PICK entry \in Entries :
            /\ prefs' = Collect(prefs, entry)
            /\ unticked' = (unticked \/ ("verify" \in DOMAIN entry /\ entry["verify"] = 0))
      BY <2>4 DEF Press
    <3>2. /\ DOMAIN prefs' = Fields /\ \A f \in Fields : IsValue(f, prefs'[f])
          /\ prefs'["verify"] = IF "verify" \in DOMAIN entry THEN entry["verify"] ELSE prefs["verify"]
      BY <2>1, <3>1, CollectType
    <3>3. "verify" \in DOMAIN entry => entry["verify"] \in {0, 1}
      BY SettingsAssumption DEF IsEntry
    <3>4. QED
      BY <2>2, <3>1, <3>2, <3>3
  <2>5. QED
    BY <2>3, <2>4 DEF PressSave, PressUse
<1>6. TypeOK'
  BY <1>2, <1>3, <1>4, <1>5 DEF SInv, TypeOK
<1>7. QED
  BY <1>1, <1>2, <1>4, <1>5, <1>6, Quiet

\* The variable being written.
LEMMA NowFacts ==
  ASSUME SInv, Writing
  PROVE  /\ Now \in Fields /\ Tail(todo) \in Seq(Fields)
         /\ IsValue(Now, prefs[Now]) /\ IsText(Printed(Now))
<1>1. Now \in Fields /\ Tail(todo) \in Seq(Fields)
  BY DEF SInv, TypeOK, Writing, Now
<1>2. IsValue(Now, prefs[Now])
  BY <1>1 DEF SInv, TypeOK
<1>3. QED
  BY <1>1, <1>2, PrintIsText DEF Printed

\* The certificate's variable, should that be the one.
LEMMA TickPrinted ==
  ASSUME SInv, Writing, Now = "verify", prefs["verify"] = 1
  PROVE  Printed(Now).nums[1] = 1
<1>1. Printed(Now) = Number(1)
  BY PrintedHow DEF Printed
<1>2. QED
  BY <1>1 DEF Number

LEMMA WriteEnvStep ==
  ASSUME SInv, WriteEnv
  PROVE  SInv'
<1>1. /\ Writing /\ part' = "arc" /\ UNCHANGED <<pc, prefs, window, screen, all, todo, saved, unticked>>
      /\ env' = [env EXCEPT ![Now] = Printed(Now)] /\ arc' = [arc EXCEPT ![Now] = Empty]
  BY DEF WriteEnv
<1>2. Now \in Fields /\ IsText(Printed(Now)) /\ Now' = Now /\ Printed(Now)' = Printed(Now)
  BY <1>1, NowFacts DEF Now, Printed
<1>3. /\ DOMAIN env = Fields /\ \A f \in Fields : IsText(env[f])
      /\ DOMAIN arc = Fields /\ \A f \in Fields : IsText(arc[f])
  BY DEF SInv, TypeOK
<1>4. /\ DOMAIN env' = Fields /\ \A f \in Fields : IsText(env'[f])
      /\ env'[Now] = Printed(Now) /\ \A f \in Fields \ {Now} : env'[f] = env[f]
  BY <1>1, <1>2, <1>3, SetVariable
<1>5. /\ DOMAIN arc' = Fields /\ \A f \in Fields : IsText(arc'[f])
      /\ arc'[Now] = Empty /\ \A f \in Fields \ {Now} : arc'[f] = arc[f]
  BY <1>1, <1>2, <1>3, SetVariable, BlankTexts
<1>6. TypeOK'
  BY <1>1, <1>4, <1>5 DEF SInv, TypeOK
<1>7. WritesInOrder'
  BY <1>1, <1>2, <1>4 DEF SInv, WritesInOrder, Writing
<1>8. CheckedUnlessAsked'
  <2> SUFFICES ASSUME ~unticked
               PROVE  /\ prefs["verify"] = 1
                      /\ ReadEnv(env'["verify"]) => env'["verify"].nums[1] # 0
                      /\ ReadEnv(arc'["verify"]) => arc'["verify"].nums[1] # 0
    BY <1>1 DEF CheckedUnlessAsked
  <2>1. /\ prefs["verify"] = 1
        /\ ReadEnv(env["verify"]) => env["verify"].nums[1] # 0
        /\ ReadEnv(arc["verify"]) => arc["verify"].nums[1] # 0
    BY DEF SInv, CheckedUnlessAsked
  <2>2. CASE Now = "verify"
    BY <1>1, <1>4, <1>5, <2>1, <2>2, TickPrinted, BlankTexts
  <2>3. CASE Now # "verify"
    BY <1>4, <1>5, <2>1, <2>3, Names
  <2>4. QED
    BY <2>2, <2>3, <2>1
<1>9. OnDisk'
  BY <1>1, <1>2, <1>4, <1>5 DEF SInv, OnDisk, Writing
<1>10. QED
  BY <1>6, <1>7, <1>8, <1>9 DEF SInv

LEMMA WriteArcStep ==
  ASSUME SInv, WriteArc
  PROVE  SInv'
<1>1. /\ Writing /\ part = "arc" /\ part' = "env" /\ todo' = Tail(todo)
      /\ UNCHANGED <<pc, prefs, window, screen, all, env>>
      /\ arc' = [arc EXCEPT ![Now] = Printed(Now)]
      /\ saved' = [saved EXCEPT ![Now] = {prefs[Now]}]
      /\ unticked' = (unticked /\ ~(Now = "verify" /\ prefs["verify"] = 1))
  BY DEF WriteArc, Kept
<1>2. /\ Now \in Fields /\ IsText(Printed(Now)) /\ IsValue(Now, prefs[Now])
      /\ todo' \in Seq(Fields) /\ env[Now] = Printed(Now)
  BY <1>1, NowFacts DEF SInv, WritesInOrder
<1>3. /\ DOMAIN arc = Fields /\ \A f \in Fields : IsText(arc[f]) /\ DOMAIN saved = Fields
  BY DEF SInv, TypeOK
<1>4. /\ DOMAIN arc' = Fields /\ \A f \in Fields : IsText(arc'[f])
      /\ arc'[Now] = Printed(Now) /\ \A f \in Fields \ {Now} : arc'[f] = arc[f]
  BY <1>1, <1>2, <1>3, SetVariable
<1>5. /\ DOMAIN saved' = Fields /\ saved'[Now] = {prefs[Now]}
      /\ \A f \in Fields \ {Now} : saved'[f] = saved[f]
  BY <1>1, <1>2, <1>3
<1>6. TypeOK'
  BY <1>1, <1>2, <1>4, <1>5 DEF SInv, TypeOK
<1>7. WritesInOrder'
  BY <1>1 DEF SInv, WritesInOrder, Writing
<1>8. CheckedUnlessAsked'
  <2> SUFFICES ASSUME ~unticked'
               PROVE  /\ prefs["verify"] = 1
                      /\ ReadEnv(env["verify"]) => env["verify"].nums[1] # 0
                      /\ ReadEnv(arc'["verify"]) => arc'["verify"].nums[1] # 0
    BY <1>1 DEF CheckedUnlessAsked
  <2>1. CASE Now = "verify"
    <3>1. prefs["verify"] = 1
      BY <1>1, <2>1 DEF SInv, CheckedUnlessAsked
    <3>2. QED
      BY <1>1, <1>2, <1>4, <2>1, <3>1, TickPrinted
  <2>2. CASE Now # "verify"
    BY <1>1, <1>4, <2>2, Names DEF SInv, CheckedUnlessAsked
  <2>3. QED
    BY <2>1, <2>2
<1>9. OnDisk'
  <2> SUFFICES ASSUME NEW f \in Fields, NEW v \in saved'[f]
               PROVE  IsValue(f, v) /\ env[f] = Format(f, v) /\ arc'[f] = Format(f, v)
    BY <1>1 DEF OnDisk
  <2>1. CASE f = Now
    BY <1>2, <1>4, <1>5, <2>1 DEF Printed
  <2>2. CASE f # Now
    BY <1>4, <1>5, <2>2 DEF SInv, OnDisk
  <2>3. QED
    BY <2>1, <2>2
<1>10. QED
  BY <1>6, <1>7, <1>8, <1>9 DEF SInv

\* A variable that could not be written is no longer known, the others are.
LEMMA WriteFailsStep ==
  ASSUME SInv, WriteFails
  PROVE  SInv'
<1>1. /\ Writing /\ part' = "env" /\ todo' = Tail(todo)
      /\ UNCHANGED <<pc, prefs, window, screen, all, arc, unticked>>
      /\ env' = env \/ env' = [env EXCEPT ![Now] = Printed(Now)]
      /\ saved' = [saved EXCEPT ![Now] = {}]
  BY DEF WriteFails
<1>2. Now \in Fields /\ IsText(Printed(Now)) /\ todo' \in Seq(Fields)
  BY <1>1, NowFacts
<1>3. /\ DOMAIN env = Fields /\ \A f \in Fields : IsText(env[f]) /\ DOMAIN saved = Fields
  BY DEF SInv, TypeOK
<1>4. /\ DOMAIN env' = Fields /\ \A f \in Fields : IsText(env'[f])
      /\ env'[Now] \in {env[Now], Printed(Now)} /\ \A f \in Fields \ {Now} : env'[f] = env[f]
  BY <1>1, <1>2, <1>3, SetVariable
<1>5. /\ DOMAIN saved' = Fields /\ saved'[Now] = {}
      /\ \A f \in Fields \ {Now} : saved'[f] = saved[f]
  BY <1>1, <1>2, <1>3
<1>6. TypeOK'
  BY <1>1, <1>2, <1>4, <1>5 DEF SInv, TypeOK
<1>7. WritesInOrder'
  BY <1>1 DEF SInv, WritesInOrder, Writing
<1>8. CheckedUnlessAsked'
  <2> SUFFICES ASSUME ~unticked
               PROVE  /\ prefs["verify"] = 1
                      /\ ReadEnv(env'["verify"]) => env'["verify"].nums[1] # 0
                      /\ ReadEnv(arc["verify"]) => arc["verify"].nums[1] # 0
    BY <1>1 DEF CheckedUnlessAsked
  <2>1. /\ prefs["verify"] = 1
        /\ ReadEnv(env["verify"]) => env["verify"].nums[1] # 0
        /\ ReadEnv(arc["verify"]) => arc["verify"].nums[1] # 0
    BY DEF SInv, CheckedUnlessAsked
  <2>2. CASE env'["verify"] = env["verify"]
    BY <2>1, <2>2
  <2>3. CASE Now = "verify" /\ env'["verify"] = Printed(Now)
    BY <1>1, <2>1, <2>3, TickPrinted
  <2>4. QED
    BY <1>4, <2>2, <2>3, Names
<1>9. OnDisk'
  BY <1>1, <1>4, <1>5 DEF SInv, OnDisk
<1>10. QED
  BY <1>6, <1>7, <1>8, <1>9 DEF SInv

\* The settings in memory go back to what they are built in as.
LEMMA GoneType ==
  ASSUME Gone
  PROVE  /\ DOMAIN prefs' = Fields /\ \A f \in Fields : IsValue(f, prefs'[f])
         /\ prefs'["verify"] = 1 /\ window' = None /\ window' \in Boxes
         /\ all' \in 11 .. MaxReleases /\ pc' = "off"
<1>1. prefs' = Defaults /\ window' = None /\ pc' = "off" /\ all' = MaxReleases
  BY DEF Gone
<1>2. Defaults["verify"] = 1 /\ MaxReleases \in 11 .. MaxReleases
  BY DEF Defaults, MaxReleases
<1>3. QED
  BY <1>1, <1>2, DefaultsType, BoxFacts

LEMMA EndStep ==
  ASSUME SInv, End
  PROVE  SInv'
<1>1. /\ todo = <<>> /\ ~Writing /\ part' = part /\ todo' = todo
      /\ UNCHANGED <<screen, env, arc, saved, unticked>>
  BY DEF End, Writing
<1>2. TypeOK'
  BY <1>1, GoneType DEF End, SInv, TypeOK
<1>3. QED
  BY <1>1, <1>2, GoneType, Quiet DEF End

LEMMA EditStep ==
  ASSUME SInv, EditVariable
  PROVE  SInv'
<1>1. /\ ~Writing /\ UNCHANGED <<pc, prefs, window, screen, all, todo, part>>
  BY DEF EditVariable
<1>2. PICK e \in Edits :
        /\ env' = [env EXCEPT ![e[1]] = e[2]]
        /\ arc' \in {arc, [arc EXCEPT ![e[1]] = e[2]]}
        /\ saved' = [saved EXCEPT ![e[1]] = {}]
        /\ unticked' = (unticked \/ e[1] = "verify")
  BY DEF EditVariable
<1> DEFINE g == e[1]
           t == e[2]
<1>3. g \in Fields /\ IsText(t)
  BY SettingsAssumption
<1>4. /\ env' = [env EXCEPT ![g] = t] /\ (arc' = arc \/ arc' = [arc EXCEPT ![g] = t])
      /\ saved' = [saved EXCEPT ![g] = {}] /\ unticked' = (unticked \/ g = "verify")
  BY <1>2
<1> HIDE DEF g, t
<1>5. /\ DOMAIN env = Fields /\ \A f \in Fields : IsText(env[f]) /\ DOMAIN saved = Fields
      /\ DOMAIN arc = Fields /\ \A f \in Fields : IsText(arc[f])
  BY DEF SInv, TypeOK
<1>6. /\ DOMAIN env' = Fields /\ \A f \in Fields : IsText(env'[f])
      /\ \A f \in Fields \ {g} : env'[f] = env[f]
  BY <1>3, <1>4, <1>5, SetVariable
<1>7. /\ DOMAIN arc' = Fields /\ \A f \in Fields : IsText(arc'[f])
      /\ \A f \in Fields \ {g} : arc'[f] = arc[f]
  BY <1>3, <1>4, <1>5, SetVariable
<1>8. DOMAIN saved' = Fields /\ saved'[g] = {} /\ \A f \in Fields \ {g} : saved'[f] = saved[f]
  BY <1>3, <1>4, <1>5
<1>9. unticked' \in BOOLEAN
  BY <1>4 DEF SInv, TypeOK
<1>10. TypeOK'
  BY <1>1, <1>6, <1>7, <1>8, <1>9 DEF SInv, TypeOK
<1>11. WritesInOrder'
  BY <1>1 DEF SInv, WritesInOrder, Writing
<1>12. CheckedUnlessAsked'
  <2>1. CASE g = "verify"
    BY <1>4, <2>1 DEF CheckedUnlessAsked
  <2>2. CASE g # "verify"
    <3>1. env'["verify"] = env["verify"] /\ arc'["verify"] = arc["verify"]
      BY <1>6, <1>7, <2>2, Names
    <3>2. QED
      BY <1>1, <1>4, <3>1 DEF SInv, CheckedUnlessAsked
  <2>3. QED
    BY <2>1, <2>2
<1>13. OnDisk'
  BY <1>1, <1>6, <1>7, <1>8 DEF SInv, OnDisk
<1>14. QED
  BY <1>10, <1>11, <1>12, <1>13 DEF SInv

LEMMA RebootStep ==
  ASSUME SInv, Reboot
  PROVE  SInv'
<1>1. /\ Gone /\ env' = arc /\ arc' = arc /\ todo' = <<>> /\ part' = "env"
      /\ UNCHANGED <<screen, unticked>>
      /\ saved' = IF Writing THEN [saved EXCEPT ![Now] = {}] ELSE saved
  BY DEF Reboot
<1>2. /\ DOMAIN saved' = Fields /\ (Writing => saved'[Now] = {})
      /\ \A f \in Fields : ~(Writing /\ f = Now) => saved'[f] = saved[f]
  BY <1>1, NowFacts DEF SInv, TypeOK
<1>3. TypeOK'
  BY <1>1, <1>2, GoneType, WindowTodo DEF SInv, TypeOK
<1>4. WritesInOrder'
  BY <1>1, GoneType DEF WritesInOrder, Writing
<1>5. CheckedUnlessAsked'
  BY <1>1, GoneType DEF SInv, CheckedUnlessAsked
<1>6. OnDisk'
  <2> SUFFICES ASSUME NEW f \in Fields, NEW v \in saved'[f]
               PROVE  IsValue(f, v) /\ arc[f] = Format(f, v)
    BY <1>1 DEF OnDisk
  <2>1. ~(Writing /\ f = Now)
    BY <1>2 DEF Writing
  <2>2. v \in saved[f]
    BY <1>2, <2>1
  <2>3. QED
    BY <2>1, <2>2 DEF SInv, OnDisk, Writing
<1>7. QED
  BY <1>3, <1>4, <1>5, <1>6 DEF SInv

LEMMA StepInv ==
  ASSUME SInv, [Next]_vars
  PROVE  SInv'
<1>1. CASE UNCHANGED vars
  <2>1. UNCHANGED <<pc, prefs, window, screen, all, todo, part, env, arc, saved, unticked>>
    BY <1>1 DEF vars
  <2>2. TypeOK'
    BY <2>1 DEF SInv, TypeOK
  <2>3. WritesInOrder'
    BY <2>1 DEF SInv, WritesInOrder, Writing, Printed, Now
  <2>4. CheckedUnlessAsked' /\ OnDisk'
    BY <2>1 DEF SInv, CheckedUnlessAsked, OnDisk, Writing, Now
  <2>5. QED
    BY <2>2, <2>3, <2>4 DEF SInv
<1>2. CASE Next
  BY <1>2, StartStep, MainSteps, SettingsSteps, WriteEnvStep, WriteArcStep, WriteFailsStep,
     EndStep, EditStep, RebootStep DEF Next
<1>3. QED
  BY <1>1, <1>2

-----------------------------------------------------------------------------
(* The theorems. *)

\* The inductive invariant: settings that can be used, written one at a time while
\* nothing changes them (save_prefs), each on both disks once it is.
THEOREM Invariance == Spec => []SInv
<1>1. QED
  BY InitInv, StepInv, PTL DEF Spec

\* save_prefs and gf_prefs_load: what was written last is what every later start reads,
\* for any ToolTypes, from ENV: or, after a reset, from ENVARC:; and a request is made
\* with a port and a number of releases that exist.
THEOREM SavedSurvives == Spec => []SavedComesBack
<1>1. ASSUME SInv PROVE SavedComesBack
  <2>1. pc # "off" => prefs["port"] \in 1 .. MaxUWord /\ prefs["max"] \in 1 .. MaxReleases
    BY <1>1, Names DEF SInv, TypeOK, IsValue
  <2>2. ASSUME NEW icon \in Icons, NEW variable \in {env, arc}, NEW f \in Fields,
               NEW v \in saved[f], Survives(f, v), ~(Writing /\ f = Now)
        PROVE  Load(icon, variable)[f] = v
    <3>1. IsValue(f, v) /\ env[f] = Format(f, v) /\ arc[f] = Format(f, v)
      BY <1>1, <2>2 DEF SInv, OnDisk
    <3>2. variable[f] = Format(f, v)
      BY <3>1
    <3>3. QED
      BY <2>2, <3>1, <3>2, LoadsBack
  <2>3. QED
    BY <2>1, <2>2 DEF SavedComesBack
<1>2. QED
  BY <1>1, Invariance, PTL

\* prefs.verify_cert: no torn save, empty variable or icon turns the check of the
\* certificate off, only the user's own hand.
THEOREM UncheckedIfAsked == Spec => []UncheckedOnlyIfAsked
<1>1. ASSUME SInv PROVE UncheckedOnlyIfAsked
  <2>1. unticked \/ prefs["verify"] = 1
    BY <1>1 DEF SInv, CheckedUnlessAsked
  <2>2. QED
    BY <2>1 DEF UncheckedOnlyIfAsked
<1>2. QED
  BY <1>1, Invariance, PTL

\* Only a start opens a window where there was no program.
LEMMA OpensAtStart ==
  ASSUME SInv, [Next]_vars, pc = "off", window' # None
  PROVE  Start /\ pc' = "main"
<1>1. window = None
  BY DEF SInv, WritesInOrder
<1>2. ~Writing
  BY IdleMeans
<1>3. CASE Start
  BY <1>3 DEF Start
<1>4. CASE ~Start
  <2>1. window' = window \/ window' = None
    BY <1>2, <1>4 DEF Next, Drag, Iconify, Uniconify, OnCount, OpenSettings, Quit, PressSave,
       PressUse, Press, LeaveSettings, WriteEnv, WriteArc, WriteFails, End, EditVariable,
       Reboot, Gone, vars
  <2>2. QED
    BY <1>1, <2>1
<1>5. QED
  BY <1>3, <1>4

\* clamp_window_prefs: on any screen, from any place written on any other, the window
\* opens in reach and no larger than the screen, and unmoved if it fits.
THEOREM OpensInReach == Spec => ReopensInReach
<1> DEFINE Reach(w, s, old) ==
             /\ w[1] >= 0 /\ w[1] + w[3] <= s.width
             /\ w[2] >= 0 /\ w[2] < s.height /\ w[4] <= s.height
             /\ \A b \in old : Survives("window", b) /\ Within(b, s) => w = b
<1>1. ASSUME SInv, [Next]_vars, pc = "off", window' # None
      PROVE  Reach(window', screen', saved["window"])
  <2>1. Start /\ pc' = "main"
    BY <1>1, OpensAtStart
  <2>2. PICK icon \in Icons :
          LET p == Load(icon, env) IN prefs' = [p EXCEPT !["window"] = Clamp(@, screen')]
    <3>1. PICK icon \in Icons, locked \in BOOLEAN :
            LET p == Load(icon, env)
            IN /\ prefs' = IF locked THEN [p EXCEPT !["window"] = Clamp(@, screen')] ELSE p
               /\ pc' \in {"ending"} \cup (IF locked THEN {"main"} ELSE {})
      BY <2>1 DEF Start
    <3>2. QED
      BY <2>1, <3>1
  <2> DEFINE b == Load(icon, env)["window"]
  <2>3. DOMAIN Load(icon, env) = Fields /\ b \in Boxes
    BY <1>1, LoadType, Names DEF SInv, TypeOK, IsValue
  <2>4. prefs'["window"] = Clamp(b, screen')
    BY <2>2, <2>3, Names
  <2>5. screen' \in Screens
    BY <2>1 DEF Start
  <2>6. b = None \/ (b[3] > 100 /\ b[4] > 60)
    BY LoadWindow
  <2>7. \A old \in saved["window"] : Survives("window", old) => b = old
    <3> SUFFICES ASSUME NEW old \in saved["window"], Survives("window", old) PROVE b = old
      OBVIOUS
    <3>1. ~Writing
      BY <1>1, IdleMeans
    <3>2. IsValue("window", old) /\ env["window"] = Format("window", old)
      BY <1>1, <3>1, Names DEF SInv, OnDisk
    <3>3. QED
      BY <3>2, LoadsBack, Names
  <2> HIDE DEF b
  <2>8. CASE b # None
    <3>1. window' = Clamp(b, screen')
      BY <2>1, <2>3, <2>4, <2>5, <2>6, <2>8, Clamped DEF Start
    <3>2. /\ Clamp(b, screen')[1] >= 0
          /\ Clamp(b, screen')[1] + Clamp(b, screen')[3] <= screen'.width
          /\ Clamp(b, screen')[2] >= 0 /\ Clamp(b, screen')[2] < screen'.height
          /\ Clamp(b, screen')[4] <= screen'.height
          /\ Within(b, screen') => Clamp(b, screen') = b
      BY <2>3, <2>5, <2>6, <2>8, Clamped
    <3>3. QED
      BY <2>7, <3>1, <3>2
  <2>9. CASE b = None
    <3>1. prefs'["window"] = None
      BY <2>3, <2>4, <2>5, <2>9, Clamped
    <3>2. window' \in Places /\ Within(window', screen')
      BY <2>1, <3>1 DEF Start
    <3>3. /\ window'[1] \in Int /\ window'[2] \in Int /\ window'[3] \in Int /\ window'[4] \in Int
          /\ window'[3] > 0 /\ window'[4] > 0
      <4>1. window' \in Boxes /\ window'[3] > 0 /\ window'[4] > 0
        BY <3>2, SettingsAssumption
      <4>2. QED
        BY <4>1, BoxFacts
    <3>4. screen'.height \in Int /\ screen'.width \in Int
      BY <2>5, ScreenFacts, BoxFacts
    <3>5. /\ window'[1] >= 0 /\ window'[1] + window'[3] <= screen'.width
          /\ window'[2] >= 0 /\ window'[2] < screen'.height /\ window'[4] <= screen'.height
      BY <3>2, <3>3, <3>4 DEF Within
    <3>6. \A old \in saved["window"] : ~Survives("window", old)
      BY <2>7, <2>9 DEF Survives, None
    <3>7. QED
      BY <3>5, <3>6
  <2>10. QED
    BY <2>8, <2>9
<1>2. ASSUME SInv, [Next]_vars
      PROVE  [ pc = "off" /\ window' # None => Reach(window', screen', saved["window"]) ]_vars
  BY <1>1, <1>2
<1>3. QED
  BY <1>2, Invariance, PTL DEF Spec, ReopensInReach
=============================================================================
