---------------------------- MODULE ConfigProofs ----------------------------
(***************************************************************************)
(* Proofs about RuntimeConfig: for every command line and every file, the  *)
(* settings of a program that starts are those the documented precedence   *)
(* asks for, and no bad value passes.  The loops over entries, words and   *)
(* options are followed with the least position at which a claim fails.    *)
(***************************************************************************)
EXTENDS RuntimeConfig, SequenceTheorems, WellFoundedInduction, TLAPS

-----------------------------------------------------------------------------
(* Loops *)

\* A set of natural numbers has a least element.
LEMMA LeastElement ==
  ASSUME NEW T \in SUBSET Nat, T # {}
  PROVE  \E x \in T : \A y \in T : ~(y < x)
<1> DEFINE R == OpToRel(<, Nat)
<1>1. IsWellFoundedOn(R, Nat)
  BY NatLessThanWellFounded
<1>2. \A x, y \in Nat : <<y, x>> \in R <=> y < x
  BY DEF OpToRel
<1> HIDE DEF R
<1>3. PICK x \in T : \A y \in T : ~(<<y, x>> \in R)
  BY <1>1, WFMin
<1>. QED BY <1>2, <1>3

\* A set of numbers that holds 0 and, with each one below n, the next, holds
\* all up to n.
LEMMA Upwards ==
  ASSUME NEW n \in Nat, NEW S, 0 \in S, \A i \in 0 .. n : i \in S /\ i < n => i + 1 \in S
  PROVE  \A i \in 0 .. n : i \in S
<1> DEFINE T == {i \in 0 .. n : i \notin S}
<1>1. SUFFICES ASSUME T # {} PROVE FALSE
  OBVIOUS
<1>2. T \in SUBSET Nat
  OBVIOUS
<1>3. PICK m \in T : \A y \in T : ~(y < m)
  BY <1>1, <1>2, LeastElement
<1>4. m \in Nat /\ m # 0 /\ m <= n /\ m \notin S
  BY <1>3
<1>5. m - 1 \in 0 .. n /\ m - 1 < m /\ m - 1 < n /\ (m - 1) + 1 = m
  BY <1>4
<1>6. m - 1 \in S
  BY <1>3, <1>5
<1>. QED BY <1>4, <1>5, <1>6

\* The function that ini_parse defines, up to entry n.
IsIniParse(after, cfg, entries, n) ==
  after = [i \in 0 .. n |-> IF i = 0 THEN [cfg |-> cfg, error |-> FALSE] ELSE config_ini_handler(after[i - 1], entries[i])]

\* It exists for every length.
LEMMA IniParseFunction ==
  ASSUME NEW cfg, NEW entries, NEW n \in Nat
  PROVE  \E after : IsIniParse(after, cfg, entries, n)
<1> DEFINE base == [cfg |-> cfg, error |-> FALSE]
           Step(x, i) == config_ini_handler(x, entries[i])
           Has(m) == \E f : f = [i \in 0 .. m |-> IF i = 0 THEN base ELSE Step(f[i - 1], i)]
           S == {m \in Nat : Has(m)}
<1> HIDE DEF base, Step
<1>1. Has(0)
  <2> DEFINE f == [i \in 0 .. 0 |-> base]
  <2>1. f = [i \in 0 .. 0 |-> IF i = 0 THEN base ELSE Step(f[i - 1], i)]
    OBVIOUS
  <2>. QED BY <2>1
<1>2. ASSUME NEW m \in Nat, Has(m) PROVE Has(m + 1)
  <2>1. PICK f : f = [i \in 0 .. m |-> IF i = 0 THEN base ELSE Step(f[i - 1], i)]
    BY <1>2
  <2> DEFINE g == [i \in 0 .. m + 1 |-> IF i = m + 1 THEN Step(f[m], m + 1) ELSE f[i]]
  <2>2. \A i \in 0 .. m : f[i] = IF i = 0 THEN base ELSE Step(f[i - 1], i)
    BY <2>1
  <2>3. (\A i \in 0 .. m : g[i] = f[i]) /\ g[m + 1] = Step(f[m], m + 1)
        /\ g = [i \in 0 .. m + 1 |-> g[i]]
    OBVIOUS
  <2> HIDE DEF g
  <2>4. ASSUME NEW i \in 0 .. m + 1
        PROVE  g[i] = IF i = 0 THEN base ELSE Step(g[i - 1], i)
    <3>1. CASE i = m + 1
      <4>1. i # 0 /\ i - 1 = m /\ m \in 0 .. m
        BY <3>1
      <4>. QED BY <2>3, <3>1, <4>1
    <3>2. CASE i # m + 1
      <4>1. i \in 0 .. m /\ (i # 0 => i - 1 \in 0 .. m)
        BY <3>2
      <4>. QED BY <2>2, <2>3, <4>1
    <3>. QED BY <3>1, <3>2
  <2>. QED BY <2>3, <2>4
<1> HIDE DEF Has
<1>3. 0 \in S /\ \A i \in 0 .. n : i \in S /\ i < n => i + 1 \in S
  BY <1>1, <1>2
<1> HIDE DEF S
<1>4. \A i \in 0 .. n : i \in S
  BY <1>3, Upwards
<1>5. Has(n)
  BY <1>4 DEF S
<1>. QED BY <1>5 DEF Has, IsIniParse, base, Step

\* The function that pre_scan_config_path defines, up to word n.
IsScan(after, argv, n) ==
  after = [i \in 0 .. n |-> IF i = 0 THEN [path |-> NoText, wants |-> FALSE, rc |-> 0] ELSE ScanWord(after[i - 1], argv[i])]

\* It exists for every length.
LEMMA ScanFunction ==
  ASSUME NEW argv, NEW n \in Nat
  PROVE  \E after : IsScan(after, argv, n)
<1> DEFINE base == [path |-> NoText, wants |-> FALSE, rc |-> 0]
           Step(x, i) == ScanWord(x, argv[i])
           Has(m) == \E f : f = [i \in 0 .. m |-> IF i = 0 THEN base ELSE Step(f[i - 1], i)]
           S == {m \in Nat : Has(m)}
<1> HIDE DEF base, Step
<1>1. Has(0)
  <2> DEFINE f == [i \in 0 .. 0 |-> base]
  <2>1. f = [i \in 0 .. 0 |-> IF i = 0 THEN base ELSE Step(f[i - 1], i)]
    OBVIOUS
  <2>. QED BY <2>1
<1>2. ASSUME NEW m \in Nat, Has(m) PROVE Has(m + 1)
  <2>1. PICK f : f = [i \in 0 .. m |-> IF i = 0 THEN base ELSE Step(f[i - 1], i)]
    BY <1>2
  <2> DEFINE g == [i \in 0 .. m + 1 |-> IF i = m + 1 THEN Step(f[m], m + 1) ELSE f[i]]
  <2>2. \A i \in 0 .. m : f[i] = IF i = 0 THEN base ELSE Step(f[i - 1], i)
    BY <2>1
  <2>3. (\A i \in 0 .. m : g[i] = f[i]) /\ g[m + 1] = Step(f[m], m + 1)
        /\ g = [i \in 0 .. m + 1 |-> g[i]]
    OBVIOUS
  <2> HIDE DEF g
  <2>4. ASSUME NEW i \in 0 .. m + 1
        PROVE  g[i] = IF i = 0 THEN base ELSE Step(g[i - 1], i)
    <3>1. CASE i = m + 1
      <4>1. i # 0 /\ i - 1 = m /\ m \in 0 .. m
        BY <3>1
      <4>. QED BY <2>3, <3>1, <4>1
    <3>2. CASE i # m + 1
      <4>1. i \in 0 .. m /\ (i # 0 => i - 1 \in 0 .. m)
        BY <3>2
      <4>. QED BY <2>2, <2>3, <4>1
    <3>. QED BY <3>1, <3>2
  <2>. QED BY <2>3, <2>4
<1> HIDE DEF Has
<1>3. 0 \in S /\ \A i \in 0 .. n : i \in S /\ i < n => i + 1 \in S
  BY <1>1, <1>2
<1> HIDE DEF S
<1>4. \A i \in 0 .. n : i \in S
  BY <1>3, Upwards
<1>5. Has(n)
  BY <1>4 DEF S
<1>. QED BY <1>5 DEF Has, IsScan, base, Step

\* The function that apply_cli_overrides defines, up to word n.
IsRead(after, cfg, argv, n) ==
  after = [i \in 0 .. n |-> IF i = 0 THEN [cfg |-> cfg, opt |-> NoText, plain |-> FALSE, rc |-> 0] ELSE ReadWord(after[i - 1], argv[i])]

\* It exists for every length.
LEMMA ReadFunction ==
  ASSUME NEW cfg, NEW argv, NEW n \in Nat
  PROVE  \E after : IsRead(after, cfg, argv, n)
<1> DEFINE base == [cfg |-> cfg, opt |-> NoText, plain |-> FALSE, rc |-> 0]
           Step(x, i) == ReadWord(x, argv[i])
           Has(m) == \E f : f = [i \in 0 .. m |-> IF i = 0 THEN base ELSE Step(f[i - 1], i)]
           S == {m \in Nat : Has(m)}
<1> HIDE DEF base, Step
<1>1. Has(0)
  <2> DEFINE f == [i \in 0 .. 0 |-> base]
  <2>1. f = [i \in 0 .. 0 |-> IF i = 0 THEN base ELSE Step(f[i - 1], i)]
    OBVIOUS
  <2>. QED BY <2>1
<1>2. ASSUME NEW m \in Nat, Has(m) PROVE Has(m + 1)
  <2>1. PICK f : f = [i \in 0 .. m |-> IF i = 0 THEN base ELSE Step(f[i - 1], i)]
    BY <1>2
  <2> DEFINE g == [i \in 0 .. m + 1 |-> IF i = m + 1 THEN Step(f[m], m + 1) ELSE f[i]]
  <2>2. \A i \in 0 .. m : f[i] = IF i = 0 THEN base ELSE Step(f[i - 1], i)
    BY <2>1
  <2>3. (\A i \in 0 .. m : g[i] = f[i]) /\ g[m + 1] = Step(f[m], m + 1)
        /\ g = [i \in 0 .. m + 1 |-> g[i]]
    OBVIOUS
  <2> HIDE DEF g
  <2>4. ASSUME NEW i \in 0 .. m + 1
        PROVE  g[i] = IF i = 0 THEN base ELSE Step(g[i - 1], i)
    <3>1. CASE i = m + 1
      <4>1. i # 0 /\ i - 1 = m /\ m \in 0 .. m
        BY <3>1
      <4>. QED BY <2>3, <3>1, <4>1
    <3>2. CASE i # m + 1
      <4>1. i \in 0 .. m /\ (i # 0 => i - 1 \in 0 .. m)
        BY <3>2
      <4>. QED BY <2>2, <2>3, <4>1
    <3>. QED BY <3>1, <3>2
  <2>. QED BY <2>3, <2>4
<1> HIDE DEF Has
<1>3. 0 \in S /\ \A i \in 0 .. n : i \in S /\ i < n => i + 1 \in S
  BY <1>1, <1>2
<1> HIDE DEF S
<1>4. \A i \in 0 .. n : i \in S
  BY <1>3, Upwards
<1>5. Has(n)
  BY <1>4 DEF S
<1>. QED BY <1>5 DEF Has, IsRead, base, Step

\* The function that Words defines, up to option n.
IsWords(after, options, n) ==
  after = [i \in 0 .. n |-> IF i = 0 THEN <<>> ELSE after[i - 1] \o Spelled(options[i])]

\* It exists for every length.
LEMMA WordsFunction ==
  ASSUME NEW options, NEW n \in Nat
  PROVE  \E after : IsWords(after, options, n)
<1> DEFINE base == <<>>
           Step(x, i) == x \o Spelled(options[i])
           Has(m) == \E f : f = [i \in 0 .. m |-> IF i = 0 THEN base ELSE Step(f[i - 1], i)]
           S == {m \in Nat : Has(m)}
<1> HIDE DEF base, Step
<1>1. Has(0)
  <2> DEFINE f == [i \in 0 .. 0 |-> base]
  <2>1. f = [i \in 0 .. 0 |-> IF i = 0 THEN base ELSE Step(f[i - 1], i)]
    OBVIOUS
  <2>. QED BY <2>1
<1>2. ASSUME NEW m \in Nat, Has(m) PROVE Has(m + 1)
  <2>1. PICK f : f = [i \in 0 .. m |-> IF i = 0 THEN base ELSE Step(f[i - 1], i)]
    BY <1>2
  <2> DEFINE g == [i \in 0 .. m + 1 |-> IF i = m + 1 THEN Step(f[m], m + 1) ELSE f[i]]
  <2>2. \A i \in 0 .. m : f[i] = IF i = 0 THEN base ELSE Step(f[i - 1], i)
    BY <2>1
  <2>3. (\A i \in 0 .. m : g[i] = f[i]) /\ g[m + 1] = Step(f[m], m + 1)
        /\ g = [i \in 0 .. m + 1 |-> g[i]]
    OBVIOUS
  <2> HIDE DEF g
  <2>4. ASSUME NEW i \in 0 .. m + 1
        PROVE  g[i] = IF i = 0 THEN base ELSE Step(g[i - 1], i)
    <3>1. CASE i = m + 1
      <4>1. i # 0 /\ i - 1 = m /\ m \in 0 .. m
        BY <3>1
      <4>. QED BY <2>3, <3>1, <4>1
    <3>2. CASE i # m + 1
      <4>1. i \in 0 .. m /\ (i # 0 => i - 1 \in 0 .. m)
        BY <3>2
      <4>. QED BY <2>2, <2>3, <4>1
    <3>. QED BY <3>1, <3>2
  <2>. QED BY <2>3, <2>4
<1> HIDE DEF Has
<1>3. 0 \in S /\ \A i \in 0 .. n : i \in S /\ i < n => i + 1 \in S
  BY <1>1, <1>2
<1> HIDE DEF S
<1>4. \A i \in 0 .. n : i \in S
  BY <1>3, Upwards
<1>5. Has(n)
  BY <1>4 DEF S
<1>. QED BY <1>5 DEF Has, IsWords, base, Step

-----------------------------------------------------------------------------
(* The last of the values given for a setting *)

Settings == DOMAIN Defaults

\* Value v of a setting is that of the last of some positions, or the one
\* before, where there are none.
Settled(v, before, setting, seq, at) ==
  \/ at = {} /\ v = before
  \/ \E k \in at : (\A j \in at : j <= k) /\ v = Value(setting, seq[k].val)

\* One more position, which is the last now.
LEMMA SettledNext ==
  ASSUME NEW v, NEW before, NEW setting, NEW seq, NEW i \in Nat, NEW at \in SUBSET (1 .. i)
  PROVE  Settled(Value(setting, seq[i + 1].val), before, setting, seq, at \cup {i + 1})
BY DEF Settled

\* LastValue is the value at the greatest of the positions.
LEMMA LastValueAt ==
  ASSUME NEW seq, NEW n \in Nat, NEW at \in SUBSET (1 .. n), NEW k \in at, \A j \in at : j <= k
  PROVE  LastValue(seq, at) = seq[k].val
<1>1. \A j \in at : k >= j
  OBVIOUS
<1>2. \A x \in at : (\A y \in at : x >= y) => x = k
  OBVIOUS
<1>3. Max(at) \in at /\ \A y \in at : Max(at) >= y
  BY <1>1 DEF Max
<1>4. Max(at) = k
  BY <1>2, <1>3
<1>. QED BY <1>4 DEF LastValue

\* The names of the settings.
LEMMA SettingNames ==
  /\ Settings = {"port", "maxConnections", "autosaveIntervalMs", "autosaveEnabled",
                 "logLevel", "snapshotPath"}
  /\ DOMAIN SettingOf = {"p", "m", "i", "a", "l", "s"}
  /\ \A o \in DOMAIN SettingOf : SettingOf[o] \in Settings
BY DEF Settings, Defaults, SettingOf

\* A configuration: a value for each setting.
IsConfig(cfg) == cfg = [s \in Settings |-> cfg[s]]

-----------------------------------------------------------------------------
(* The file *)

\* What holds after i entries: no bad one was seen, or the file is marked; and
\* every setting is that of the last entry for it.
EntriesRead(cfg, entries, i, st) ==
  /\ st = [cfg |-> st.cfg, error |-> st.error] /\ IsConfig(st.cfg)
  /\ st.error \in BOOLEAN
  /\ ~st.error =>
       /\ \A k \in 1 .. i : entries[k].set \in Settings => Accepts(entries[k].set, entries[k].val)
       /\ \A s \in Settings :
            Settled(st.cfg[s], cfg[s], s, entries, {k \in 1 .. i : entries[k].set = s})

\* One entry.
LEMMA EntryRead ==
  ASSUME NEW cfg, NEW entries, NEW i \in Nat, NEW st, EntriesRead(cfg, entries, i, st)
  PROVE  EntriesRead(cfg, entries, i + 1, config_ini_handler(st, entries[i + 1]))
<1> DEFINE e == entries[i + 1]
           new == config_ini_handler(st, e)
           At(s, j) == {k \in 1 .. j : entries[k].set = s}
<1>1. \A k : k \in 1 .. i + 1 <=> k \in 1 .. i \/ k = i + 1
  OBVIOUS
<1>2. \A s : At(s, i + 1) = IF e.set = s THEN At(s, i) \cup {i + 1} ELSE At(s, i)
  BY <1>1
<1>3. \A s : At(s, i) \in SUBSET (1 .. i)
  OBVIOUS
<1>4. st = [cfg |-> st.cfg, error |-> st.error] /\ IsConfig(st.cfg) /\ st.error \in BOOLEAN
  BY DEF EntriesRead
<1>5. CASE e.set \notin Settings
  <2>1. new = st
    BY <1>5 DEF config_ini_handler, Settings
  <2>2. \A s \in Settings : At(s, i + 1) = At(s, i)
    BY <1>2, <1>5
  <2> HIDE DEF new
  <2>. QED BY <1>1, <1>5, <2>1, <2>2 DEF EntriesRead, new
<1>6. CASE e.set \in Settings /\ ~Accepts(e.set, e.val)
  <2>1. new = [st EXCEPT !.error = TRUE]
    BY <1>6 DEF config_ini_handler, Settings
  <2>2. new = [cfg |-> st.cfg, error |-> TRUE]
    BY <1>4, <2>1
  <2> HIDE DEF new
  <2>. QED BY <1>4, <2>2 DEF EntriesRead, new
<1>7. CASE e.set \in Settings /\ Accepts(e.set, e.val)
  <2> DEFINE c == [st.cfg EXCEPT ![e.set] = Value(e.set, e.val)]
  <2>1. new = [st EXCEPT !.cfg[e.set] = Value(e.set, e.val)]
    BY <1>7 DEF config_ini_handler, Settings
  <2>2. new = [cfg |-> c, error |-> st.error]
    BY <1>4, <2>1
  <2>3. /\ IsConfig(c) /\ c[e.set] = Value(e.set, e.val)
        /\ \A t \in Settings \ {e.set} : c[t] = st.cfg[t]
    <3>1. PICK old, name, v : old = st.cfg /\ name = e.set /\ v = Value(e.set, e.val)
      OBVIOUS
    <3>0. IsConfig(old) /\ name \in Settings
      BY <1>4, <1>7, <3>1
    <3>2. /\ IsConfig([old EXCEPT ![name] = v]) /\ [old EXCEPT ![name] = v][name] = v
          /\ \A t \in Settings \ {name} : [old EXCEPT ![name] = v][t] = old[t]
      BY <3>0 DEF IsConfig
    <3>. QED BY <3>1, <3>2
  <2> HIDE DEF c, new
  <2>4. ASSUME ~st.error, NEW s \in Settings
        PROVE  Settled(c[s], cfg[s], s, entries, At(s, i + 1))
    <3>1. CASE s = e.set
      <4>1. At(s, i + 1) = At(s, i) \cup {i + 1}
        BY <1>2, <3>1
      <4> HIDE DEF At
      <4>2. Settled(Value(s, entries[i + 1].val), cfg[s], s, entries, At(s, i) \cup {i + 1})
        BY <1>3, SettledNext
      <4>. QED BY <2>3, <3>1, <4>1, <4>2
    <3>2. CASE s # e.set
      <4>1. At(s, i + 1) = At(s, i) /\ c[s] = st.cfg[s]
        BY <1>2, <2>3, <3>2
      <4>2. Settled(st.cfg[s], cfg[s], s, entries, At(s, i))
        BY <2>4 DEF EntriesRead
      <4> HIDE DEF At
      <4>. QED BY <4>1, <4>2
    <3>. QED BY <3>1, <3>2
  <2>5. ASSUME ~st.error, NEW k \in 1 .. i + 1, entries[k].set \in Settings
        PROVE  Accepts(entries[k].set, entries[k].val)
    BY <1>1, <1>7, <2>5 DEF EntriesRead
  <2>6. new.cfg = c /\ new.error = st.error
    BY <2>2
  <2>. QED BY <1>4, <2>2, <2>3, <2>4, <2>5, <2>6 DEF EntriesRead, new
<1>. QED BY <1>5, <1>6, <1>7

\* The whole file.
LEMMA IniParseFacts ==
  ASSUME NEW cfg, IsConfig(cfg), NEW entries, Len(entries) \in Nat
  PROVE  EntriesRead(cfg, entries, Len(entries), ini_parse(cfg, entries))
<1> DEFINE n == Len(entries)
           after == CHOOSE f : IsIniParse(f, cfg, entries, n)
           S == {i \in 0 .. n : EntriesRead(cfg, entries, i, after[i])}
<1>1. IsIniParse(after, cfg, entries, n)
  BY IniParseFunction, Zenon
<1>2. ini_parse(cfg, entries) = after[n]
  BY DEF ini_parse, IsIniParse
<1> HIDE DEF after
<1>3. after[0] = [cfg |-> cfg, error |-> FALSE]
      /\ \A i \in 0 .. n : i < n => after[i + 1] = config_ini_handler(after[i], entries[i + 1])
  <2>1. after[0] = [cfg |-> cfg, error |-> FALSE]
    BY <1>1 DEF IsIniParse
  <2>2. ASSUME NEW i \in 0 .. n, i < n
        PROVE  after[i + 1] = config_ini_handler(after[i], entries[i + 1])
    <3>1. i + 1 \in 0 .. n /\ i + 1 # 0 /\ (i + 1) - 1 = i
      BY <2>2
    <3>. QED BY <1>1, <3>1 DEF IsIniParse
  <2>. QED BY <2>1, <2>2
<1>4. EntriesRead(cfg, entries, 0, after[0])
  <2>1. \A s : {k \in 1 .. 0 : entries[k].set = s} = {}
    OBVIOUS
  <2>. QED BY <1>3, <2>1 DEF EntriesRead, Settled
<1>5. ASSUME NEW i \in 0 .. n, i \in S, i < n PROVE i + 1 \in S
  BY <1>3, <1>5, EntryRead
<1>6. 0 \in S
  BY <1>4
<1> HIDE DEF S
<1>7. \A i \in 0 .. n : i \in S
  BY <1>5, <1>6, Upwards
<1>. QED BY <1>2, <1>7 DEF S

-----------------------------------------------------------------------------
(* The words of a command line *)

Text   == STRING \cup {NoText}
Option == [opt : Text, val : Text, form : {"alone", "eq", "joined"}]

\* An option that takes the next word for its value.
TwoWords(o) == o.form = "alone" /\ o.opt \notin {"h", NoText}

\* An option is one word, or two.
LEMMA SpelledFacts ==
  ASSUME NEW o \in Option
  PROVE  /\ Spelled(o) \in Seq(Option)
         /\ ~TwoWords(o) => Len(Spelled(o)) = 1 /\ Spelled(o)[1] = o
         /\ TwoWords(o) =>
              /\ Len(Spelled(o)) = 2
              /\ Spelled(o)[1] = [opt |-> o.opt, val |-> NoText, form |-> "alone"]
              /\ Spelled(o)[2] = [opt |-> NoText, val |-> o.val, form |-> "alone"]
<1> DEFINE a == [opt |-> o.opt, val |-> NoText, form |-> "alone"]
           b == [opt |-> NoText, val |-> o.val, form |-> "alone"]
<1>1. a \in Option /\ b \in Option
  BY DEF Option, Text
<1>2. Spelled(o) = IF TwoWords(o) THEN <<a, b>> ELSE <<o>>
  BY DEF Spelled, TwoWords
<1> HIDE DEF a, b
<1>3. CASE TwoWords(o)
  BY <1>1, <1>2, <1>3 DEF a, b
<1>4. CASE ~TwoWords(o)
  BY <1>2, <1>4
<1>. QED BY <1>3, <1>4

\* The words of option k stand behind position pos[k - 1].
Placed(options, argv, pos) ==
  /\ pos \in [0 .. Len(options) -> Nat]
  /\ pos[0] = 0 /\ pos[Len(options)] = Len(argv)
  /\ \A k \in 0 .. Len(options) : pos[k] <= Len(argv)
  /\ \A k \in 1 .. Len(options) :
       /\ pos[k] = pos[k - 1] + Len(Spelled(options[k]))
       /\ \A j \in 1 .. Len(Spelled(options[k])) :
            argv[pos[k - 1] + j] = Spelled(options[k])[j]

\* s is the beginning of t.
Begins(s, t) == Len(s) <= Len(t) /\ \A i \in 1 .. Len(s) : t[i] = s[i]

\* A beginning of a sequence begins every longer one.
LEMMA BeginsConcat ==
  ASSUME NEW s \in Seq(Option), NEW t \in Seq(Option), NEW u \in Seq(Option), Begins(u, s)
  PROVE  Begins(u, s \o t)
<1>1. Len(s) \in Nat /\ Len(t) \in Nat /\ Len(u) \in Nat
  OBVIOUS
<1>2. Len(s \o t) = Len(s) + Len(t) /\ \A i \in 1 .. Len(s) : (s \o t)[i] = s[i]
  BY <1>1
<1>3. Len(u) <= Len(s) /\ \A i \in 1 .. Len(u) : s[i] = u[i]
  BY DEF Begins
<1>4. PICK c : c = s \o t
  OBVIOUS
<1>5. \A i \in 1 .. Len(u) : i \in 1 .. Len(s) /\ c[i] = u[i]
  BY <1>1, <1>2, <1>3, <1>4
<1>6. Len(u) <= Len(c)
  BY <1>1, <1>2, <1>3, <1>4
<1>. QED BY <1>4, <1>5, <1>6 DEF Begins

\* Each option has a place among the words, its value behind it.
LEMMA WordsPlaced ==
  ASSUME NEW options \in Seq(Option)
  PROVE  \E pos : Placed(options, Words(options), pos)
<1> DEFINE n == Len(options)
           upTo == CHOOSE f : IsWords(f, options, n)
           S == {m \in 0 .. n : \A k \in 0 .. m :
                                  upTo[k] \in Seq(Option) /\ Begins(upTo[k], upTo[m])}
<1>0. n \in Nat /\ \A k \in 1 .. n : options[k] \in Option
  OBVIOUS
<1>1. IsWords(upTo, options, n)
  BY <1>0, WordsFunction, Zenon
<1>2. Words(options) = upTo[n]
  BY DEF Words, IsWords
<1> HIDE DEF upTo
<1>3. upTo[0] = <<>>
  BY <1>0, <1>1 DEF IsWords
<1>4. ASSUME NEW k \in 1 .. n
      PROVE  upTo[k] = upTo[k - 1] \o Spelled(options[k])
  <2>1. k \in 0 .. n /\ k # 0
    BY <1>0
  <2>. QED BY <1>1, <2>1 DEF IsWords
<1>5. 0 \in S
  <2>1. \A k \in 0 .. 0 : k = 0
    OBVIOUS
  <2>2. upTo[0] \in Seq(Option) /\ Begins(upTo[0], upTo[0])
    BY <1>3 DEF Begins
  <2>. QED BY <1>0, <2>1, <2>2
<1>6. ASSUME NEW m \in 0 .. n, m \in S, m < n PROVE m + 1 \in S
  <2> DEFINE w == Spelled(options[m + 1])
  <2>1. m + 1 \in 1 .. n /\ (m + 1) - 1 = m
    BY <1>0, <1>6
  <2>2. upTo[m + 1] = upTo[m] \o w
    BY <1>4, <2>1
  <2>3. w \in Seq(Option) /\ upTo[m] \in Seq(Option)
    <3>1. options[m + 1] \in Option /\ m \in 0 .. m
      BY <1>0, <2>1
    <3>. QED BY <1>6, <3>1, SpelledFacts
  <2> HIDE DEF w
  <2>4. upTo[m + 1] \in Seq(Option)
    BY <2>2, <2>3
  <2>5. ASSUME NEW k \in 0 .. m + 1
        PROVE  upTo[k] \in Seq(Option) /\ Begins(upTo[k], upTo[m + 1])
    <3>1. CASE k = m + 1
      <4>1. PICK s \in Seq(Option) : s = upTo[m + 1]
        BY <2>4
      <4>2. Begins(s, s)
        BY DEF Begins
      <4>. QED BY <2>4, <3>1, <4>1, <4>2
    <3>2. CASE k # m + 1
      <4>1. k \in 0 .. m
        BY <3>2
      <4>2. upTo[k] \in Seq(Option) /\ Begins(upTo[k], upTo[m])
        BY <1>6, <4>1
      <4>. QED BY <2>2, <2>3, <4>2, BeginsConcat
    <3>. QED BY <3>1, <3>2
  <2>. QED BY <2>1, <2>5
<1> HIDE DEF S
<1>7. \A m \in 0 .. n : m \in S
  BY <1>0, <1>5, <1>6, Upwards
<1>8. \A k \in 0 .. n : upTo[k] \in Seq(Option) /\ Begins(upTo[k], upTo[n])
  BY <1>0, <1>7 DEF S
<1> DEFINE pos == [k \in 0 .. n |-> Len(upTo[k])]
<1>9. pos \in [0 .. n -> Nat] /\ pos[0] = 0 /\ pos[n] = Len(upTo[n])
  BY <1>0, <1>3, <1>8
<1>10. ASSUME NEW k \in 1 .. n
       PROVE  /\ pos[k] = pos[k - 1] + Len(Spelled(options[k]))
              /\ \A j \in 1 .. Len(Spelled(options[k])) :
                   upTo[n][pos[k - 1] + j] = Spelled(options[k])[j]
  <2>1. PICK w \in Seq(Option) : w = Spelled(options[k])
    BY <1>0, SpelledFacts
  <2>2. k \in 0 .. n /\ k - 1 \in 0 .. n
    BY <1>0
  <2>3. PICK s \in Seq(Option) : s = upTo[k - 1]
    BY <1>8, <2>2
  <2>4. PICK t : t = upTo[k] /\ t = s \o w /\ Begins(t, upTo[n])
    BY <1>4, <1>8, <2>1, <2>2, <2>3
  <2>5. pos[k] = Len(t) /\ pos[k - 1] = Len(s)
    BY <2>2, <2>3, <2>4
  <2>6. Len(t) = Len(s) + Len(w)
    BY <2>4
  <2>7. ASSUME NEW j \in 1 .. Len(w) PROVE t[Len(s) + j] = w[j]
    BY <2>4
  <2>8. ASSUME NEW j \in 1 .. Len(w) PROVE upTo[n][Len(s) + j] = w[j]
    <3>1. Len(s) + j \in 1 .. Len(t)
      BY <2>6
    <3>. QED BY <2>4, <2>7, <3>1 DEF Begins
  <2> HIDE DEF pos
  <2>. QED BY <2>1, <2>5, <2>6, <2>8
<1>11. \A k \in 0 .. n : pos[k] <= Len(upTo[n])
  BY <1>8 DEF Begins
<1> HIDE DEF pos
<1>12. Placed(options, upTo[n], pos)
  BY <1>0, <1>9, <1>10, <1>11 DEF Placed
<1>. QED BY <1>2, <1>12

-----------------------------------------------------------------------------
(* The first reading *)

First(o)  == [opt |-> o.opt, val |-> NoText, form |-> "alone"]
Second(o) == [opt |-> NoText, val |-> o.val, form |-> "alone"]

\* The words of one option.
ScanOption(st, o) ==
  IF TwoWords(o) THEN ScanWord(ScanWord(st, First(o)), Second(o)) ELSE ScanWord(st, o)

NamesFile(options, k) == {j \in 1 .. k : options[j].opt = "f"}

\* What holds after k options: the path is that of the last option that names
\* a file, unless one was refused.
PathScanned(options, k, st) ==
  /\ st = [path |-> st.path, wants |-> st.wants, rc |-> st.rc]
  /\ st.rc \in {0, -1}
  /\ st.rc = 0 =>
       /\ st.wants = FALSE
       /\ \/ NamesFile(options, k) = {} /\ st.path = NoText
          \/ \E j \in NamesFile(options, k) :
               (\A l \in NamesFile(options, k) : l <= j) /\ st.path = options[j].val

\* The first reading of one option.
LEMMA OptionScanned ==
  ASSUME NEW options, NEW k \in Nat, NEW st, PathScanned(options, k, st),
         options[k + 1] \in Option,
         ~(options[k + 1].opt = "f" /\ options[k + 1].form = "joined")
  PROVE  PathScanned(options, k + 1, ScanOption(st, options[k + 1]))
<1>1. PICK o \in Option : o = options[k + 1]
  OBVIOUS
<1> DEFINE new == ScanOption(st, o)
<1>2. \A j : j \in 1 .. k + 1 <=> j \in 1 .. k \/ j = k + 1
  OBVIOUS
<1>3. NamesFile(options, k + 1) =
        IF o.opt = "f" THEN NamesFile(options, k) \cup {k + 1} ELSE NamesFile(options, k)
  BY <1>1, <1>2 DEF NamesFile
<1>4. \A j \in NamesFile(options, k) : j \in Nat /\ j <= k
  BY DEF NamesFile
<1>5. CASE st.rc # 0
  <2>1. new = st
    BY <1>5 DEF ScanOption, ScanWord
  <2>. QED BY <1>1, <1>5, <2>1 DEF PathScanned
<1>6. CASE st.rc = 0 /\ o.opt = "f"
  <2>1. o.form \in {"alone", "eq"}
    BY <1>1, <1>6 DEF Option
  <2>2. new = TakePath(o.val)
    <3>1. CASE o.form = "eq"
      <4>1. ~TwoWords(o)
        BY <3>1 DEF TwoWords
      <4>. QED BY <1>6, <3>1, <4>1 DEF ScanOption, ScanWord, PathScanned
    <3>2. CASE o.form = "alone"
      <4>1. TwoWords(o)
        BY <1>6, <3>2 DEF TwoWords, NoText
      <4>2. ScanWord(st, First(o)) = [st EXCEPT !.wants = TRUE]
        BY <1>6 DEF ScanWord, First, PathScanned
      <4>3. PICK mid : mid = [st EXCEPT !.wants = TRUE]
        OBVIOUS
      <4>4. mid.rc = 0 /\ mid.wants = TRUE
        BY <1>6, <4>3 DEF PathScanned
      <4>5. ScanWord(mid, Second(o)) = TakePath(TextOf(Second(o)))
        BY <4>4 DEF ScanWord
      <4>6. TextOf(Second(o)) = o.val
        BY DEF TextOf, Second
      <4>. QED BY <4>1, <4>2, <4>3, <4>5, <4>6 DEF ScanOption
    <3>. QED BY <2>1, <3>1, <3>2
  <2>3. /\ new.path = o.val /\ new.wants = FALSE /\ new.rc \in {0, -1}
        /\ new = [path |-> new.path, wants |-> new.wants, rc |-> new.rc]
    BY <2>2 DEF TakePath
  <2> HIDE DEF new
  <2>4. k + 1 \in NamesFile(options, k + 1)
        /\ \A l \in NamesFile(options, k + 1) : l <= k + 1
    BY <1>3, <1>4, <1>6
  <2>. QED BY <1>1, <2>3, <2>4 DEF PathScanned, new
<1>7. CASE st.rc = 0 /\ o.opt # "f"
  <2>1. new = st
    <3>1. \A w : st.wants = FALSE /\ w.opt # "f" => ScanWord(st, w) = st
      BY <1>7 DEF ScanWord
    <3>2. First(o).opt # "f" /\ Second(o).opt # "f"
      BY <1>7 DEF First, Second, NoText
    <3>3. st.wants = FALSE
      BY <1>7 DEF PathScanned
    <3>4. ScanWord(st, First(o)) = st /\ ScanWord(st, Second(o)) = st /\ ScanWord(st, o) = st
      BY <1>7, <3>1, <3>2, <3>3
    <3>. QED BY <3>4 DEF ScanOption
  <2>2. NamesFile(options, k + 1) = NamesFile(options, k)
    BY <1>3, <1>7
  <2> HIDE DEF new
  <2>. QED BY <1>1, <2>1, <2>2 DEF PathScanned, new
<1>. QED BY <1>1, <1>5, <1>6, <1>7 DEF PathScanned

\* The scan of a command line.
LEMMA ScanFacts ==
  ASSUME NEW options \in Seq(Option), SeenByBoth(options)
  PROVE  LET scan == pre_scan_config_path(Words(options))
             at   == NamesFile(options, Len(options))
         IN  /\ scan.rc \in {0, -1}
             /\ scan.rc = 0 =>
                  \/ at = {} /\ scan.path = NoText
                  \/ \E j \in at : (\A l \in at : l <= j) /\ scan.path = options[j].val
<1> DEFINE n == Len(options)
           argv == Words(options)
           after == CHOOSE f : IsScan(f, argv, Len(argv))
<1>0. n \in Nat /\ (\A k \in 1 .. n : options[k] \in Option)
      /\ \A k \in 1 .. n : ~(options[k].opt = "f" /\ options[k].form = "joined")
  BY DEF SeenByBoth
<1>1. PICK pos : Placed(options, argv, pos)
  BY WordsPlaced
<1>2. Len(argv) \in Nat /\ \A k \in 0 .. n : pos[k] \in 0 .. Len(argv)
  BY <1>0, <1>1 DEF Placed
<1>3. IsScan(after, argv, Len(argv))
  BY <1>2, ScanFunction, Zenon
<1>4. pre_scan_config_path(argv) =
        [path |-> after[Len(argv)].path,
         rc |-> IF after[Len(argv)].wants THEN -1 ELSE after[Len(argv)].rc]
  BY DEF pre_scan_config_path, IsScan
<1> HIDE DEF after, argv
<1>5. after[0] = [path |-> NoText, wants |-> FALSE, rc |-> 0]
  BY <1>2, <1>3 DEF IsScan
<1>6. ASSUME NEW i \in 1 .. Len(argv) PROVE after[i] = ScanWord(after[i - 1], argv[i])
  <2>1. i \in 0 .. Len(argv) /\ i # 0
    BY <1>2
  <2>. QED BY <1>3, <2>1 DEF IsScan
<1>7. ASSUME NEW k \in 0 .. n, k < n
      PROVE  after[pos[k + 1]] = ScanOption(after[pos[k]], options[k + 1])
  <2>1. PICK o \in Option : o = options[k + 1]
    BY <1>0, <1>7
  <2>2. k + 1 \in 1 .. n /\ (k + 1) - 1 = k /\ k + 1 \in 0 .. n
    BY <1>0, <1>7
  <2>3. /\ pos[k + 1] = pos[k] + Len(Spelled(o))
        /\ \A j \in 1 .. Len(Spelled(o)) : argv[pos[k] + j] = Spelled(o)[j]
    BY <1>1, <2>1, <2>2 DEF Placed
  <2>4. PICK p \in Nat : p = pos[k] /\ pos[k + 1] <= Len(argv) /\ pos[k + 1] \in Nat
    BY <1>2, <2>2
  <2>5. CASE ~TwoWords(o)
    <3>0. Len(Spelled(o)) = 1 /\ Spelled(o)[1] = o
      BY <2>5, SpelledFacts
    <3>1. pos[k + 1] = p + 1 /\ argv[p + 1] = o
      BY <2>3, <2>4, <3>0
    <3>2. after[p + 1] = ScanWord(after[p], argv[p + 1])
      <4>1. p + 1 \in 1 .. Len(argv) /\ (p + 1) - 1 = p
        BY <1>2, <2>4, <3>1
      <4>. QED BY <1>6, <4>1
    <3>. QED BY <2>1, <2>4, <2>5, <3>1, <3>2 DEF ScanOption
  <2>6. CASE TwoWords(o)
    <3>0. Len(Spelled(o)) = 2 /\ Spelled(o)[1] = First(o) /\ Spelled(o)[2] = Second(o)
      BY <2>6, SpelledFacts DEF First, Second
    <3>1. pos[k + 1] = p + 2 /\ argv[p + 1] = First(o) /\ argv[p + 2] = Second(o)
      BY <2>3, <2>4, <3>0
    <3>2. after[p + 1] = ScanWord(after[p], argv[p + 1])
      <4>1. p + 1 \in 1 .. Len(argv) /\ (p + 1) - 1 = p
        BY <1>2, <2>4, <3>1
      <4>. QED BY <1>6, <4>1
    <3>3. after[p + 2] = ScanWord(after[p + 1], argv[p + 2])
      <4>1. p + 2 \in 1 .. Len(argv) /\ (p + 2) - 1 = p + 1
        BY <1>2, <2>4, <3>1
      <4>. QED BY <1>6, <4>1
    <3>. QED BY <2>1, <2>4, <2>6, <3>1, <3>2, <3>3 DEF ScanOption
  <2>. QED BY <2>5, <2>6
<1> DEFINE S == {k \in 0 .. n : PathScanned(options, k, after[pos[k]])}
<1>8. 0 \in S
  <2>1. NamesFile(options, 0) = {}
    BY DEF NamesFile
  <2>2. pos[0] = 0
    BY <1>1 DEF Placed
  <2>3. PathScanned(options, 0, after[0])
    BY <1>5, <2>1 DEF PathScanned
  <2>. QED BY <1>0, <2>2, <2>3
<1>9. ASSUME NEW k \in 0 .. n, k \in S, k < n PROVE k + 1 \in S
  <2>1. k + 1 \in 1 .. n
    BY <1>0, <1>9
  <2>2. PathScanned(options, k + 1, ScanOption(after[pos[k]], options[k + 1]))
    BY <1>0, <1>9, <2>1, OptionScanned
  <2>. QED BY <1>7, <1>9, <2>1, <2>2
<1> HIDE DEF S
<1>10. n \in S
  <2>1. \A k \in 0 .. n : k \in S
    BY <1>0, <1>8, <1>9, Upwards
  <2>. QED BY <1>0, <2>1
<1>11. PathScanned(options, n, after[Len(argv)])
  BY <1>1, <1>10 DEF S, Placed
<1>. QED BY <1>4, <1>11 DEF PathScanned, argv

-----------------------------------------------------------------------------
(* The second reading *)

ReadOption(st, o) ==
  IF TwoWords(o) THEN ReadWord(ReadWord(st, First(o)), Second(o)) ELSE ReadWord(st, o)

\* The options that give a value for a setting.
Gives(options, k, s) ==
  {j \in 1 .. k : options[j].opt \in DOMAIN SettingOf /\ SettingOf[options[j].opt] = s}

\* What holds after k options: none of them was bad, or the reading is refused
\* or will be; and every setting is that of the last option for it.
OptionsRead(cfg, options, k, st) ==
  /\ st = [cfg |-> st.cfg, opt |-> st.opt, plain |-> st.plain, rc |-> st.rc]
  /\ IsConfig(st.cfg) /\ st.rc \in {0, 1, -1} /\ st.plain \in BOOLEAN
  /\ st.rc = 1 => \E j \in 1 .. k : options[j].opt = "h"
  /\ st.rc = 0 =>
       /\ st.opt = NoText
       /\ \A j \in 1 .. k : options[j].opt = NoText => st.plain = TRUE
       /\ \A j \in 1 .. k : options[j].opt \in DOMAIN SettingOf
                              => Accepts(SettingOf[options[j].opt], options[j].val)
       /\ \A s \in Settings : Settled(st.cfg[s], cfg[s], s, options, Gives(options, k, s))

\* What the words of an option make of a reading that is well so far.
ReadAs(st, o, new) ==
  \/ o.opt = NoText /\ new = [st EXCEPT !.plain = TRUE]
  \/ o.opt = "h" /\ new = [st EXCEPT !.rc = 1]
  \/ /\ o.opt # NoText /\ new.rc = -1 /\ new.cfg = st.cfg /\ new.plain = st.plain
     /\ new = [cfg |-> new.cfg, opt |-> new.opt, plain |-> new.plain, rc |-> new.rc]
  \/ o.opt = "f" /\ new = st
  \/ /\ o.opt \in DOMAIN SettingOf /\ Accepts(SettingOf[o.opt], o.val)
     /\ new = [st EXCEPT !.cfg[SettingOf[o.opt]] = Value(SettingOf[o.opt], o.val)]

SetAt(st, s, v) == [st EXCEPT !.cfg[s] = v]
Clear(st)       == [st EXCEPT !.opt = NoText]

\* A value is set before or after the option that waits for it is cleared.
LEMMA SetThenClear ==
  ASSUME NEW c, NEW b, NEW x, NEW s, NEW v, NEW mid, NEW st,
         mid = [cfg |-> c, opt |-> x, plain |-> b, rc |-> 0],
         st = [cfg |-> c, opt |-> NoText, plain |-> b, rc |-> 0]
  PROVE  Clear(SetAt(mid, s, v)) = SetAt(st, s, v)
<1>1. [mid EXCEPT !.cfg[s] = v] = [cfg |-> [c EXCEPT ![s] = v], opt |-> x, plain |-> b, rc |-> 0]
  OBVIOUS
<1>2. [st EXCEPT !.cfg[s] = v] = [cfg |-> [c EXCEPT ![s] = v], opt |-> NoText, plain |-> b, rc |-> 0]
  OBVIOUS
<1>3. PICK d : d = [c EXCEPT ![s] = v]
  OBVIOUS
<1>4. PICK m, t : m = [mid EXCEPT !.cfg[s] = v] /\ t = [st EXCEPT !.cfg[s] = v]
  OBVIOUS
<1>5. m = [cfg |-> d, opt |-> x, plain |-> b, rc |-> 0]
      /\ t = [cfg |-> d, opt |-> NoText, plain |-> b, rc |-> 0]
  BY <1>1, <1>2, <1>3, <1>4
<1>6. [m EXCEPT !.opt = NoText] = t
  BY <1>5
<1>. QED BY <1>4, <1>6 DEF SetAt, Clear

\* An option is passed over, applied or refused, or asks for help.
LEMMA ReadOptionCases ==
  ASSUME NEW st, st.rc = 0, st.opt = NoText, NEW o \in Option,
         st = [cfg |-> st.cfg, opt |-> st.opt, plain |-> st.plain, rc |-> st.rc],
         o.opt = NoText => o.form = "alone"
  PROVE  ReadAs(st, o, ReadOption(st, o))
<1> DEFINE new == ReadOption(st, o)
           Set(x) == [x EXCEPT !.cfg[SettingOf[o.opt]] = Value(SettingOf[o.opt], o.val)]
<1>0. NoText \notin DOMAIN SettingOf \cup {"f", "h"} /\ "h" \notin DOMAIN SettingOf \cup {"f"}
  BY SettingNames DEF NoText
<1>1. CASE o.opt = NoText
  <2>1. ~TwoWords(o)
    BY <1>1 DEF TwoWords
  <2>. QED BY <1>1, <2>1 DEF ReadOption, ReadWord, ReadAs
<1>2. CASE o.opt # NoText /\ o.form # "alone"
  <2>1. ~TwoWords(o)
    BY <1>2 DEF TwoWords
  <2>2. new = Override(st, o.opt, o.val)
    BY <1>2, <2>1 DEF ReadOption, ReadWord
  <2>3. CASE o.opt = "f"
    BY <2>2, <2>3 DEF Override, ReadAs
  <2>4. CASE o.opt # "f" /\ o.opt \in DOMAIN SettingOf /\ Accepts(SettingOf[o.opt], o.val)
    BY <2>2, <2>4 DEF Override, ReadAs
  <2>5. CASE o.opt # "f" /\ ~(o.opt \in DOMAIN SettingOf /\ Accepts(SettingOf[o.opt], o.val))
    <3>1. new = [st EXCEPT !.rc = -1]
      BY <2>2, <2>5 DEF Override
    <3>. QED BY <1>2, <3>1 DEF ReadAs
  <2>. QED BY <2>3, <2>4, <2>5
<1>3. CASE o.opt = "h" /\ o.form = "alone"
  <2>1. ~TwoWords(o)
    BY <1>3 DEF TwoWords
  <2>. QED BY <1>0, <1>3, <2>1 DEF ReadOption, ReadWord, ReadAs
<1>4. CASE o.opt \notin {NoText, "h"} /\ o.form = "alone"
  <2>1. TwoWords(o)
    BY <1>4 DEF TwoWords
  <2>2. First(o).opt = o.opt /\ First(o).form = "alone"
        /\ Second(o).opt = NoText /\ TextOf(Second(o)) = o.val
    BY DEF First, Second, TextOf
  <2>3. CASE o.opt \notin DOMAIN SettingOf \cup {"f"}
    <3>1. ReadWord(st, First(o)) = [st EXCEPT !.rc = -1]
      BY <1>4, <2>2, <2>3 DEF ReadWord
    <3>2. PICK mid : mid = [st EXCEPT !.rc = -1]
      OBVIOUS
    <3>3. mid.rc = -1
      BY <3>2
    <3>4. ReadWord(mid, Second(o)) = mid
      BY <3>3 DEF ReadWord
    <3>5. new = [st EXCEPT !.rc = -1]
      BY <2>1, <3>1, <3>2, <3>4 DEF ReadOption
    <3>. QED BY <1>4, <3>5 DEF ReadAs
  <2>4. CASE o.opt \in DOMAIN SettingOf \cup {"f"}
    <3>1. ReadWord(st, First(o)) = [st EXCEPT !.opt = o.opt]
      BY <1>4, <2>2, <2>4 DEF ReadWord
    <3>2. PICK mid : mid = [st EXCEPT !.opt = o.opt]
      OBVIOUS
    <3>3. mid = [cfg |-> st.cfg, opt |-> o.opt, plain |-> st.plain, rc |-> 0]
      BY <3>2
    <3>4. ReadWord(mid, Second(o)) = [Override(mid, o.opt, o.val) EXCEPT !.opt = NoText]
      BY <1>4, <2>2, <3>3 DEF ReadWord
    <3>5. new = [Override(mid, o.opt, o.val) EXCEPT !.opt = NoText]
      BY <2>1, <3>1, <3>2, <3>4 DEF ReadOption
    <3>6. CASE o.opt = "f"
      <4>1. Override(mid, o.opt, o.val) = mid
        BY <3>6 DEF Override
      <4>2. new = st
        BY <3>3, <3>5, <4>1
      <4>. QED BY <3>6, <4>2 DEF ReadAs
    <3>7. CASE o.opt # "f" /\ Accepts(SettingOf[o.opt], o.val)
      <4>1. Override(mid, o.opt, o.val) = Set(mid)
        BY <2>4, <3>7 DEF Override
      <4>2. new = [Set(mid) EXCEPT !.opt = NoText]
        BY <3>5, <4>1
      <4>3. PICK s, v : s = SettingOf[o.opt] /\ v = Value(SettingOf[o.opt], o.val)
        OBVIOUS
      <4>4. [[mid EXCEPT !.cfg[s] = v] EXCEPT !.opt = NoText] = [st EXCEPT !.cfg[s] = v]
        <5>1. st = [cfg |-> st.cfg, opt |-> NoText, plain |-> st.plain, rc |-> 0]
          OBVIOUS
        <5>2. PICK c, b : c = st.cfg /\ b = st.plain
          OBVIOUS
        <5>3. st = [cfg |-> c, opt |-> NoText, plain |-> b, rc |-> 0]
              /\ mid = [cfg |-> c, opt |-> o.opt, plain |-> b, rc |-> 0]
          BY <3>3, <5>1, <5>2
        <5>4. Clear(SetAt(mid, s, v)) = SetAt(st, s, v)
          BY <5>3, SetThenClear
        <5>. QED BY <5>4 DEF SetAt, Clear
      <4>. QED BY <2>4, <3>7, <4>2, <4>3, <4>4 DEF ReadAs
    <3>8. CASE o.opt # "f" /\ ~Accepts(SettingOf[o.opt], o.val)
      <4>1. Override(mid, o.opt, o.val) = [mid EXCEPT !.rc = -1]
        BY <3>8 DEF Override
      <4>2. new = [cfg |-> st.cfg, opt |-> NoText, plain |-> st.plain, rc |-> -1]
        BY <3>3, <3>5, <4>1
      <4>. QED BY <1>4, <4>2 DEF ReadAs
    <3>. QED BY <2>4, <3>6, <3>7, <3>8
  <2>. QED BY <2>3, <2>4
<1>. QED BY <1>1, <1>2, <1>3, <1>4

\* The second reading of one option.
LEMMA OptionRead ==
  ASSUME NEW cfg, NEW options, NEW k \in Nat, NEW st, OptionsRead(cfg, options, k, st),
         options[k + 1] \in Option, options[k + 1].opt = NoText => options[k + 1].form = "alone"
  PROVE  OptionsRead(cfg, options, k + 1, ReadOption(st, options[k + 1]))
<1>1. PICK o \in Option : o = options[k + 1]
  OBVIOUS
<1> DEFINE new == ReadOption(st, o)
<1>2. \A j : j \in 1 .. k + 1 <=> j \in 1 .. k \/ j = k + 1
  OBVIOUS
<1>3. \A s : Gives(options, k + 1, s) =
              IF o.opt \in DOMAIN SettingOf /\ SettingOf[o.opt] = s
                THEN Gives(options, k, s) \cup {k + 1} ELSE Gives(options, k, s)
  BY <1>1, <1>2 DEF Gives
<1>4. \A s : Gives(options, k, s) \in SUBSET (1 .. k)
  BY DEF Gives
<1>5. /\ st = [cfg |-> st.cfg, opt |-> st.opt, plain |-> st.plain, rc |-> st.rc]
      /\ IsConfig(st.cfg) /\ st.rc \in {0, 1, -1} /\ st.plain \in BOOLEAN
  BY DEF OptionsRead
<1>6. CASE st.rc # 0
  <2>1. new = st
    BY <1>6 DEF ReadOption, ReadWord
  <2> HIDE DEF new
  <2>. QED BY <1>1, <1>2, <1>6, <2>1 DEF OptionsRead, new
<1>7. CASE st.rc = 0
  <2>0. NoText \notin DOMAIN SettingOf \cup {"f", "h"} /\ "h" \notin DOMAIN SettingOf
        /\ "f" \notin DOMAIN SettingOf
    BY SettingNames DEF NoText
  <2>1. /\ st.opt = NoText
        /\ \A j \in 1 .. k : options[j].opt = NoText => st.plain = TRUE
        /\ \A j \in 1 .. k : options[j].opt \in DOMAIN SettingOf
                               => Accepts(SettingOf[options[j].opt], options[j].val)
        /\ \A s \in Settings : Settled(st.cfg[s], cfg[s], s, options, Gives(options, k, s))
    BY <1>7 DEF OptionsRead
  <2>2. ReadAs(st, o, new)
    <3>1. o.opt = NoText => o.form = "alone"
      BY <1>1
    <3>. QED BY <1>5, <1>7, <2>1, <3>1, ReadOptionCases
  <2> HIDE DEF new
  <2>3. CASE o.opt = NoText /\ new = [st EXCEPT !.plain = TRUE]
    <3>1. new = [cfg |-> st.cfg, opt |-> st.opt, plain |-> TRUE, rc |-> st.rc]
      BY <1>5, <2>3
    <3>2. \A s : Gives(options, k + 1, s) = Gives(options, k, s)
      BY <1>3, <2>0, <2>3
    <3>. QED BY <1>1, <1>2, <1>5, <1>7, <2>0, <2>1, <2>3, <3>1, <3>2 DEF OptionsRead, new
  <2>4. CASE o.opt = "h" /\ new = [st EXCEPT !.rc = 1]
    <3>1. new = [cfg |-> st.cfg, opt |-> st.opt, plain |-> st.plain, rc |-> 1]
      BY <1>5, <2>4
    <3>. QED BY <1>1, <1>2, <1>5, <2>4, <3>1 DEF OptionsRead, new
  <2>5. CASE /\ new.rc = -1 /\ new.cfg = st.cfg /\ new.plain = st.plain
             /\ new = [cfg |-> new.cfg, opt |-> new.opt, plain |-> new.plain, rc |-> new.rc]
    BY <1>1, <1>5, <2>5 DEF OptionsRead, new
  <2>6. CASE o.opt = "f" /\ new = st
    <3>1. \A s : Gives(options, k + 1, s) = Gives(options, k, s)
      BY <1>3, <2>0, <2>6
    <3>. QED BY <1>1, <1>2, <1>5, <1>7, <2>0, <2>1, <2>6, <3>1 DEF OptionsRead, new
  <2>7. CASE /\ o.opt \in DOMAIN SettingOf /\ Accepts(SettingOf[o.opt], o.val)
             /\ new = [st EXCEPT !.cfg[SettingOf[o.opt]] = Value(SettingOf[o.opt], o.val)]
    <3>1. PICK old, name, v :
            old = st.cfg /\ name = SettingOf[o.opt] /\ v = Value(SettingOf[o.opt], o.val)
      OBVIOUS
    <3>2. IsConfig(old) /\ name \in Settings
      BY <1>5, <2>7, <3>1, SettingNames
    <3>3. PICK c : c = [old EXCEPT ![name] = v]
      OBVIOUS
    <3>4. IsConfig(c) /\ c[name] = v /\ \A t \in Settings \ {name} : c[t] = old[t]
      BY <3>2, <3>3 DEF IsConfig
    <3>5. new = [cfg |-> c, opt |-> st.opt, plain |-> st.plain, rc |-> st.rc]
      BY <1>5, <2>7, <3>1, <3>3
    <3>6. ASSUME NEW s \in Settings
          PROVE  Settled(c[s], cfg[s], s, options, Gives(options, k + 1, s))
      <4>1. CASE s = name
        <5>1. Gives(options, k + 1, s) = Gives(options, k, s) \cup {k + 1}
          BY <1>3, <2>7, <3>1, <4>1
        <5>2. Settled(Value(s, options[k + 1].val), cfg[s], s, options,
                      Gives(options, k, s) \cup {k + 1})
          BY <1>4, SettledNext
        <5>. QED BY <1>1, <3>1, <3>4, <4>1, <5>1, <5>2
      <4>2. CASE s # name
        <5>1. Gives(options, k + 1, s) = Gives(options, k, s)
          BY <1>3, <3>1, <4>2
        <5>. QED BY <2>1, <3>1, <3>4, <4>2, <5>1
      <4>. QED BY <4>1, <4>2
    <3>7. new.cfg = c /\ new.opt = st.opt /\ new.plain = st.plain /\ new.rc = st.rc
      BY <3>5
    <3>8. ASSUME NEW j \in 1 .. k + 1, options[j].opt \in DOMAIN SettingOf
          PROVE  Accepts(SettingOf[options[j].opt], options[j].val)
      BY <1>1, <1>2, <2>1, <2>7, <3>8
    <3>9. ASSUME NEW j \in 1 .. k + 1, options[j].opt = NoText
          PROVE  st.plain = TRUE
      BY <1>1, <1>2, <2>0, <2>1, <2>7, <3>9
    <3>10. new = [cfg |-> new.cfg, opt |-> new.opt, plain |-> new.plain, rc |-> new.rc]
      BY <3>5, <3>7
    <3>11. IsConfig(new.cfg) /\ new.rc = 0 /\ new.opt = NoText /\ new.plain \in BOOLEAN
      BY <1>5, <1>7, <2>1, <3>4, <3>7
    <3>12. new.rc \in {0, 1, -1} /\ new.rc # 1
      BY <3>11
    <3>13. \A j \in 1 .. k + 1 : options[j].opt = NoText => new.plain = TRUE
      BY <3>7, <3>9
    <3>14. \A s \in Settings : Settled(new.cfg[s], cfg[s], s, options, Gives(options, k + 1, s))
      BY <3>6, <3>7
    <3>15. OptionsRead(cfg, options, k + 1, new)
      BY <3>8, <3>10, <3>11, <3>12, <3>13, <3>14, Zenon DEF OptionsRead
    <3>. QED BY <1>1, <3>15 DEF new
  <2>. QED BY <2>2, <2>3, <2>4, <2>5, <2>6, <2>7 DEF ReadAs
<1>. QED BY <1>5, <1>6, <1>7

\* The reading of a command line.
LEMMA ReadFacts ==
  ASSUME NEW cfg, IsConfig(cfg), NEW options \in Seq(Option),
         \A k \in DOMAIN options : options[k].opt = NoText => options[k].form = "alone"
  PROVE  \E st : /\ OptionsRead(cfg, options, Len(options), st)
                 /\ apply_cli_overrides(cfg, Words(options)) =
                      [cfg |-> st.cfg,
                       rc  |-> IF st.rc # 0 THEN st.rc
                               ELSE IF st.opt # NoText \/ st.plain THEN -1 ELSE 0]
<1> DEFINE n == Len(options)
           argv == Words(options)
           after == CHOOSE f : IsRead(f, cfg, argv, Len(argv))
<1>0. n \in Nat /\ (\A k \in 1 .. n : options[k] \in Option)
      /\ \A k \in 1 .. n : options[k].opt = NoText => options[k].form = "alone"
  OBVIOUS
<1>1. PICK pos : Placed(options, argv, pos)
  BY WordsPlaced
<1>2. Len(argv) \in Nat /\ \A k \in 0 .. n : pos[k] \in 0 .. Len(argv)
  BY <1>0, <1>1 DEF Placed
<1>3. IsRead(after, cfg, argv, Len(argv))
  BY <1>2, ReadFunction, Zenon
<1>4. apply_cli_overrides(cfg, argv) =
        [cfg |-> after[Len(argv)].cfg,
         rc |-> IF after[Len(argv)].rc # 0 THEN after[Len(argv)].rc
                ELSE IF after[Len(argv)].opt # NoText \/ after[Len(argv)].plain THEN -1 ELSE 0]
  BY DEF apply_cli_overrides, IsRead
<1> HIDE DEF after, argv
<1>5. after[0] = [cfg |-> cfg, opt |-> NoText, plain |-> FALSE, rc |-> 0]
  BY <1>2, <1>3 DEF IsRead
<1>6. ASSUME NEW i \in 1 .. Len(argv) PROVE after[i] = ReadWord(after[i - 1], argv[i])
  <2>1. i \in 0 .. Len(argv) /\ i # 0
    BY <1>2
  <2>. QED BY <1>3, <2>1 DEF IsRead
<1>7. ASSUME NEW k \in 0 .. n, k < n
      PROVE  after[pos[k + 1]] = ReadOption(after[pos[k]], options[k + 1])
  <2>1. PICK o \in Option : o = options[k + 1]
    BY <1>0, <1>7
  <2>2. k + 1 \in 1 .. n /\ (k + 1) - 1 = k /\ k + 1 \in 0 .. n
    BY <1>0, <1>7
  <2>3. /\ pos[k + 1] = pos[k] + Len(Spelled(o))
        /\ \A j \in 1 .. Len(Spelled(o)) : argv[pos[k] + j] = Spelled(o)[j]
    BY <1>1, <2>1, <2>2 DEF Placed
  <2>4. PICK p \in Nat : p = pos[k] /\ pos[k + 1] <= Len(argv) /\ pos[k + 1] \in Nat
    BY <1>2, <2>2
  <2>5. CASE ~TwoWords(o)
    <3>0. Len(Spelled(o)) = 1 /\ Spelled(o)[1] = o
      BY <2>5, SpelledFacts
    <3>1. pos[k + 1] = p + 1 /\ argv[p + 1] = o
      BY <2>3, <2>4, <3>0
    <3>2. after[p + 1] = ReadWord(after[p], argv[p + 1])
      <4>1. p + 1 \in 1 .. Len(argv) /\ (p + 1) - 1 = p
        BY <1>2, <2>4, <3>1
      <4>. QED BY <1>6, <4>1
    <3>. QED BY <2>1, <2>4, <2>5, <3>1, <3>2 DEF ReadOption
  <2>6. CASE TwoWords(o)
    <3>0. Len(Spelled(o)) = 2 /\ Spelled(o)[1] = First(o) /\ Spelled(o)[2] = Second(o)
      BY <2>6, SpelledFacts DEF First, Second
    <3>1. pos[k + 1] = p + 2 /\ argv[p + 1] = First(o) /\ argv[p + 2] = Second(o)
      BY <2>3, <2>4, <3>0
    <3>2. after[p + 1] = ReadWord(after[p], argv[p + 1])
      <4>1. p + 1 \in 1 .. Len(argv) /\ (p + 1) - 1 = p
        BY <1>2, <2>4, <3>1
      <4>. QED BY <1>6, <4>1
    <3>3. after[p + 2] = ReadWord(after[p + 1], argv[p + 2])
      <4>1. p + 2 \in 1 .. Len(argv) /\ (p + 2) - 1 = p + 1
        BY <1>2, <2>4, <3>1
      <4>. QED BY <1>6, <4>1
    <3>. QED BY <2>1, <2>4, <2>6, <3>1, <3>2, <3>3 DEF ReadOption
  <2>. QED BY <2>5, <2>6
<1> DEFINE S == {k \in 0 .. n : OptionsRead(cfg, options, k, after[pos[k]])}
<1>8. 0 \in S
  <2>1. \A s : Gives(options, 0, s) = {}
    BY DEF Gives
  <2>2. pos[0] = 0
    BY <1>1 DEF Placed
  <2>3. OptionsRead(cfg, options, 0, after[0])
    BY <1>5, <2>1 DEF OptionsRead, Settled
  <2>. QED BY <1>0, <2>2, <2>3
<1>9. ASSUME NEW k \in 0 .. n, k \in S, k < n PROVE k + 1 \in S
  <2>1. k + 1 \in 1 .. n
    BY <1>0, <1>9
  <2>2. OptionsRead(cfg, options, k + 1, ReadOption(after[pos[k]], options[k + 1]))
    BY <1>0, <1>9, <2>1, OptionRead
  <2>. QED BY <1>7, <1>9, <2>1, <2>2
<1> HIDE DEF S
<1>10. n \in S
  <2>1. \A k \in 0 .. n : k \in S
    BY <1>0, <1>8, <1>9, Upwards
  <2>. QED BY <1>0, <2>1
<1>11. OptionsRead(cfg, options, n, after[Len(argv)])
  BY <1>1, <1>10 DEF S, Placed
<1>. QED BY <1>4, <1>11 DEF argv

-----------------------------------------------------------------------------
(* The start of the program *)

\* The setting the last of some values asks for, if there is one.
ValueOr(seq, at, setting, before) ==
  IF LastValue(seq, at) # NoText THEN Value(setting, LastValue(seq, at)) ELSE before

\* What is settled at the end is the value of the last option.
LEMMA SettledValue ==
  ASSUME NEW v, NEW before, NEW setting, NEW seq, NEW n \in Nat, NEW at \in SUBSET (1 .. n),
         \A k \in at : seq[k].val # NoText, Settled(v, before, setting, seq, at)
  PROVE  v = ValueOr(seq, at, setting, before)
<1>1. CASE at = {} /\ v = before
  BY <1>1 DEF LastValue, ValueOr
<1>2. CASE \E k \in at : (\A j \in at : j <= k) /\ v = Value(setting, seq[k].val)
  <2>1. PICK k \in at : (\A j \in at : j <= k) /\ v = Value(setting, seq[k].val)
    BY <1>2
  <2>2. LastValue(seq, at) = seq[k].val
    BY <2>1, LastValueAt
  <2>. QED BY <2>1, <2>2 DEF ValueOr
<1>. QED BY <1>1, <1>2 DEF Settled

\* A command line as ConfigAssumption has it.
IsCommandLine(options) ==
  /\ options \in Seq(Option)
  /\ \A k \in DOMAIN options :
       /\ options[k].opt = NoText => options[k].form = "alone"
       /\ options[k].opt \in DOMAIN SettingOf \cup {"f"} => options[k].val # NoText

\* A command line, the empty one included, is a sequence of options.
LEMMA CommandLineType ==
  ASSUME NEW options, options \in CommandLines \/ options = <<>>
  PROVE  IsCommandLine(options)
<1>1. CASE options = <<>>
  BY <1>1 DEF IsCommandLine
<1>2. CASE options \in CommandLines
  <2>1. /\ options \in Seq([opt : STRING, val : STRING, form : {"alone", "eq", "joined"}])
        /\ \A k \in DOMAIN options :
             /\ options[k].opt = NoText => options[k].form = "alone"
             /\ options[k].opt \in DOMAIN SettingOf \cup {"f"} => options[k].val # NoText
    BY <1>2, ConfigAssumption
  <2>2. [opt : STRING, val : STRING, form : {"alone", "eq", "joined"}] \subseteq Option
    BY DEF Option, Text
  <2>3. options \in Seq(Option)
    <3>1. PICK T : T = [opt : STRING, val : STRING, form : {"alone", "eq", "joined"}]
      OBVIOUS
    <3>2. T \subseteq Option /\ options \in Seq(T)
      BY <2>1, <2>2, <3>1
    <3>. QED BY <3>2
  <2>. QED BY <2>1, <2>3 DEF IsCommandLine
<1>. QED BY <1>1, <1>2

\* What the operator may expect of a start with result init.
Expected(options, init) ==
  /\ init.rc = 0 /\ SeenByBoth(options) =>
       \A setting \in DOMAIN Defaults : init.cfg[setting] = Meant(options, setting)
  /\ Bad(options) /\ SeenByBoth(options) =>
       init.rc # 0 /\ (init.rc = 1 => AsksHelp(options))

GoodOptions(options) ==
  \A k \in DOMAIN options :
    /\ options[k].opt # NoText
    /\ options[k].opt \in DOMAIN SettingOf => Accepts(SettingOf[options[k].opt], options[k].val)

\* The options, applied to what the file or the defaults left.
LEMMA OverridesFacts ==
  ASSUME NEW cfg, IsConfig(cfg), NEW options, IsCommandLine(options)
  PROVE  LET cli == apply_cli_overrides(cfg, Words(options))
         IN  /\ cli.rc = 0 =>
                  /\ GoodOptions(options)
                  /\ \A s \in Settings :
                       cli.cfg[s] = IF CliText(options, s) # NoText
                                      THEN Value(s, CliText(options, s)) ELSE cfg[s]
             /\ cli.rc = 1 => AsksHelp(options)
<1> DEFINE n == Len(options)
           cli == apply_cli_overrides(cfg, Words(options))
<1>0. n \in Nat /\ DOMAIN options = 1 .. n /\ options \in Seq(Option)
  BY DEF IsCommandLine
<1>1. PICK st : /\ OptionsRead(cfg, options, n, st)
                /\ cli = [cfg |-> st.cfg,
                          rc  |-> IF st.rc # 0 THEN st.rc
                                  ELSE IF st.opt # NoText \/ st.plain THEN -1 ELSE 0]
  BY ReadFacts DEF IsCommandLine
<1> HIDE DEF cli
<1>2. cli.cfg = st.cfg
      /\ cli.rc = IF st.rc # 0 THEN st.rc ELSE IF st.opt # NoText \/ st.plain THEN -1 ELSE 0
  BY <1>1
<1>3. ASSUME cli.rc = 0 PROVE st.rc = 0 /\ st.plain # TRUE
  <2>1. ASSUME st.rc # 0 PROVE FALSE
    BY <1>2, <1>3, <2>1
  <2>2. ASSUME st.plain = TRUE PROVE FALSE
    <3>1. cli.rc = -1
      BY <1>2, <2>1, <2>2
    <3>. QED BY <1>3, <3>1
  <2>. QED BY <2>1, <2>2
<1>4. ASSUME cli.rc = 0, NEW k \in DOMAIN options
      PROVE  /\ options[k].opt # NoText
             /\ options[k].opt \in DOMAIN SettingOf
                  => Accepts(SettingOf[options[k].opt], options[k].val)
  BY <1>0, <1>1, <1>3, <1>4 DEF OptionsRead
<1>5. ASSUME cli.rc = 0, NEW s \in Settings
      PROVE  cli.cfg[s] = IF CliText(options, s) # NoText
                            THEN Value(s, CliText(options, s)) ELSE cfg[s]
  <2> DEFINE at == Gives(options, n, s)
  <2>1. Settled(st.cfg[s], cfg[s], s, options, at)
    BY <1>1, <1>3, <1>5 DEF OptionsRead
  <2>2. at \in SUBSET (1 .. n) /\ \A k \in at : options[k].val # NoText
    BY <1>0 DEF Gives, IsCommandLine
  <2>3. CliText(options, s) = LastValue(options, at)
    BY <1>0 DEF CliText, Gives
  <2> HIDE DEF at
  <2>4. PICK v, before : v = st.cfg[s] /\ before = cfg[s]
    OBVIOUS
  <2>5. Settled(v, before, s, options, at)
    BY <2>1, <2>4
  <2>6. v = ValueOr(options, at, s, before)
    BY <1>0, <2>2, <2>5, SettledValue
  <2>. QED BY <1>2, <2>3, <2>4, <2>6 DEF ValueOr
<1>6. ASSUME cli.rc = 1 PROVE AsksHelp(options)
  <2>1. st.rc = 1
    BY <1>2, <1>6
  <2>. QED BY <1>0, <1>1, <2>1 DEF OptionsRead, AsksHelp
<1>. QED BY <1>4, <1>5, <1>6 DEF cli, GoodOptions

\* The file the operator named.
LEMMA FileFacts ==
  ASSUME NEW path \in DOMAIN Files, Files[path] # Unreadable
  PROVE  LET file    == load_config_file(Defaults, path)
             entries == Files[path]
         IN  /\ file.rc \in {0, -1} /\ IsConfig(file.cfg)
             /\ file.rc = 0 =>
                  /\ \A k \in DOMAIN entries :
                       entries[k].set \in Settings => Accepts(entries[k].set, entries[k].val)
                  /\ \A s \in Settings :
                       LET text == LastValue(entries, {k \in DOMAIN entries : entries[k].set = s})
                       IN  file.cfg[s] = IF text # NoText THEN Value(s, text) ELSE Defaults[s]
<1> DEFINE entries == Files[path]
           n == Len(entries)
           file == load_config_file(Defaults, path)
           ctx == ini_parse(Defaults, entries)
<1>1. entries \in Seq([set : STRING, val : STRING])
      /\ \A k \in DOMAIN entries : entries[k].val # NoText
  BY ConfigAssumption
<1> HIDE DEF entries
<1>2. n \in Nat /\ DOMAIN entries = 1 .. n
  BY <1>1
<1>3. IsConfig(Defaults)
  BY DEF IsConfig, Settings, Defaults
<1>4. EntriesRead(Defaults, entries, n, ctx)
  BY <1>2, <1>3, IniParseFacts
<1>5. file = [rc |-> IF ctx.error THEN -1 ELSE 0, cfg |-> ctx.cfg]
  BY DEF load_config_file, entries
<1> HIDE DEF ctx, file
<1>6. file.cfg = ctx.cfg /\ file.rc \in {0, -1} /\ IsConfig(ctx.cfg)
      /\ (file.rc = 0 => ~ctx.error)
  BY <1>4, <1>5 DEF EntriesRead
<1>7. ASSUME file.rc = 0, NEW s \in Settings
      PROVE  LET text == LastValue(entries, {k \in DOMAIN entries : entries[k].set = s})
             IN  file.cfg[s] = IF text # NoText THEN Value(s, text) ELSE Defaults[s]
  <2> DEFINE at == {k \in 1 .. n : entries[k].set = s}
  <2>1. Settled(ctx.cfg[s], Defaults[s], s, entries, at)
    BY <1>4, <1>6, <1>7 DEF EntriesRead
  <2>2. at \in SUBSET (1 .. n) /\ \A k \in at : entries[k].val # NoText
    BY <1>1, <1>2
  <2>3. {k \in DOMAIN entries : entries[k].set = s} = at
    BY <1>2
  <2> HIDE DEF at
  <2>4. ctx.cfg[s] = IF LastValue(entries, at) # NoText
                       THEN Value(s, LastValue(entries, at)) ELSE Defaults[s]
    <3>1. PICK v, before : v = ctx.cfg[s] /\ before = Defaults[s]
      OBVIOUS
    <3>2. Settled(v, before, s, entries, at)
      BY <2>1, <3>1
    <3>3. v = ValueOr(entries, at, s, before)
      BY <1>2, <2>2, <3>2, SettledValue
    <3>. QED BY <3>1, <3>3 DEF ValueOr
  <2>. QED BY <1>6, <2>3, <2>4
<1>8. ASSUME file.rc = 0, NEW k \in DOMAIN entries, entries[k].set \in Settings
      PROVE  Accepts(entries[k].set, entries[k].val)
  BY <1>2, <1>4, <1>6, <1>8 DEF EntriesRead
<1>. QED BY <1>6, <1>7, <1>8 DEF file, entries

\* runtime_config_init, for every command line.
LEMMA InitExpected ==
  ASSUME NEW options, IsCommandLine(options)
  PROVE  Expected(options, runtime_config_init(Words(options)))
<1> DEFINE argv == Words(options)
           init == runtime_config_init(argv)
           scan == pre_scan_config_path(argv)
           file == load_config_file(Defaults, scan.path)
           at == NamesFile(options, Len(options))
<1>0. IsConfig(Defaults) /\ Settings = DOMAIN Defaults
  BY DEF IsConfig, Settings, Defaults
<1>1. SUFFICES ASSUME SeenByBoth(options)
               PROVE  /\ init.rc = 0 =>
                           \A s \in Settings : init.cfg[s] = Meant(options, s)
                      /\ Bad(options) => init.rc # 0 /\ (init.rc = 1 => AsksHelp(options))
  BY <1>0 DEF Expected
<1>2. Len(options) \in Nat /\ DOMAIN options = 1 .. Len(options) /\ options \in Seq(Option)
  BY DEF IsCommandLine
<1>3. /\ scan.rc \in {0, -1}
      /\ scan.rc = 0 => \/ at = {} /\ scan.path = NoText
                        \/ \E j \in at : (\A l \in at : l <= j) /\ scan.path = options[j].val
  BY <1>1, <1>2, ScanFacts
<1>4. /\ at \in SUBSET (1 .. Len(options)) /\ \A j \in at : options[j].val # NoText
      /\ ConfigPath(options) = LastValue(options, at)
  BY <1>2 DEF NamesFile, ConfigPath, IsCommandLine
<1> HIDE DEF at, scan, argv
<1>5. scan.rc = 0 => scan.path = ConfigPath(options)
  <2>1. ASSUME NEW j \in at, \A l \in at : l <= j PROVE LastValue(options, at) = options[j].val
    BY <1>2, <1>4, <2>1, LastValueAt
  <2>2. at = {} => LastValue(options, at) = NoText
    BY DEF LastValue
  <2>. QED BY <1>3, <1>4, <2>1, <2>2
<1>6. init = IF scan.rc # 0 THEN [rc |-> -1, cfg |-> Defaults]
             ELSE IF scan.path = NoText THEN apply_cli_overrides(Defaults, argv)
             ELSE IF file.rc # 0 THEN file
             ELSE apply_cli_overrides(file.cfg, argv)
  BY DEF runtime_config_init, scan
<1>7. CASE scan.rc # 0
  BY <1>6, <1>7
<1>8. CASE scan.rc = 0 /\ scan.path = NoText
  <2>1. init = apply_cli_overrides(Defaults, Words(options)) /\ ConfigPath(options) = NoText
    BY <1>5, <1>6, <1>8 DEF argv
  <2>2. \A s : FileText(options, s) = NoText
    BY <2>1 DEF FileText
  <2> HIDE DEF init
  <2>3. /\ init.rc = 0 =>
             /\ GoodOptions(options)
             /\ \A s \in Settings :
                  init.cfg[s] = IF CliText(options, s) # NoText
                                  THEN Value(s, CliText(options, s)) ELSE Defaults[s]
        /\ init.rc = 1 => AsksHelp(options)
    BY <1>0, <2>1, OverridesFacts
  <2>4. GoodOptions(options) => ~Bad(options)
    BY <2>1 DEF GoodOptions, Bad
  <2>5. init.rc = 0 => \A s \in Settings : init.cfg[s] = Meant(options, s)
    BY <2>2, <2>3 DEF Meant
  <2>. QED BY <2>3, <2>4, <2>5
<1>9. CASE scan.rc = 0 /\ scan.path # NoText
  <2>1. PICK path : path = scan.path /\ path = ConfigPath(options)
    BY <1>5, <1>9
  <2>2. file = load_config_file(Defaults, path)
    BY <2>1
  <2>3. CASE path \notin DOMAIN Files \/ Files[path] = Unreadable
    <3>1. file.rc = -1
      BY <2>2, <2>3 DEF load_config_file
    <3>. QED BY <1>6, <1>9, <3>1
  <2>4. CASE path \in DOMAIN Files /\ Files[path] # Unreadable
    <3> DEFINE entries == Files[path]
               At(s) == {k \in DOMAIN entries : entries[k].set = s}
    <3>1. /\ file.rc \in {0, -1} /\ IsConfig(file.cfg)
          /\ file.rc = 0 =>
               /\ \A k \in DOMAIN entries :
                    entries[k].set \in Settings => Accepts(entries[k].set, entries[k].val)
               /\ \A s \in Settings :
                    file.cfg[s] = IF LastValue(entries, At(s)) # NoText
                                    THEN Value(s, LastValue(entries, At(s))) ELSE Defaults[s]
      BY <2>2, <2>4, FileFacts
    <3>2. \A s : FileText(options, s) = LastValue(entries, At(s))
      BY <1>9, <2>1 DEF FileText
    <3> HIDE DEF file
    <3>3. CASE file.rc # 0
      BY <1>6, <1>9, <3>1, <3>3
    <3>4. CASE file.rc = 0
      <4>1. init = apply_cli_overrides(file.cfg, Words(options))
        BY <1>6, <1>9, <3>4 DEF argv
      <4>2. PICK cfg : cfg = file.cfg
        OBVIOUS
      <4> HIDE DEF init
      <4>3. /\ init.rc = 0 =>
                 /\ GoodOptions(options)
                 /\ \A s \in Settings :
                      init.cfg[s] = IF CliText(options, s) # NoText
                                      THEN Value(s, CliText(options, s)) ELSE cfg[s]
            /\ init.rc = 1 => AsksHelp(options)
        BY <3>1, <4>1, <4>2, OverridesFacts
      <4>4. GoodOptions(options) => ~Bad(options)
        BY <1>0, <2>1, <2>4, <3>1, <3>4 DEF GoodOptions, Bad
      <4>5. init.rc = 0 => \A s \in Settings : init.cfg[s] = Meant(options, s)
        <5> HIDE DEF entries
        <5>1. \A s \in Settings : cfg[s] = IF FileText(options, s) # NoText
                                    THEN Value(s, FileText(options, s)) ELSE Defaults[s]
          BY <3>1, <3>2, <3>4, <4>2
        <5>. QED BY <4>3, <5>1 DEF Meant
      <4>. QED BY <4>3, <4>4, <4>5
    <3>. QED BY <3>1, <3>3, <3>4
  <2>. QED BY <2>3, <2>4
<1>. QED BY <1>3, <1>7, <1>8, <1>9

-----------------------------------------------------------------------------
(* The program *)

\* The program that is stopped has the defaults and no options; one that runs
\* is what runtime_config_init made of a command line.
StartExpected == Expected(started.options, started)

\* A program that has not started.
LEMMA StoppedExpected ==
  ASSUME NEW st, st = Stopped
  PROVE  Expected(st.options, st)
<1>1. st.options = <<>> /\ st.rc = 0 /\ st.cfg = Defaults
  BY DEF Stopped
<1>2. DOMAIN <<>> = {}
  OBVIOUS
<1>3. ConfigPath(<<>>) = NoText /\ \A s : CliText(<<>>, s) = NoText
  BY <1>2 DEF ConfigPath, CliText, LastValue
<1>4. \A s : FileText(<<>>, s) = NoText
  BY <1>3 DEF FileText
<1>5. \A s : Meant(<<>>, s) = Defaults[s]
  BY <1>3, <1>4 DEF Meant
<1>6. ~Bad(<<>>)
  BY <1>2, <1>3 DEF Bad
<1>. QED BY <1>1, <1>5, <1>6 DEF Expected

\* The invariant of every step of the program.
LEMMA StartExpectedInvariant == ConfigSpec => []StartExpected
<1>1. ConfigInit => StartExpected
  BY StoppedExpected DEF ConfigInit, StartExpected
<1>2. StartExpected /\ [ConfigNext]_started => StartExpected'
  <2> SUFFICES ASSUME StartExpected, [ConfigNext]_started
               PROVE  StartExpected'
    OBVIOUS
  <2>1. CASE Start
    <3>1. PICK options \in CommandLines :
            started' = [options |-> options, rc |-> runtime_config_init(Words(options)).rc,
                        cfg |-> runtime_config_init(Words(options)).cfg, running |-> TRUE]
      BY <2>1 DEF Start
    <3>2. PICK init : init = runtime_config_init(Words(options))
      OBVIOUS
    <3>3. started'.options = options /\ started'.rc = init.rc /\ started'.cfg = init.cfg
      BY <3>1, <3>2
    <3>4. Expected(options, init)
      BY <3>2, CommandLineType, InitExpected
    <3>. QED BY <3>3, <3>4 DEF StartExpected, Expected
  <2>2. CASE Exit
    <3>1. started' = Stopped
      BY <2>2 DEF Exit
    <3>. QED BY <3>1, StoppedExpected DEF StartExpected
  <2>3. CASE UNCHANGED started
    BY <2>3 DEF StartExpected
  <2>. QED BY <2>1, <2>2, <2>3 DEF ConfigNext
<1>. QED BY <1>1, <1>2, PTL DEF ConfigSpec

\* "CLI > config file > built-in defaults": whatever the command line, the
\* files and the texts strtol reads, runtime_config_init leaves every setting of
\* a program that starts as the last option for it, or else the last entry of
\* the last file named, or else the default.
THEOREM PrecedenceTheorem == ConfigSpec => []Precedence
<1>1. StartExpected => Precedence
  BY DEF StartExpected, Expected, Precedence
<1>. QED BY <1>1, StartExpectedInvariant, PTL

\* runtime_config_init returns no 0 for a command line with a value its setting
\* does not take, a word that is no option, or a file that cannot be read or
\* holds a bad entry, wherever it stands and whatever overrides it.
THEOREM BadInputTheorem == ConfigSpec => []BadInputRefused
<1>1. StartExpected => BadInputRefused
  BY DEF StartExpected, Expected, BadInputRefused
<1>. QED BY <1>1, StartExpectedInvariant, PTL
=============================================================================
