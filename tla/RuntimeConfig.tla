--------------------------- MODULE RuntimeConfig ---------------------------
(***************************************************************************)
(* The runtime configuration (src/config/runtime_config.c): built-in       *)
(* defaults, an INI file named on the command line, and the command line   *)
(* itself, read twice: once by a hand-written scan that only looks for the *)
(* file, once by getopt_long.                                              *)
(*                                                                         *)
(* A word of the command line is [opt, val, form]: an option without its   *)
(* value ("alone": "-p" or "--port"), an option with its value ("eq":      *)
(* "--port=1", "joined": "-p1"), or a plain text, which has no option.     *)
(* A long name is written as its letter.                                   *)
(***************************************************************************)
EXTENDS Integers, Sequences, SequencesExt

CONSTANTS
  Number,        \* the texts strtol reads to their end, with their value
  LongTexts,     \* texts that do not fit a path buffer
  Files,         \* path -> the entries of the file, or Unreadable
  CommandLines   \* the sequences of options the program is started with

VARIABLE started \* the options of the running program and what came of them

NoText     == "none"
Unreadable == <<[set |-> "unreadable", val |-> NoText]>>

TrueTexts  == {"1", "true", "yes", "on"}
FalseTexts == {"0", "false", "no", "off"}
LogLevels  == {"debug", "info", "warn", "error", "silent"}

SettingOf == [p |-> "port", m |-> "maxConnections", i |-> "autosaveIntervalMs",
              a |-> "autosaveEnabled", l |-> "logLevel", s |-> "snapshotPath"]

Defaults ==
  [port |-> 3005, maxConnections |-> 5, autosaveIntervalMs |-> 30000,
   autosaveEnabled |-> TRUE, logLevel |-> "info", snapshotPath |-> "default"]

\* A value is given with every option and every entry that sets something.
ASSUME ConfigAssumption ==
  /\ \A text \in DOMAIN Number : Number[text] \in Int
  /\ \A path \in DOMAIN Files :
       /\ Files[path] \in Seq([set : STRING, val : STRING])
       /\ Files[path] # Unreadable => \A k \in DOMAIN Files[path] : Files[path][k].val # NoText
  /\ \A options \in CommandLines :
       /\ options \in Seq([opt : STRING, val : STRING, form : {"alone", "eq", "joined"}])
       /\ \A k \in DOMAIN options :
            /\ options[k].opt = NoText => options[k].form = "alone"
            /\ options[k].opt \in DOMAIN SettingOf \cup {"f"} => options[k].val # NoText

-----------------------------------------------------------------------------
(* The texts a setting takes and what they set (utils/parse.c, utils/log.c) *)

util_parse_int_in_range(text, max) == text \in DOMAIN Number /\ Number[text] \in 1 .. max
util_parse_positive_ll(text)       == text \in DOMAIN Number /\ Number[text] > 0
util_parse_bool(text)              == text \in TrueTexts \cup FalseTexts
util_copy_string(text)             == text \notin LongTexts /\ text # ""

INT_MAX == 2147483647

Accepts(setting, text) ==
  CASE setting = "port"               -> util_parse_int_in_range(text, 65535)
    [] setting = "maxConnections"     -> util_parse_int_in_range(text, INT_MAX)
    [] setting = "autosaveIntervalMs" -> util_parse_positive_ll(text)
    [] setting = "autosaveEnabled"    -> util_parse_bool(text)
    [] setting = "snapshotPath"       -> util_copy_string(text)
    [] setting = "logLevel"           -> TRUE

\* A level that is no level is INFO.
Value(setting, text) ==
  CASE setting = "autosaveEnabled" -> text \in TrueTexts
    [] setting = "logLevel"        -> IF text \in LogLevels THEN text ELSE "info"
    [] setting = "snapshotPath"    -> text
    [] OTHER                       -> Number[text]

-----------------------------------------------------------------------------
(* The configuration file *)

\* A mutant: a good entry clears the error of a bad one.
config_ini_handler_ClearsError(ctx, entry) ==
  CASE entry.set \notin DOMAIN Defaults -> ctx
    [] entry.set \in DOMAIN Defaults ->
         IF Accepts(entry.set, entry.val)
           THEN [cfg |-> [ctx.cfg EXCEPT ![entry.set] = Value(entry.set, entry.val)],
                 error |-> FALSE]
           ELSE [ctx EXCEPT !.error = TRUE]

\* An unknown key is passed over; a bad value leaves the setting as it is (an
\* empty path is copied first, but the program then ends) and marks the file,
\* and the entries that follow are still applied.
config_ini_handler(ctx, entry) ==
  CASE entry.set \notin DOMAIN Defaults -> ctx
    [] entry.set \in DOMAIN Defaults ->
         IF Accepts(entry.set, entry.val)
           THEN [ctx EXCEPT !.cfg[entry.set] = Value(entry.set, entry.val)]
           ELSE [ctx EXCEPT !.error = TRUE]

\* ini_parse calls the handler for each entry in order.
ini_parse(cfg, entries) ==
  LET after[i \in 0 .. Len(entries)] ==
        IF i = 0 THEN [cfg |-> cfg, error |-> FALSE]
        ELSE config_ini_handler(after[i - 1], entries[i])
  IN  after[Len(entries)]

load_config_file(cfg, path) ==
  LET ctx == ini_parse(cfg, Files[path])
  IN  IF path \notin DOMAIN Files \/ Files[path] = Unreadable THEN [rc |-> -1, cfg |-> cfg]
      ELSE [rc |-> IF ctx.error THEN -1 ELSE 0, cfg |-> ctx.cfg]

-----------------------------------------------------------------------------
(* The command line *)

\* The text of a word that is taken as the value of the option before it.
TextOf(word) == IF word.opt = NoText THEN word.val ELSE "-"

\* The first reading: "-f X", "--config X" and "--config=X", the last wins.
\* One word of it, in a state [path, wants, rc].
TakePath(text) ==
  [path |-> text, wants |-> FALSE, rc |-> IF util_copy_string(text) THEN 0 ELSE -1]

ScanWord(st, word) ==
  IF st.rc # 0 THEN st
  ELSE IF st.wants THEN TakePath(TextOf(word))
  ELSE IF word.opt = "f" /\ word.form = "alone" THEN [st EXCEPT !.wants = TRUE]
  ELSE IF word.opt = "f" /\ word.form = "eq" THEN TakePath(word.val)
  ELSE st

pre_scan_config_path(argv) ==
  LET after[i \in 0 .. Len(argv)] ==
        IF i = 0 THEN [path |-> NoText, wants |-> FALSE, rc |-> 0]
        ELSE ScanWord(after[i - 1], argv[i])
      end == after[Len(argv)]
  IN  [path |-> end.path, rc |-> IF end.wants THEN -1 ELSE end.rc]

\* One option getopt_long returned, with its argument.
Override(st, opt, text) ==
  IF opt = "f" THEN st
  ELSE IF opt \in DOMAIN SettingOf /\ Accepts(SettingOf[opt], text)
    THEN [st EXCEPT !.cfg[SettingOf[opt]] = Value(SettingOf[opt], text)]
  ELSE [st EXCEPT !.rc = -1]

\* The second reading, getopt_long's: an option that needs a value takes the
\* next word, plain words are set aside and refused at the end.  One word of
\* it, in a state [cfg, opt, plain, rc].
ReadWord(st, word) ==
  IF st.rc # 0 THEN st
  ELSE IF st.opt # NoText
    THEN [Override(st, st.opt, TextOf(word)) EXCEPT !.opt = NoText]
  ELSE IF word.opt = NoText THEN [st EXCEPT !.plain = TRUE]
  ELSE IF word.form # "alone" THEN Override(st, word.opt, word.val)
  ELSE IF word.opt = "h" THEN [st EXCEPT !.rc = 1]
  ELSE IF word.opt \in DOMAIN SettingOf \cup {"f"} THEN [st EXCEPT !.opt = word.opt]
  ELSE [st EXCEPT !.rc = -1]

apply_cli_overrides(cfg, argv) ==
  LET after[i \in 0 .. Len(argv)] ==
        IF i = 0 THEN [cfg |-> cfg, opt |-> NoText, plain |-> FALSE, rc |-> 0]
        ELSE ReadWord(after[i - 1], argv[i])
      end == after[Len(argv)]
  IN  [cfg |-> end.cfg,
       rc  |-> IF end.rc # 0 THEN end.rc
               ELSE IF end.opt # NoText \/ end.plain THEN -1 ELSE 0]

\* A mutant: the file is loaded after the command line was applied.
runtime_config_init_FileLast(argv) ==
  LET scan == pre_scan_config_path(argv)
      cli  == apply_cli_overrides(Defaults, argv)
  IN  IF scan.rc # 0 THEN [rc |-> -1, cfg |-> Defaults]
      ELSE IF cli.rc # 0 \/ scan.path = NoText THEN cli
      ELSE load_config_file(cli.cfg, scan.path)

runtime_config_init(argv) ==
  LET scan == pre_scan_config_path(argv)
      file == load_config_file(Defaults, scan.path)
  IN  IF scan.rc # 0 THEN [rc |-> -1, cfg |-> Defaults]
      ELSE IF scan.path = NoText THEN apply_cli_overrides(Defaults, argv)
      ELSE IF file.rc # 0 THEN file
      ELSE apply_cli_overrides(file.cfg, argv)

-----------------------------------------------------------------------------
(* What the operator means: a sequence of options [opt, val, form], written *)
(* as one or two words each.                                                *)

Spelled(o) ==
  IF o.form = "alone" /\ o.opt \notin {"h", NoText}
    THEN << [opt |-> o.opt, val |-> NoText, form |-> "alone"],
            [opt |-> NoText, val |-> o.val, form |-> "alone"] >>
    ELSE <<o>>

Words(options) ==
  LET upTo[k \in 0 .. Len(options)] ==
        IF k = 0 THEN <<>> ELSE upTo[k - 1] \o Spelled(options[k])
  IN  upTo[Len(options)]

\* The last of the values at some positions of a sequence.
LastValue(seq, at) == IF at = {} THEN NoText ELSE seq[Max(at)].val

\* The file the operator names: the last one.
ConfigPath(options) == LastValue(options, {k \in DOMAIN options : options[k].opt = "f"})

FileText(options, setting) ==
  LET path    == ConfigPath(options)
      entries == Files[path]
  IN  IF path = NoText THEN NoText
      ELSE LastValue(entries, {k \in DOMAIN entries : entries[k].set = setting})

CliText(options, setting) ==
  LastValue(options, {k \in DOMAIN options : options[k].opt \in DOMAIN SettingOf
                                              /\ SettingOf[options[k].opt] = setting})

\* The setting the documented order of precedence asks for.
Meant(options, setting) ==
  LET cli  == CliText(options, setting)
      file == FileText(options, setting)
  IN  IF cli # NoText THEN Value(setting, cli)
      ELSE IF file # NoText THEN Value(setting, file)
      ELSE Defaults[setting]

\* A value no setting takes, a file that cannot be read or holds such a value,
\* or a word that is no option.
Bad(options) ==
  \/ \E k \in DOMAIN options :
       LET o == options[k]
       IN  \/ o.opt = NoText
           \/ o.opt \in DOMAIN SettingOf /\ ~Accepts(SettingOf[o.opt], o.val)
  \/ LET path == ConfigPath(options)
     IN  path # NoText /\
         (\/ path \notin DOMAIN Files
          \/ Files[path] = Unreadable
          \/ \E k \in DOMAIN Files[path] :
               LET e == Files[path][k]
               IN  e.set \in DOMAIN Defaults /\ ~Accepts(e.set, e.val))

AsksHelp(options) == \E k \in DOMAIN options : options[k].opt = "h"
-----------------------------------------------------------------------------

Stopped == [options |-> <<>>, rc |-> 0, cfg |-> Defaults, running |-> FALSE]

ConfigInit == started = Stopped

Start ==
  /\ ~started.running
  /\ \E options \in CommandLines :
       LET init == runtime_config_init(Words(options))
       IN  started' = [options |-> options, rc |-> init.rc, cfg |-> init.cfg, running |-> TRUE]

Exit == started.running /\ started' = Stopped

ConfigNext == Start \/ Exit

ConfigSpec == ConfigInit /\ [][ConfigNext]_started

-----------------------------------------------------------------------------
(* Properties *)

\* The two readings of the command line see the same file: "-fX" is an option
\* to getopt_long and not to the scan.
SeenByBoth(options) ==
  \A k \in DOMAIN options : ~(options[k].opt = "f" /\ options[k].form = "joined")

\* "Precedence: CLI > config file > built-in defaults" (runtime_config.c:72):
\* every setting of a program that starts is the last one of the command line,
\* or else the last one of the last file named, or else the default.
Precedence ==
  started.rc = 0 /\ SeenByBoth(started.options) =>
    \A setting \in DOMAIN Defaults : started.cfg[setting] = Meant(started.options, setting)

\* A program never starts on a setting it was given and could not use: a value
\* out of range, a file that cannot be read or a bad entry in it, before or
\* after good ones and overridden or not, ends the start.  No log level is bad:
\* an unknown one is taken for info.
BadInputRefused ==
  Bad(started.options) /\ SeenByBoth(started.options) =>
    started.rc # 0 /\ (started.rc = 1 => AsksHelp(started.options))
=============================================================================
