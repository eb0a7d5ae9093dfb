--------------------------- MODULE ServiceConfig ----------------------------
(***************************************************************************)
(* The configuration of a device service: dev/services/common/             *)
(* service_config.c, what the main of each service takes from it, and the  *)
(* apply_config_reload of each loop, which takes one setting again after a *)
(* SIGHUP.                                                                 *)
(*                                                                         *)
(* A file is read line by line; what the next line says is up to whoever   *)
(* edits it, so a line is an input of the action that reads it.  A text is *)
(* a number (its decimal digits), Blank (nothing but space) or Word        *)
(* (something that does not begin with a digit).  Keys and sections are    *)
(* written in lower case: they are compared without case.                  *)
(*                                                                         *)
(* Two keys stand for all: the setting that a reload changes, and one that *)
(* must be there.  The others are read once, at the start.                 *)
(*                                                                         *)
(* Left out: lines, names and texts longer than their buffers, numbers of  *)
(* more than 31 bits, keys whose environment variables have the same name, *)
(* and service_config_set and service_config_get_int, which nothing calls. *)
(***************************************************************************)
EXTENDS Integers, Sequences, FiniteSets

CONSTANTS MaxEntries,  \* CFG_MAX_SECTIONS * CFG_MAX_KEYS
          MaxLines,    \* bound on the lines of a file that are not skipped
          Numbers,     \* the numbers a file or the environment may give
          Services     \* the kinds of service

ASSUME ConfigAssumption ==
    /\ MaxEntries \in Nat /\ Numbers \subseteq Nat
    /\ Services \subseteq {"audio", "camera", "gpio", "sensor"}

VARIABLES svc,      \* the kind of the service
          env,      \* the environment of the process
          cfgAt,    \* "down", "parse" or "up"
          booting,  \* the load is the one of main
          cfg,      \* the entries of g_cfg, in order
          section,  \* cur_section of parse_file
          lines,    \* lines of the file read so far
          setting,  \* ctx->sample_rate, fps, sampling_rate_hz or interrupt_timeout_ms
          written,  \* what the file says, as a map: not in the program
          given     \* the last acceptable value the service was given: not in the program

cfgVars == <<svc, env, cfgAt, booting, cfg, section, lines, setting, written, given>>

Blank == -1
Word  == -2
Unset == -3

Sections    == {"", "hardware", "server"}
Keys        == {"device", "rate"}
ConfigNames == Sections \X Keys

\* The setting that can be changed while the service runs, and a key that
\* REQUIRED_KEYS names.
Rate   == <<"hardware", "rate">>
Device == <<"hardware", "device">>

-----------------------------------------------------------------------------
(***************************************************************************)
(* The table and its getters.                                              *)
(***************************************************************************)

\* The position of the first entry with this name, 0 if there is none.
find_entry(table, name) ==
    LET at == {i \in DOMAIN table : table[i].name = name}
    IN  IF at = {} THEN 0 ELSE CHOOSE i \in at : \A j \in at : i <= j

\* NULL, here Unset, stands for a name that is absent or has an empty value.
get_string(table, name) ==
    LET i == find_entry(table, name)
    IN  IF i = 0 THEN Unset
        ELSE IF table[i].value = Blank THEN Unset ELSE table[i].value

get_uint32(table, name, def) ==
    LET text == get_string(table, name) IN IF text >= 0 THEN text ELSE def

validate(table) == get_string(table, Device) # Unset

-----------------------------------------------------------------------------
(***************************************************************************)
(* parse_file and apply_env_overrides.                                     *)
(***************************************************************************)

\* Mutant: a repeated key gets an entry of its own.
StoreAgain(table, name, text) ==
    IF Len(table) < MaxEntries
      THEN Append(table, [name |-> name, value |-> text])
      ELSE table

\* The last value of a repeated key counts; a full table takes no new key.
Store(table, name, text) ==
    LET i == find_entry(table, name)
    IN  IF i > 0 THEN [table EXCEPT ![i].value = text]
        ELSE IF Len(table) < MaxEntries
          THEN Append(table, [name |-> name, value |-> text])
          ELSE table

\* A variable replaces the value of a key the file has; it brings no new one.
apply_env_overrides(table) ==
    [i \in DOMAIN table |->
        IF env[table[i].name] # Unset
          THEN [table[i] EXCEPT !.value = env[table[i].name]]
          ELSE table[i]]

\* A comment, an empty line, a header without its bracket and a line without
\* "=" are skipped: they change nothing.
Header(s) ==
    /\ cfgAt = "parse"
    /\ lines < MaxLines
    /\ lines' = lines + 1
    /\ section' = s
    /\ UNCHANGED <<svc, env, cfgAt, booting, cfg, setting, written, given>>

KeyValue(key, text) ==
    LET name == <<section, key>>
    IN  /\ cfgAt = "parse"
        /\ lines < MaxLines
        /\ lines' = lines + 1
        /\ cfg' = Store(cfg, name, text)
        /\ written' = IF \/ written[name] # Unset
                         \/ Cardinality({n \in ConfigNames : written[n] # Unset}) < MaxEntries
                        THEN [written EXCEPT ![name] = text]
                        ELSE written
        /\ UNCHANGED <<svc, env, cfgAt, booting, section, setting, given>>

(***************************************************************************)
(* service_config_load.  The old entries are gone before the file is       *)
(* opened.                                                                 *)
(***************************************************************************)
Cleared ==
    /\ cfg' = <<>>
    /\ section' = ""
    /\ lines' = 0
    /\ written' = [n \in ConfigNames |-> Unset]

\* main, up to the file being open; without the file it exits, and nothing
\* has changed.
Load ==
    /\ cfgAt = "down"
    /\ booting' = TRUE
    /\ cfgAt' = "parse"
    /\ Cleared
    /\ UNCHANGED <<svc, env, setting, given>>

\* service_config_reload, with the path and the prefix of the first load.
Reload ==
    /\ cfgAt = "up"
    /\ booting' = FALSE
    /\ cfgAt' = "parse"
    /\ Cleared
    /\ UNCHANGED <<svc, env, setting, given>>

\* Mutant: a reload that fails starts from the built-in settings.
ReloadFailsToDefault ==
    /\ cfgAt = "up"
    /\ Cleared
    /\ setting' = 0
    /\ UNCHANGED <<svc, env, cfgAt, booting, given>>

\* fopen fails in a service that runs: it goes on with the setting it has.
ReloadFails ==
    /\ cfgAt = "up"
    /\ Cleared
    /\ UNCHANGED <<svc, env, cfgAt, booting, setting, given>>

-----------------------------------------------------------------------------
(***************************************************************************)
(* What main takes from the table.  It exits when the device is missing or *)
(* a number is out of its range.                                           *)
(***************************************************************************)
Default == [audio |-> 44100, camera |-> 30, sensor |-> 100, gpio |-> 5000]

AudioBoots(v)  == v >= 8000 /\ v <= 192000
CameraBoots(v) == v > 0 /\ v <= 240
SensorBoots(v) == TRUE
GpioBoots(v)   == TRUE

Boots(v) ==
    /\ svc = "audio"  => AudioBoots(v)
    /\ svc = "camera" => CameraBoots(v)
    /\ svc = "sensor" => SensorBoots(v)
    /\ svc = "gpio"   => GpioBoots(v)

(***************************************************************************)
(* What apply_config_reload takes, each service in its own way.            *)
(***************************************************************************)
AudioReload(table, now) ==
    LET v == get_uint32(table, Rate, now)
    IN  IF v # now /\ v >= 8000 /\ v <= 192000 THEN v ELSE now

\* Mutant: a frame rate is applied as it stands in the file.
CameraReloadUnchecked(table, now) == get_uint32(table, Rate, now)

CameraReload(table, now) ==
    LET v == get_uint32(table, Rate, now)
    IN  IF v # now /\ v > 0 /\ v <= 240 THEN v ELSE now

SensorReload(table, now) ==
    LET v == get_uint32(table, Rate, now)
    IN  IF v # now /\ v > 0 THEN v ELSE now

GpioReload(table, now) ==
    LET v == get_uint32(table, Rate, now)
    IN  IF v # now THEN v ELSE now

Reloaded(table, now) ==
    CASE svc = "audio"  -> AudioReload(table, now)
      [] svc = "camera" -> CameraReload(table, now)
      [] svc = "sensor" -> SensorReload(table, now)
      [] svc = "gpio"   -> GpioReload(table, now)

\* What a service should make of a value, told apart from the two pieces of
\* code that decide it.
Sound(v) ==
    /\ svc = "audio"  => 8000 <= v /\ v <= 192000
    /\ svc = "camera" => 1 <= v /\ v <= 240
    /\ svc = "sensor" => v > 0

\* What the file and the environment together say of a name.
Says(name) ==
    IF written[name] # Unset /\ env[name] # Unset THEN env[name] ELSE written[name]

\* The end of the file: the overrides, then main or the reload goes on.
Boot ==
    LET table == apply_env_overrides(cfg)
        v     == get_uint32(table, Rate, Default[svc])
    IN  /\ cfgAt = "parse"
        /\ booting
        /\ validate(table)
        /\ Boots(v)
        /\ cfg' = table
        /\ setting' = v
        /\ given' = IF Says(Rate) >= 0 THEN Says(Rate) ELSE Default[svc]
        /\ cfgAt' = "up"
        /\ UNCHANGED <<svc, env, booting, section, lines, written>>

\* main exits: this, or one of the keys that are not modelled, is missing or
\* out of range.
BootFails ==
    /\ cfgAt = "parse"
    /\ booting
    /\ cfg' = apply_env_overrides(cfg)
    /\ cfgAt' = "down"
    /\ UNCHANGED <<svc, env, booting, section, lines, setting, written, given>>

Apply ==
    /\ cfgAt = "parse"
    /\ ~booting
    /\ LET table == apply_env_overrides(cfg)
       IN  /\ cfg' = table
           /\ setting' = Reloaded(table, setting)
    /\ given' = IF Says(Rate) >= 0 /\ Sound(Says(Rate)) THEN Says(Rate) ELSE given
    /\ cfgAt' = "up"
    /\ UNCHANGED <<svc, env, booting, section, lines, written>>

-----------------------------------------------------------------------------
ConfigInit ==
    /\ svc \in Services
    /\ \E rate \in Numbers \cup {Blank, Unset}, device \in {Word, Unset} :
          env = [n \in ConfigNames |-> CASE n = Rate   -> rate
                                         [] n = Device -> device
                                         [] OTHER      -> Unset]
    /\ cfgAt = "down"
    /\ booting = TRUE
    /\ cfg = <<>>
    /\ section = ""
    /\ lines = 0
    /\ setting = 0
    /\ written = [n \in ConfigNames |-> Unset]
    /\ given = 0

ConfigNext ==
    \/ Load \/ Boot \/ BootFails \/ Reload \/ ReloadFails \/ Apply
    \/ \E s \in Sections \ {""} : Header(s)
    \/ \E text \in Numbers \cup {Blank, Word} : KeyValue("rate", text)
    \/ \E text \in {Blank, Word} : KeyValue("device", text)

-----------------------------------------------------------------------------
(***************************************************************************)
(* Properties.                                                             *)
(***************************************************************************)

\* After a load, what find_entry, the limit of the table and the overrides
\* make of the lines is a map: every name has the last value the file gave
\* it, or the one of its variable, however often keys and sections were
\* repeated; a name the file does not have is absent, whatever its variable.
TableIsMap ==
    /\ Len(cfg) <= MaxEntries
    /\ cfgAt = "up" =>
         \A n \in ConfigNames :
            get_string(cfg, n) = IF Says(n) = Blank THEN Unset ELSE Says(n)

\* A running service works with the last acceptable value it was given, over
\* any number of reloads: a file that is missing, lacks the key, or gives a
\* text or a number out of range changes nothing, although g_cfg is cleared.
SettingInForce ==
    cfgAt = "up" =>
      /\ setting = given
      /\ svc # "sensor" => Sound(setting)

\* The configuration at any moment: the table is a map and the setting the
\* last acceptable one.
ConfigSafe == TableIsMap /\ SettingInForce
=============================================================================
