----------------------------- MODULE GefConfig -----------------------------
(***************************************************************************)
(* The settings and aliases of the debugger extension src/scripts/gef.py:  *)
(* `gef config`, `gef save`, `gef restore`, `aliases add` and `aliases rm`,*)
(* the loading of extra plugins, and the start-up of the extension, which  *)
(* reads the file ~/.gef.rc that an earlier session wrote.                 *)
(*                                                                         *)
(* Keys are numbered in the order in which `gef save` writes them.  Values *)
(* are the texts the file and the commands know: a text with a single `%`  *)
(* (class "pct") cannot be read back, `%%` (class "pctpct") is read as a   *)
(* single one, because the file is written by RawConfigParser and read by  *)
(* ConfigParser, which interpolates.                                       *)
(***************************************************************************)
EXTENDS Naturals, Sequences, FiniteSets, SequencesExt

CONSTANTS
    BoolKeys, StrKeys,   \* settings of the built-in commands, by type
    DirKey,              \* gef.extra_plugins_dir, the setting with write hooks
    PluginKey,           \* a setting of a command in that directory
    MaxStarts,           \* bound on the start-ups
    MaxCommands          \* bound on the commands typed in a session

ASSUME ConfigBounds == /\ BoolKeys \cup StrKeys \cup {DirKey, PluginKey} \subseteq Nat
                       /\ PluginKey \notin BoolKeys \cup StrKeys \cup {DirKey}
                       /\ DirKey \notin BoolKeys
                       /\ MaxStarts \in Nat /\ MaxCommands \in Nat

VARIABLES
    config,    \* gef.config: the value of each setting that exists
    aliases,   \* gef.session.aliases: a list of <<name, command>>
    plugin,    \* the plugin command: "unknown", "missing" (failed) or "loaded"
    startup,   \* "ready", or "aborted" when the start-up raised half way
    rc,        \* the file: its settings and its aliases
    starts,    \* start-ups so far
    typed      \* commands since the start-up

configVars == <<config, aliases, plugin, startup, rc, starts, typed>>

Core == BoolKeys \cup StrKeys \cup {DirKey}
Default(k) == IF k \in BoolKeys THEN "False" ELSE "plain"
Texts(k) == CASE k \in BoolKeys -> {"True", "False", "maybe"}
              [] k = DirKey -> {"plain", "dir", "two words"}
              [] OTHER -> {"plain", "pct", "pctpct"}
Tuple == "tuple"   \* str() of the pair (default, description)

Builtin == <<"b", "builtin">>
Lower(name) == IF name = "U" THEN "u" ELSE name   \* optionxform() of the parsers
NoRc == [cfg |-> <<>>, aliases |-> <<>>]

Put(f, k, v) == [x \in DOMAIN f \cup {k} |-> IF x = k THEN v ELSE f[x]]
Named(list, name) == \E i \in DOMAIN list : list[i][1] = name

-----------------------------------------------------------------------------
(* Aliases.                                                                 *)

\* GefAlias.__init__(): the first alias of a name stays.
GefAlias(list, name, cmd) == IF Named(list, name) THEN list ELSE Append(list, <<name, cmd>>)

-----------------------------------------------------------------------------
(* Loading commands.                                                        *)

\* GenericCommand.__setitem__(): in a setting that exists already, the pair of
\* default and description is stored as the value.
AddSetting(cfg, k) == Put(cfg, k, IF k \in DOMAIN cfg THEN Tuple ELSE Default(k))

\* GefCommand.load() for a registered plugin that is not loaded: its
\* constructor may raise before or after it has added its setting.
Load(s, outcome) ==
    IF s.plugin = "loaded" THEN s
    ELSE [s EXCEPT !.plugin = IF outcome = "ok" THEN "loaded" ELSE "missing",
                   !.config = IF outcome = "before" THEN @ ELSE AddSetting(@, PluginKey)]

Outcomes == {"ok", "before", "after"}

\* load_extra_plugins(): load() runs only when a new command was registered.
LoadExtraPlugins(s, outcome) ==
    IF s.config[DirKey] = "dir" /\ s.plugin = "unknown" THEN Load(s, outcome) ELSE s

-----------------------------------------------------------------------------
(* Saving and restoring.                                                    *)

\* GefSaveCommand.invoke(): every setting that exists; of aliases whose names
\* differ in case only the last is kept.
FileOf(cfg, list) ==
    [cfg |-> cfg,
     aliases |-> [n \in {Lower(list[i][1]) : i \in DOMAIN list} |->
                    list[CHOOSE i \in DOMAIN list :
                            /\ Lower(list[i][1]) = n
                            /\ \A j \in DOMAIN list : Lower(list[j][1]) = n => j <= i][2]]]

\* cfg.get() of ConfigParser.
Readable(text) == text # "pct"
Reads(text) == IF text = "pctpct" THEN "pct" ELSE text

\* Mutant: bool() of the text, which is true for "False".
RestoredValueCasts(k, text) == IF k \in BoolKeys THEN "True" ELSE Reads(text)

\* The value of a setting read back: the text of a bool is compared, any other
\* type takes the text.
RestoredValue(k, text) ==
    IF k \in BoolKeys THEN (IF text = "True" THEN "True" ELSE "False") ELSE Reads(text)

\* The section of the aliases: GefAlias() of each that can be read, whose names
\* are all different.
RestoredAliases(list, file) ==
    LET names == SetToSeq({n \in DOMAIN file : Readable(file[n]) /\ ~Named(list, n)})
    IN list \o [i \in 1 .. Len(names) |-> <<names[i], Reads(file[names[i]])>>]

\* GefRestoreCommand.reload(): values are assigned in the order of the file,
\* without the write hooks; settings that do not exist are passed over; a value
\* that cannot be read ends it, before the aliases, which come last.
Reload(s, file) ==
    LET raising == {k \in DOMAIN s.config \cap DOMAIN file.cfg : ~Readable(file.cfg[k])}
        reached == {k \in DOMAIN s.config \cap DOMAIN file.cfg : \A b \in raising : k < b}
    IN [s EXCEPT !.config = [k \in DOMAIN @ |->
                                IF k \in reached THEN RestoredValue(k, file.cfg[k]) ELSE @[k]],
                 !.aliases = IF raising = {} THEN RestoredAliases(@, file.aliases) ELSE @,
                 !.ok = raising = {}]

Session == [config |-> config, aliases |-> aliases, plugin |-> plugin, ok |-> TRUE]
Become0(s) == config = s.config /\ aliases = s.aliases /\ plugin = s.plugin
Become(s) == config' = s.config /\ aliases' = s.aliases /\ plugin' = s.plugin

-----------------------------------------------------------------------------
(* Actions.                                                                 *)

FirstSession == [config |-> [k \in Core |-> Default(k)], aliases |-> <<Builtin>>,
                 plugin |-> "unknown", ok |-> TRUE]

ConfigInit ==
    /\ Become0(FirstSession)
    /\ startup = "ready" /\ rc = NoRc
    /\ starts = 0 /\ typed = 0

\* A command of the user.
Type == typed < MaxCommands /\ typed' = typed + 1 /\ UNCHANGED <<startup, starts>>

\* GefSettingsManager.__setitem__(): the value is stored and then the write
\* hooks run, so that a text a hook refuses is stored.  The last hook of DirKey
\* loads the plugins of the directory.
SetItem(k, text) ==
    LET stored == [Session EXCEPT !.config[k] = text]
    IN IF k = DirKey /\ text # "two words"
       THEN \E outcome \in Outcomes : Become(LoadExtraPlugins(stored, outcome))
       ELSE Become(stored)

\* `gef config key text': a bool that cannot be parsed changes nothing.
GefConfigSet ==
    /\ Type
    /\ \E k \in DOMAIN config : \E text \in Texts(k) :
        IF k \in BoolKeys /\ text = "maybe" THEN Become(Session) ELSE SetItem(k, text)
    /\ UNCHANGED rc

GefSave ==
    /\ Type
    /\ rc' = FileOf(config, aliases)
    /\ UNCHANGED <<config, aliases, plugin>>

\* `gef restore'.
GefRestore ==
    /\ Type
    /\ rc # NoRc
    /\ Become(Reload(Session, rc))
    /\ UNCHANGED rc

AliasesAdd ==
    /\ Type
    /\ \E name \in {"b", "u", "U"}, cmd \in {"word", "pct"} :
            aliases' = GefAlias(aliases, name, cmd)
    /\ UNCHANGED <<config, plugin, rc>>

AliasesRm ==
    /\ Type
    /\ \E i \in DOMAIN aliases : aliases' = RemoveAt(aliases, i)
    /\ UNCHANGED <<config, plugin, rc>>

\* The hook after `source': load() tries a missing command again.  The hook is
\* defined at the end of a start-up.
SourceHook ==
    /\ Type
    /\ startup = "ready" /\ plugin = "missing"
    /\ \E outcome \in Outcomes : Become(Load(Session, outcome))
    /\ UNCHANGED rc

\* GDB quits and starts again: Gef.setup() loads the built-in commands and then
\* restores the file; only after it come the extra plugins.  An exception of
\* the restore ends the script.
Restart ==
    /\ starts < MaxStarts
    /\ LET restored == Reload(FirstSession, rc)
       IN \E outcome \in Outcomes :
            /\ Become(IF restored.ok THEN LoadExtraPlugins(restored, outcome) ELSE restored)
            /\ startup' = IF restored.ok THEN "ready" ELSE "aborted"
    /\ starts' = starts + 1 /\ typed' = 0
    /\ UNCHANGED rc

ConfigNext ==
    \/ GefConfigSet \/ GefSave \/ GefRestore
    \/ AliasesAdd \/ AliasesRm \/ SourceHook \/ Restart

ConfigSpec == ConfigInit /\ [][ConfigNext]_configVars

-----------------------------------------------------------------------------
(* Properties.                                                             *)

JustStarted == starts > 0 /\ typed = 0

\* A session starts with the settings that an earlier one saved, so that saving
\* again loses nothing, whatever plugins failed to load meanwhile: every
\* setting of a built-in command has the text of the file, up to the first
\* value that cannot be read, after which the settings have their defaults.
SettingsPersist ==
    JustStarted =>
        \A k \in Core \cap DOMAIN rc.cfg :
            IF \A j \in Core \cap DOMAIN rc.cfg : j <= k => rc.cfg[j] # "pct"
            THEN config[k] = rc.cfg[k] \/ rc.cfg[k] = "pctpct"
            ELSE config[k] = Default(k)

\* A session starts with every alias of the file, under its name in lower case,
\* and a save would write them all again; only an alias that cannot be read
\* back, or one that redefines a built-in alias, is lost.
AliasesPersist ==
    (JustStarted /\ startup = "ready") =>
        LET again == FileOf(config, aliases).aliases
        IN \A n \in DOMAIN rc.aliases :
            \/ rc.aliases[n] = "pct" \/ n = Builtin[1]
            \/ n \in DOMAIN again /\ again[n] = rc.aliases[n]

\* What `gef save' wrote comes back when the debugger is started again.
SavedComesBack == SettingsPersist /\ AliasesPersist

=============================================================================
