----------------------------- MODULE Configuration -----------------------------
(***************************************************************************)
(* How the configuration of a run comes about (config/config.rs): a global *)
(* and a project file, a profile with its ancestors, the command line and  *)
(* the environment, each of which may give a setting or leave it open.     *)
(*                                                                         *)
(* A setting is known by where it was given: a slot is one setting of one  *)
(* layer, and the value of a setting is the slot it was taken from.        *)
(***************************************************************************)
EXTENDS Naturals, FiniteSets, Sequences, SequencesExt

CONSTANT MaxGiven       \* bound on the settings that are given

Builtin  == {"anthropic", "openai"}
Entries  == {"openai", "alias"}             \* sections [providers.*]
Files    == {"global", "project"}
Profiles == {"inner", "outer"}

Slot(layer, section, setting, value) ==
    [by |-> layer, at |-> section, of |-> setting, is |-> value]

\* ConfigFile, ProviderConfig.  max_turns stands for every optional setting of
\* [default]; api_key for the settings of an entry but model, base_url and the
\* fields of compat among them; compact for the sections taken as a whole, of
\* which some settings show that the section is there.
FileSlots(f) ==
    {Slot(f, "default", s, "") : s \in {"max_turns", "model"}}
    \cup {Slot(f, "default", "provider", p) : p \in {"anthropic", "alias"}}
    \cup {Slot(f, e, s, "") : e \in Entries, s \in {"api_key", "model"}}
    \cup {Slot(f, "compact", s, "") : s \in {"marker", "other"}}

\* ProfileConfig.
ProfileSlots(p) ==
    {Slot(p, "default", s, "") : s \in {"max_turns", "model", "api_key"}}
    \cup {Slot(p, "default", "provider", e) : e \in {"anthropic", "alias"}}
    \cup {Slot(p, "default", "extends", q) : q \in Profiles \ {p}}

\* CliArgs and the environment.
OtherSlots ==
    {Slot("cli", "default", s, "") : s \in {"max_turns", "api_key"}}
    \cup {Slot("cli", "default", "provider", e) : e \in {"anthropic", "alias"}}
    \cup {Slot("cli", "default", "profile", "inner")}
    \cup {Slot("env", s, "api_key", "") : s \in Builtin \cup {"default"}}

Slots == (UNION {FileSlots(f) : f \in Files}) \cup (UNION {ProfileSlots(p) : p \in Profiles})
         \cup OtherSlots
Open  == Slot("none", "default", "none", "anthropic")  \* nobody gave the setting

Settings == {<<s.at, s.of>> : s \in Slots}

VARIABLES
    given,              \* the slots that are filled
    stage,              \* edit, chain, done or failed
    visited,            \* resolve_profile: the profiles gone through
    config              \* done: the resolved settings

cfgVars == <<given, stage, visited, config>>

CfgInit == given = {} /\ stage = "edit" /\ visited = <<>> /\ config = <<>>

\* Somebody writes a setting.
Give(s) == /\ stage = "edit" /\ Cardinality(given) < MaxGiven
           /\ \A t \in given : <<t.by, t.at, t.of>> # <<s.by, s.at, s.of>>
           /\ given' = given \cup {s} /\ UNCHANGED <<stage, visited, config>>
-------------------------------------------------------------------------------
\* What a layer says: its slot or Open for every setting.
Says(layer) == [k \in Settings |->
    IF \E s \in given : s.by = layer /\ <<s.at, s.of>> = k
    THEN CHOOSE s \in given : s.by = layer /\ <<s.at, s.of>> = k ELSE Open]

\* Mutant of Over: the base wins.
Over_Base(base, overlay) == [k \in DOMAIN base |-> IF base[k] # Open THEN base[k] ELSE overlay[k]]

\* merge_provider_configs, merge_profiles, ProviderCompat::merge, LoggingConfig::merge.
Over(base, overlay) == [k \in DOMAIN base |-> IF overlay[k] # Open THEN overlay[k] ELSE base[k]]

\* merge_config_files.  The provider of the project counts unless it is the
\* default one; a whole section does when a setting that is looked at differs
\* from its default, and not at all otherwise.
Merged ==
    LET g == Says("global")
        p == Says("project")
    IN  [k \in Settings |->
            CASE k[1] = "compact" -> IF p[<<"compact", "marker">>] # Open THEN p[k] ELSE g[k]
              [] k = <<"default", "provider">> -> IF p[k].is # "anthropic" THEN p[k] ELSE g[k]
              [] OTHER -> Over(g, p)[k]]

\* load_config_file, merge_config_files; a profile is named or not.
StartChain ==
    /\ stage = "edit" /\ stage' = "chain"
    /\ visited' = IF Says("cli")[<<"default", "profile">>] = Open THEN <<>> ELSE <<"inner">>
    /\ UNCHANGED <<given, config>>

\* resolve_profile: the profile the last one extends.
Parent == IF visited = <<>> THEN Open ELSE Says(Last(visited))[<<"default", "extends">>]

\* Mutant of Circular: the profiles gone through are not remembered.
Circular_Never(p) == p = ""

Circular(p) == p \in Range(visited)

Follow ==
    /\ stage = "chain" /\ Parent # Open
    /\ IF Circular(Parent.is) THEN stage' = "failed" /\ UNCHANGED visited
                              ELSE visited' = Append(visited, Parent.is) /\ UNCHANGED stage
    /\ UNCHANGED <<given, config>>

\* The profile with what it has from its ancestors.
Profile == FoldRight(LAMBDA p, base : Over(base, Says(p)), visited, [k \in Settings |-> Open])

\* The settings of a profile that go into the entry of its provider.
IntoEntry(c, profile, entry) ==
    [k \in Settings |->
        IF k[1] = entry /\ k[2] = "api_key" /\ profile[<<"default", "api_key">>] # Open
        THEN profile[<<"default", "api_key">>] ELSE c[k]]

Scalars(c, profile) ==
    [k \in Settings |->
        IF k \in {"default"} \X {"max_turns", "model", "provider"} /\ profile[k] # Open
        THEN profile[k] ELSE c[k]]

\* Mutant of Applied: the entry is looked up before the provider is set.
Applied_Early(c, profile) ==
    IntoEntry(Scalars(c, profile), profile, c[<<"default", "provider">>].is)

\* apply_profile: the key is for the provider that is active with the profile.
Applied(c, profile) ==
    LET d == Scalars(c, profile) IN IntoEntry(d, profile, d[<<"default", "provider">>].is)

\* resolve_provider_alias: the settings of an entry, over those of the provider
\* it stands for.
Effective(c, name, setting) ==
    LET Entry(n) == IF <<n, setting>> \in Settings THEN c[<<n, setting>>] ELSE Open
    IN  IF name \in Builtin \/ Entry(name) # Open THEN Entry(name) ELSE Entry("openai")

\* The first of some slots that is filled.
First(slots) == LET filled == {i \in DOMAIN slots : slots[i] # Open}
                IN  IF filled = {} THEN Open ELSE slots[Min(filled)]

Named(c) == First(<<Says("cli")[<<"default", "provider">>], c[<<"default", "provider">>]>>).is

\* resolve_api_key: the command line, the files, the environment.
Key(c) ==
    LET type == IF Named(c) = "alias" THEN "openai" ELSE Named(c)
    IN  First(<<Says("cli")[<<"default", "api_key">>], Effective(c, Named(c), "api_key"),
                Says("env")[<<"default", "api_key">>], Says("env")[<<type, "api_key">>]>>)

\* Config::resolve.  Without a key there is no configuration, unless somebody has
\* logged in.
Resolve ==
    /\ stage = "chain" /\ Parent = Open
    /\ LET c == Applied(Merged, Profile)
       IN  \/ /\ stage' = "done"
              /\ config' = [provider |-> Named(c), active |-> c[<<"default", "provider">>].is,
                            api_key |-> Key(c),
                            model |-> First(<<Effective(c, Named(c), "model"),
                                              c[<<"default", "model">>]>>),
                            max_turns |-> First(<<Says("cli")[<<"default", "max_turns">>],
                                                  c[<<"default", "max_turns">>]>>),
                            compact |-> [s \in {"marker", "other"} |-> c[<<"compact", s>>]]]
           \/ Key(c) = Open /\ stage' = "failed" /\ UNCHANGED config
    /\ UNCHANGED <<given, visited>>

CfgNext == (\E s \in Slots : Give(s)) \/ StartChain \/ Follow \/ Resolve
CfgSpec == CfgInit /\ [][CfgNext]_cfgVars
-------------------------------------------------------------------------------
CfgTypeOK == /\ given \subseteq Slots /\ stage \in {"edit", "chain", "done", "failed"}
             /\ Range(visited) \subseteq Profiles

Chain(p) == visited # <<>> /\ p \in Range(visited)

\* CLI > profile > project > global (docs/getting-started.md 189), the profile
\* before the one it extends (docs/providers.md 86); a chain of profiles is
\* followed once round at most (config.rs 961-986).
Precedence ==
    /\ IsInjective(visited)
    /\ stage = "done" => config.max_turns =
          First(<<Says("cli")[<<"default", "max_turns">>]>>
                \o [i \in DOMAIN visited |-> Says(visited[i])[<<"default", "max_turns">>]]
                \o <<Says("project")[<<"default", "max_turns">>],
                     Says("global")[<<"default", "max_turns">>]>>)

\* A key of a file is for the provider of its section or for one that stands for
\* it, a key of a profile for the provider that the profile has made active,
\* whatever provider the command line asks for in the end (config.rs 1033-1050).
KeyGoesHome ==
    stage = "done" =>
        LET key  == config.api_key
            Home == {config.provider} \cup IF config.provider = "alias" THEN {"openai"} ELSE {}
        IN  /\ key.by \in Files => key.at \in Home
            /\ key.by \in Profiles => config.active \in Home
            /\ key.by = "env" => key.at \in Home \cup {"default"}
===============================================================================
