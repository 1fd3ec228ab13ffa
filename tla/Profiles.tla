------------------------------ MODULE Profiles ------------------------------
(* config.toml (schema 2) as profile/config.cpp reads it, and the profile it *)
(* selects for the displays that are attached.                               *)
(*                                                                           *)
(* A TOML table is a function from its keys to nodes, a node a record of its *)
(* type and value.  Texts are abstract: a resolution is the pair it parses   *)
(* to, <<>> when it parses to none.  An optional value is a set of at most   *)
(* one element.  Ratios and scales are in hundredths.                        *)
EXTENDS Integers, Sequences, FiniteSets

CONSTANTS MinInt, MaxInt   \* the range of an int

ASSUME IntAssumption == MinInt \in Int /\ MaxInt \in Int

Games == {"genshin", "starrail"}
Priorities == {"realtime", "high", "above_normal", "normal", "below_normal"}

-----------------------------------------------------------------------------
(* What a table may hold: the types of every known key, and the values of    *)
(* those that are restricted further.                                        *)

Sizes == (Nat \ {0}) \X (Nat \ {0})

ProfileTypes ==
    [game |-> {"string"}, fps |-> {"integer"}, resolution |-> {"string"},
     fullscreen |-> {"string"}, persistence |-> {"string"},
     monitor |-> {"integer"}, priority |-> {"string"}, power_save |-> {"boolean"},
     power_save_fps |-> {"integer"}, hotkeys |-> {"boolean"},
     mobile_ui |-> {"boolean"}, dpi_scale |-> {"integer", "float"},
     match |-> {"table"}, exe |-> {"string"}, args |-> {"strings"}]

ProfileRanges ==
    [game |-> Games, fps |-> 10 .. 1000, resolution |-> Sizes,
     fullscreen |-> {"exclusive", "borderless", "windowed"},
     persistence |-> {"session", "persistent"}, monitor |-> 0 .. 63,
     priority |-> Priorities, power_save_fps |-> 1 .. 1000,
     dpi_scale |-> 25 .. 400]

MatchTypes ==
    [auto_select |-> {"boolean"}, device_name |-> {"string"},
     resolution |-> {"string"}, aspect_ratio |-> {"integer", "float"},
     portrait |-> {"boolean"}, priority |-> {"integer"}]

MatchRanges ==
    [resolution |-> Sizes, aspect_ratio |-> 1 .. 1000,
     priority |-> MinInt .. MaxInt]

LauncherTypes ==
    [game |-> {"string"}, profile |-> {"string"}, region |-> {"string"},
     action |-> {"string"}, notifications |-> {"boolean"}]

LauncherRanges ==
    [game |-> Games, region |-> {"auto", "cn", "global"},
     action |-> {"launch", "diagnose"}]

DefaultsTypes == [genshin |-> {"string"}, starrail |-> {"string"}]

RootTypes == [schema |-> {"integer"}, launcher |-> {"table"},
              defaults |-> {"table"}, profiles |-> {"table"}]

(* reject_unknown_keys, require_type and the checks of each value. *)
Accepts(table, types, ranges) ==
    /\ DOMAIN table \subseteq DOMAIN types
    /\ \A key \in DOMAIN table :
          /\ table[key].type \in types[key]
          /\ key \in DOMAIN ranges => table[key].value \in ranges[key]

(* opt_string and its like. *)
Opt(table, key) == IF key \in DOMAIN table THEN {table[key].value} ELSE {}
Or(table, key, default) == IF key \in DOMAIN table THEN table[key].value ELSE default

-----------------------------------------------------------------------------
(* A profile.  parse_v2_profile.                                             *)

ProfileIsValid(body) ==
    /\ Accepts(body, ProfileTypes, ProfileRanges)
    /\ "game" \in DOMAIN body
    /\ \A match \in Opt(body, "match") : Accepts(match, MatchTypes, MatchRanges)

(* A table of predicates makes a profile automatic unless it says otherwise. *)
MatchPolicy(body) ==
    LET match == Or(body, "match", <<>>)
    IN  [auto_select |-> "match" \in DOMAIN body /\ Or(match, "auto_select", TRUE),
         device_name |-> Opt(match, "device_name"),
         resolution |-> Opt(match, "resolution"),
         aspect_ratio |-> Opt(match, "aspect_ratio"),
         portrait |-> Opt(match, "portrait"),
         priority |-> Or(match, "priority", 0)]

ParsedProfile(id, body) ==
    [id |-> id, game |-> body.game.value,
     resolution |-> Opt(body, "resolution"),
     fullscreen |-> Opt(body, "fullscreen"),
     persistence |-> Or(body, "persistence", "session"),
     monitor |-> Opt(body, "monitor"),
     fps |-> Or(body, "fps", 120),
     power_save |-> Or(body, "power_save", FALSE),
     power_save_fps |-> Or(body, "power_save_fps", 30),
     priority |-> Or(body, "priority", "normal"),
     hotkeys |-> Or(body, "hotkeys", FALSE),
     mobile_ui |-> Or(body, "mobile_ui", FALSE),
     dpi_scale |-> Opt(body, "dpi_scale"),
     match |-> MatchPolicy(body),
     executable |-> Opt(body, "exe"),
     arguments |-> Or(body, "args", <<>>)]

(* parse_v2_config_root.  The value of the table of profiles is the sequence *)
(* of its keys and nodes, in the order toml++ keeps them.                    *)
RootIsValid(root) ==
    /\ Accepts(root, RootTypes, <<>>)
    /\ {"launcher", "profiles"} \subseteq DOMAIN root
    /\ Accepts(root.launcher.value, LauncherTypes, LauncherRanges)
    /\ \A defaults \in Opt(root, "defaults") : Accepts(defaults, DefaultsTypes, <<>>)
    /\ root.profiles.value # <<>>
    /\ \A n \in DOMAIN root.profiles.value :
          LET node == root.profiles.value[n].node
          IN  node.type = "table" /\ ProfileIsValid(node.value)

ParsedConfig(root) ==
    LET launcher == root.launcher.value
        defaults == Or(root, "defaults", <<>>)
        entries == root.profiles.value
    IN  [game |-> Or(launcher, "game", "genshin"),
         profile |-> Or(launcher, "profile", "auto"),
         action |-> Or(launcher, "action", "launch"),
         defaults |-> [genshin |-> Or(defaults, "genshin", "desktop"),
                       starrail |-> Or(defaults, "starrail", "starrail_desktop")],
         profiles |-> [n \in DOMAIN entries |->
                          ParsedProfile(entries[n].id, entries[n].node.value)]]

(* find_profile: the first with this id. *)
HasProfile(config, id) == \E n \in DOMAIN config.profiles : config.profiles[n].id = id

FindProfile(config, id) ==
    config.profiles[CHOOSE n \in DOMAIN config.profiles :
        /\ config.profiles[n].id = id
        /\ \A m \in 1 .. n - 1 : config.profiles[m].id # id]

-----------------------------------------------------------------------------
(* The displays.  A display has a name, the mode it reports (optional), the  *)
(* size of its rectangle and whether it is attached.                         *)

NoSize == <<0, 0>>

(* The facts resolve_auto_profile gathers about one display. *)
ResolutionOf(display) ==
    IF display.mode # {} THEN CHOOSE size \in display.mode : TRUE
    ELSE IF display.rectangle \in Sizes THEN display.rectangle
    ELSE NoSize

IsPortrait(display) == ResolutionOf(display)[2] > ResolutionOf(display)[1]

Distance(a, b) == IF a < b THEN b - a ELSE a - b

(* aspect_close: the ratios are positive and less than a hundredth apart.    *)
AspectClose(hundredths, display) ==
    LET size == ResolutionOf(display)
    IN  /\ size \in Sizes
        /\ Distance(hundredths * size[2], 100 * size[1]) < size[2]

(* match_score: -1 unless every declared predicate holds, and one is.        *)
MatchScore(match, display) ==
    LET size == ResolutionOf(display)
    IN  IF \/ \E name \in match.device_name : name # display.device_name
           \/ \E wanted \in match.resolution : wanted # size
           \/ \E ratio \in match.aspect_ratio : ~AspectClose(ratio, display)
           \/ \E portrait \in match.portrait : portrait # IsPortrait(display)
           \/ /\ match.device_name = {} /\ match.resolution = {}
              /\ match.aspect_ratio = {} /\ match.portrait = {}
        THEN -1
        ELSE 1000 * Cardinality(match.device_name) + 100 * Cardinality(match.resolution)
             + 10 * Cardinality(match.aspect_ratio) + Cardinality(match.portrait)

(* The best score of a profile over the displays that are attached.          *)
Specificity(profile, displays) ==
    LET scores == {-1} \cup {MatchScore(profile.match, d) :
                               d \in {e \in displays : e.is_attached}}
    IN  CHOOSE s \in scores : \A t \in scores : t <= s

-----------------------------------------------------------------------------
(* The loop of resolve_auto_profile: the best profile so far, those tied     *)
(* with it and the fallback.                                                 *)

NoChoice == [specificity |-> -1, priority |-> 0, tied |-> <<>>, fallback |-> {}]

FallbackId(config, game) == config.defaults[game]

(* Mutant: a better profile stays tied with the ones it outranks. *)
RankedWithAll(choice, profile, specificity) ==
    IF \/ choice.tied = <<>>
       \/ specificity > choice.specificity
       \/ specificity = choice.specificity /\ profile.match.priority >= choice.priority
    THEN [choice EXCEPT !.specificity = specificity,
                        !.priority = profile.match.priority,
                        !.tied = Append(@, profile)]
    ELSE choice

Ranked(choice, profile, specificity) ==
    IF \/ choice.tied = <<>>
       \/ specificity > choice.specificity
       \/ specificity = choice.specificity /\ profile.match.priority > choice.priority
    THEN [choice EXCEPT !.specificity = specificity,
                        !.priority = profile.match.priority,
                        !.tied = <<profile>>]
    ELSE IF specificity = choice.specificity /\ profile.match.priority = choice.priority
    THEN [choice EXCEPT !.tied = Append(@, profile)]
    ELSE choice

Considered(choice, config, game, profile, displays) ==
    LET seen == IF profile.id = FallbackId(config, game)
                THEN [choice EXCEPT !.fallback = {profile}] ELSE choice
        specificity == Specificity(profile, displays)
    IN  IF profile.game # game THEN choice
        ELSE IF profile.match.auto_select /\ specificity >= 0
        THEN Ranked(seen, profile, specificity)
        ELSE seen

(* What it ends in: the profile, {} when ambiguous or none.                  *)
Decided(choice) ==
    IF Len(choice.tied) > 1 THEN {}
    ELSE IF choice.tied # <<>> THEN {choice.tied[1]}
    ELSE choice.fallback
=============================================================================
