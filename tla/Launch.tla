------------------------------- MODULE Launch -------------------------------
(* From config.toml to a patched game: the profile is read and chosen        *)
(* (Profiles, app/launch_service.cpp), the game's adapter says whether it    *)
(* can be honoured and with which arguments (game/adapter.cpp,               *)
(* game/launch/launch_plan.cpp, game/genshin, game/starrail), the modules    *)
(* are scanned (Scanner) and the patches planned, in the order of            *)
(* SessionEngine::run_after_preflight.  What a failing session undoes is     *)
(* Session's subject: here it ends in "refused".                             *)
EXTENDS Profiles, Scanner

CONSTANTS Worlds   \* the documents, displays, builds and installs to start in

VARIABLES
    stage,          \* program counter
    document,       \* config.toml
    displays,       \* what is attached to the machine
    build,          \* the signature tables of this build, by game
    install,        \* the game: its age, its modules, whether it has settings
    config,         \* the parsed configuration
    at, choice,     \* the loop of resolve_auto_profile
    profile,        \* the profile that runs: {} until it is resolved
    arguments,      \* the game's argument list
    guarded,        \* persistent_snapshot has a value
    plan,           \* the patch plan: a set of operations
    controller      \* what the RuntimeController was started with

world == <<document, displays, build, install>>
launchVars == <<stage, config, at, choice, profile, arguments, guarded, plan,
                controller>>
vars == <<world, launchVars, scanVars>>

(* What a machine can start with: a document whose lists are sequences and   *)
(* whose tables hold no key twice, which toml++ would refuse to parse;       *)
(* tables of signatures; and modules whose memory is made of bytes.          *)
IsList(list) == list \in Seq({list[n] : n \in DOMAIN list})

ASSUME WorldsAssumption ==
    \A w \in Worlds :
        /\ RootIsValid(w.document) =>
              LET entries == w.document.profiles.value
              IN  /\ IsList(entries)
                  /\ \A m, n \in DOMAIN entries : entries[m].id = entries[n].id => m = n
                  /\ \A n \in DOMAIN entries :
                        \A tokens \in Opt(entries[n].node.value, "args") : IsList(tokens)
        /\ \A game \in Games : w.build[game] \in Seq(SignatureRecords)
        /\ \A n \in 1 .. (IF w.install.old THEN 2 ELSE 1) :
              \A name \in DOMAIN w.install.modules[n] :
                 w.install.modules[n][name] \in MemorySections

Stages == {"config", "resolve", "choose", "validate", "arguments", "modules",
           "scan", "plan", "running", "refused", "diagnosing"}

Profile == CHOOSE p \in profile : TRUE
Game == Profile.game

Init ==
    /\ \E w \in Worlds :
          /\ document = w.document /\ displays = w.displays
          /\ build = w.build /\ install = w.install
    /\ stage = "config" /\ config = <<>> /\ at = 1 /\ choice = NoChoice
    /\ profile = {} /\ arguments = <<>> /\ guarded = FALSE
    /\ plan = {} /\ controller = {}
    /\ ScanInit

-----------------------------------------------------------------------------
(* The profile.                                                              *)

Refuse == stage' = "refused" /\ UNCHANGED <<config, at, choice, profile, arguments,
                                            guarded, plan, controller>>

(* read_config, and what application_main makes of the action. *)
ReadConfig ==
    /\ stage = "config"
    /\ IF RootIsValid(document)
       THEN /\ config' = ParsedConfig(document)
            /\ stage' = IF config'.action = "launch" THEN "resolve" ELSE "diagnosing"
            /\ UNCHANGED <<at, choice, profile, arguments, guarded, plan, controller>>
       ELSE Refuse
    /\ UNCHANGED <<world, scanVars>>

(* resolve_launch's last check: the profile is one of the launcher's game.   *)
Selects(chosen) ==
    IF \E p \in chosen : p.game = config.game
    THEN /\ profile' = chosen /\ stage' = "validate"
         /\ UNCHANGED <<config, at, choice, arguments, guarded, plan, controller>>
    ELSE Refuse

Named(id) == IF id # "" /\ HasProfile(config, id) THEN {FindProfile(config, id)} ELSE {}

(* resolve_launch: "auto", the game's default or the profile that is named. *)
ResolveLaunch ==
    /\ stage = "resolve"
    /\ IF config.profile = "auto"
       THEN stage' = "choose" /\ UNCHANGED <<config, at, choice, profile, arguments,
                                             guarded, plan, controller>>
       ELSE Selects(Named(IF config.profile = "" THEN FallbackId(config, config.game)
                          ELSE config.profile))
    /\ UNCHANGED <<world, scanVars>>

Consider ==
    /\ stage = "choose" /\ at <= Len(config.profiles)
    /\ choice' = Considered(choice, config, config.game, config.profiles[at], displays)
    /\ at' = at + 1
    /\ UNCHANGED <<world, stage, config, profile, arguments, guarded, plan,
                   controller, scanVars>>

Decide ==
    /\ stage = "choose" /\ at > Len(config.profiles)
    /\ Selects(Decided(choice))
    /\ UNCHANGED <<world, scanVars>>

-----------------------------------------------------------------------------
(* The adapters' promises.                                                   *)

DrivesRender(p) == p.resolution # {}

(* protect_persistent_state of run_after_preflight. *)
IsProtected(p) == DrivesRender(p) /\ p.persistence = "session"

(* Mutant: the scale of the interface is not asked for. *)
RequiredOfRendering(p) ==
    {"FpsUnlock"}
    \cup (IF DrivesRender(p) THEN {"CustomResolution"} ELSE {})
    \cup (IF DrivesRender(p) /\ p.fullscreen # {} THEN {"FullscreenMode"} ELSE {})
    \cup (IF p.monitor # {} THEN {"MonitorSelection"} ELSE {})
    \cup (IF p.mobile_ui THEN {"MobileUi"} ELSE {})

(* validate_profile: the capabilities a profile exercises ...                *)
Required(p) ==
    {"FpsUnlock"}
    \cup (IF DrivesRender(p) THEN {"CustomResolution"} ELSE {})
    \cup (IF DrivesRender(p) /\ p.fullscreen # {} THEN {"FullscreenMode"} ELSE {})
    \cup (IF p.monitor # {} THEN {"MonitorSelection"} ELSE {})
    \cup (IF p.mobile_ui THEN {"MobileUi"} ELSE {})
    \cup (IF p.dpi_scale # {} THEN {"CustomDpi"} ELSE {})
    \cup (IF p.power_save THEN {"PowerSave"} ELSE {})
    \cup (IF IsProtected(p) THEN {"PersistentStateGuard"} ELSE {})

(* ... and those GenshinAdapter and StarRailAdapter report as Supported.     *)
CommonCapabilities(p) ==
    {"FpsUnlock"}
    \cup (IF DrivesRender(p) THEN {"CustomResolution"} ELSE {})
    \cup (IF DrivesRender(p) /\ p.fullscreen \in {{"windowed"}, {"exclusive"}}
          THEN {"FullscreenMode"} ELSE {})
    \cup (IF p.power_save THEN {"PowerSave"} ELSE {})
    \cup (IF IsProtected(p) THEN {"PersistentStateGuard"} ELSE {})

GenshinCapabilities(p) ==
    CommonCapabilities(p) \cup {"MobileUi"}
    \cup (IF p.dpi_scale # {} THEN {"CustomDpi"} ELSE {})

StarRailCapabilities(p) == CommonCapabilities(p)

Capabilities(p) ==
    IF p.game = "genshin" THEN GenshinCapabilities(p) ELSE StarRailCapabilities(p)

(* module_requirements: the sections to copy, one set per module.  A Star    *)
(* Rail profile with the mobile UI, which needs a second module, never gets  *)
(* past validate_profile.                                                    *)
Requirements ==
    IF Game = "genshin" /\ install.old
    THEN << {".text"}, {"il2cpp"} >>
    ELSE IF Game = "genshin" THEN << {".text", "il2cpp"} >>
    ELSE << {".text"} >>

(* run_after_preflight up to the journal: the F0 gate, then the snapshot of  *)
(* the game's settings, of which there must be some.                         *)
Validate ==
    /\ stage = "validate"
    /\ IF /\ Required(Profile) \subseteq Capabilities(Profile)
          /\ IsProtected(Profile) => install.settings
       THEN /\ stage' = "arguments" /\ guarded' = IsProtected(Profile)
            /\ UNCHANGED <<config, at, choice, profile, arguments, plan, controller>>
       ELSE Refuse
    /\ UNCHANGED <<world, scanVars>>

-----------------------------------------------------------------------------
(* The process plan.  An argument is a pair of a flag and its value: a       *)
(* passthrough token is its own flag.                                        *)

ManagedFlags == {"-screen-width", "-screen-height", "-screen-fullscreen"}

(* build_render_arguments: "borderless" has none.                            *)
Expressible(p) == p.fullscreen # {"borderless"}

RenderArguments(p) ==
    (IF p.resolution = {} THEN <<>>
     ELSE LET size == CHOOSE s \in p.resolution : TRUE
          IN  << <<"-screen-width", size[1]>>, <<"-screen-height", size[2]>> >>)
    \o (IF p.fullscreen = {} THEN <<>>
        ELSE << <<"-screen-fullscreen", IF p.fullscreen = {"windowed"} THEN 0 ELSE 1>> >>)

(* merge_passthrough refuses what the profile manages and keeps the rest.    *)
Passthrough(p) == [n \in DOMAIN p.arguments |-> <<p.arguments[n], 0>>]
Conflicts(p) == \E n \in DOMAIN p.arguments : p.arguments[n] \in ManagedFlags

BuildLaunchPlan ==
    /\ stage = "arguments"
    /\ IF Expressible(Profile) /\ ~Conflicts(Profile)
       THEN /\ arguments' = RenderArguments(Profile) \o Passthrough(Profile)
            /\ stage' = "modules"
            /\ UNCHANGED <<config, at, choice, profile, guarded, plan, controller>>
       ELSE Refuse
    /\ UNCHANGED <<world, scanVars>>

(* The game is there, suspended, and its modules are copied. *)
SnapshotModules ==
    /\ stage = "modules"
    /\ LET needs == Requirements
       IN  IF \A n \in DOMAIN needs : CanSnapshot(install.modules[n], needs[n])
           THEN /\ stage' = "scan"
                /\ BeginScan(build[Game],
                             [n \in DOMAIN needs |-> Snapshot(install.modules[n], needs[n])])
                /\ UNCHANGED <<config, at, choice, profile, arguments, guarded,
                               plan, controller>>
           ELSE Refuse /\ UNCHANGED scanVars
    /\ UNCHANGED world

Scans == stage = "scan" /\ ScanNext /\ UNCHANGED <<world, launchVars>>

ScanReturns ==
    /\ stage = "scan" /\ scan \in {"done", "refused"}
    /\ IF scan = "done"
       THEN stage' = "plan" /\ UNCHANGED <<config, at, choice, profile, arguments,
                                           guarded, plan, controller>>
       ELSE Refuse
    /\ UNCHANGED <<world, scanVars>>

-----------------------------------------------------------------------------
(* The patch plan.                                                           *)

Fields(id) == FindResolved(resolved, id).fields
Found(id) == IsResolved(resolved, id)

(* GenshinAdapter: the newest fps signature that resolved is redirected. *)
FpsIds == <<"genshin.fps.5.5", "genshin.fps.5.4", "genshin.fps.3.7-5.3",
            "genshin.fps.old">>
FpsFound == {n \in DOMAIN FpsIds : Found(FpsIds[n])}
MobileUiFound == {id \in {"genshin.mobileui.v1", "genshin.mobileui.v2"} : Found(id)}

(* resolve_fields of genshin/mobile_ui.cpp, which prefers v1. *)
CanDetour ==
    /\ MobileUiFound # {} /\ Found("genshin.mobileui.input")
    /\ Found("genshin.unhooktime")
    /\ LET variant == IF "genshin.mobileui.v1" \in MobileUiFound
                      THEN "genshin.mobileui.v1" ELSE "genshin.mobileui.v2"
       IN  Len(Fields(variant)) >= 4
    /\ Len(Fields("genshin.unhooktime")) >= 2

CanPatchGenshin(p) ==
    /\ FpsFound # {}
    /\ p.dpi_scale # {} => Found("genshin.dpi")
    /\ p.mobile_ui => CanDetour

GenshinPlan(p) ==
    LET newest == CHOOSE n \in FpsFound : \A m \in FpsFound : n <= m
    IN  {[op |-> "redirectFps", address |-> Fields(FpsIds[newest])[1], value |-> p.fps]}
        \cup {[op |-> "dpi", address |-> Fields("genshin.dpi")[1], value |-> scale] :
                scale \in p.dpi_scale}
        \cup (IF ~p.mobile_ui THEN {}
              ELSE {[op |-> "detour", address |-> Fields("genshin.unhooktime")[2],
                     value |-> 0]})

(* StarRailAdapter: the fps variable is written; the instruction that writes *)
(* it is flipped if it is found and writes that same variable.               *)
CanPatchStarRail == Found("starrail.fps")

Flips == /\ Found("starrail.fpsmovflip")
         /\ Fields("starrail.fpsmovflip")[1] = Fields("starrail.fps")[1]

StarRailPlan(p) ==
    {[op |-> "writeFps", address |-> Fields("starrail.fps")[1], value |-> p.fps]}
    \cup (IF Flips THEN {[op |-> "flip", address |-> Fields("starrail.fpsmovflip")[2],
                          value |-> 0]}
          ELSE {})

BuildPatchPlan ==
    /\ stage = "plan" /\ plan = {}
    /\ IF IF Game = "genshin" THEN CanPatchGenshin(Profile) ELSE CanPatchStarRail
       THEN /\ plan' = IF Game = "genshin" THEN GenshinPlan(Profile)
                       ELSE StarRailPlan(Profile)
            /\ UNCHANGED <<stage, config, at, choice, profile, arguments, guarded,
                           controller>>
       ELSE Refuse
    /\ UNCHANGED <<world, scanVars>>

(* The patches are applied, the game resumes and, if the profile needs one,  *)
(* the RuntimeController is started.                                         *)
StartRuntime ==
    /\ stage = "plan" /\ plan # {}
    /\ stage' = "running"
    /\ controller' =
          IF Profile.power_save \/ Profile.hotkeys
          THEN {[power_save |-> Profile.power_save, hotkeys |-> Profile.hotkeys,
                 profile_fps |-> Profile.fps, power_save_fps |-> Profile.power_save_fps]}
          ELSE {}
    /\ UNCHANGED <<world, config, at, choice, profile, arguments, guarded, plan,
                   scanVars>>

Next ==
    \/ ReadConfig \/ ResolveLaunch \/ Consider \/ Decide \/ Validate
    \/ BuildLaunchPlan \/ SnapshotModules \/ Scans \/ ScanReturns
    \/ BuildPatchPlan \/ StartRuntime

Spec == Init /\ [][Next]_vars

-----------------------------------------------------------------------------
(* Properties.                                                               *)

(* Every variable holds a value of its type; the sweep's candidates lie in   *)
(* its window, and no byte is read past the end of a copied section.         *)
LaunchTypeOK ==
    /\ stage \in Stages /\ scan \in ScanStates
    /\ Cardinality(profile) <= 1 /\ Cardinality(controller) <= 1
    /\ stage \in {"config", "resolve", "choose", "diagnosing"} => profile = {}
    /\ stage \in {"validate", "arguments", "modules", "scan", "plan", "running"} =>
          \E p \in profile : p.game = config.game
    /\ plan # {} => stage \in {"plan", "running"}
    /\ guarded \in BOOLEAN
    /\ sig \in 1 .. Len(signatures) + 1 /\ snap \in 1 .. Len(snapshots) + 1
    /\ Len(resolved) = sig - 1
    /\ scan = "sweep" => hits \subseteq First .. End - 1
    /\ ReadsStayInside

(* The automatic choice is the one the tiers of the design give: a profile   *)
(* whose every predicate holds on one attached display, more specific than   *)
(* any other such profile (identity before geometry, tier by tier) or, as    *)
(* specific, of a higher priority; the default only if no profile fits; and  *)
(* the launch is refused only if two are equally good or there is none       *)
(* (resolve_auto_profile).                                                   *)
Tiers == <<"device_name", "resolution", "aspect_ratio", "portrait">>

Fits(p, display) ==
    /\ display.is_attached
    /\ \E t \in DOMAIN Tiers : p.match[Tiers[t]] # {}
    /\ p.match.device_name \subseteq {display.device_name}
    /\ p.match.resolution \subseteq {ResolutionOf(display)}
    /\ p.match.portrait \subseteq {IsPortrait(display)}
    /\ \A ratio \in p.match.aspect_ratio : AspectClose(ratio, display)

Eligible ==
    {p \in {config.profiles[n] : n \in DOMAIN config.profiles} :
        /\ p.game = config.game /\ p.match.auto_select
        /\ \E display \in displays : Fits(p, display)}

MoreSpecific(p, q) ==
    \E t \in DOMAIN Tiers :
        /\ p.match[Tiers[t]] # {} /\ q.match[Tiers[t]] = {}
        /\ \A s \in 1 .. t - 1 : p.match[Tiers[s]] = {} <=> q.match[Tiers[s]] = {}

Preferred(p, q) ==
    \/ MoreSpecific(p, q)
    \/ ~MoreSpecific(q, p) /\ p.match.priority > q.match.priority

Defaults == {p \in {config.profiles[n] : n \in DOMAIN config.profiles} :
                p.id = FallbackId(config, config.game)}

ChoiceIsUnambiguous ==
    (stage \notin {"config", "diagnosing", "resolve", "choose"} /\ config # <<>>
        /\ config.profile = "auto") =>
    IF profile # {}
    THEN \/ /\ Profile \in Eligible
            /\ \A other \in Eligible \ {Profile} : Preferred(Profile, other)
         \/ Eligible = {} /\ Profile \in Defaults
    ELSE \/ \E p, q \in Eligible :
               /\ p # q /\ ~Preferred(p, q) /\ ~Preferred(q, p)
               /\ \A other \in Eligible : ~Preferred(other, p)
         \/ /\ Eligible = {}
            /\ \A p \in Defaults : p.game # config.game

(* "Nothing in the session flow may silently ignore a configured feature"    *)
(* (domain/capability.hpp): once the game runs, everything the profile's     *)
(* table asks for is in the arguments, the patches, the guard or the         *)
(* controller.                                                               *)
Body == document.profiles.value[CHOOSE n \in DOMAIN document.profiles.value :
            document.profiles.value[n].id = Profile.id].node.value
Asked(key) == Opt(Body, key)
Passed == {arguments[n] : n \in DOMAIN arguments}
Patched(op) == {o.value : o \in {x \in plan : x.op = op}}

NoFeatureIsDropped ==
    stage = "running" =>
    /\ \A size \in Asked("resolution") :
          /\ <<"-screen-width", size[1]>> \in Passed
          /\ <<"-screen-height", size[2]>> \in Passed
          /\ Asked("persistence") # {"persistent"} => guarded
    /\ \A mode \in Asked("fullscreen") :
          \E f \in {0, 1} : /\ <<"-screen-fullscreen", f>> \in Passed
                            /\ mode = (IF f = 0 THEN "windowed" ELSE "exclusive")
    /\ Asked("monitor") = {}
    /\ \A tokens \in Asked("args") :
          \E n \in 0 .. Len(arguments) :
              /\ n + Len(tokens) = Len(arguments)
              /\ \A k \in DOMAIN tokens : arguments[n + k][1] = tokens[k]
    /\ Asked("fps") \subseteq Patched("redirectFps") \cup Patched("writeFps")
    /\ Asked("dpi_scale") \subseteq Patched("dpi")
    /\ Asked("mobile_ui") = {TRUE} => Patched("detour") # {}
    /\ Asked("power_save") = {TRUE} =>
          \E c \in controller : c.power_save /\ Asked("power_save_fps") \subseteq {c.power_save_fps}
    /\ Asked("hotkeys") = {TRUE} => \E c \in controller : c.hotkeys

(* What the architecture says of every session: the game's own display       *)
(* settings are snapshotted before the start and restored after the exit     *)
(* (docs/architecture.md), when an argument of the launcher changes them.    *)
DisplayChangesAreGuarded ==
    (stage = "running" /\ Profile.persistence = "session"
        /\ \E argument \in Passed : argument[1] \in ManagedFlags) => guarded
=============================================================================
