------------------------------ MODULE MCLaunch ------------------------------
(* Launch for TLC.  The worlds are of three kinds: one profile with every    *)
(* combination of features, on images in which signatures are missing; two   *)
(* or three automatic profiles on several displays; and one plain profile on *)
(* every short section, for several tables of patterns.  Bytes are 0 .. 3    *)
(* and a displacement is one byte wide.                                      *)
EXTENDS Launch, TLC

w == Wild
MCMinInt == -9

Str(v) == [type |-> "string", value |-> v]
Num(v) == [type |-> "integer", value |-> v]
Flag(v) == [type |-> "boolean", value |-> v]
Tab(v) == [type |-> "table", value |-> v]
Strings(v) == [type |-> "strings", value |-> v]

(* Every table of a set, with and without each of the nodes under a key. *)
With(tables, key, nodes) == tables \cup {t @@ (key :> n) : t \in tables, n \in nodes}

Root(launcher, entries) ==
    [schema |-> Num(2), launcher |-> Tab(launcher),
     profiles |-> [type |-> "table", value |-> entries]]

Entry(id, body) == [id |-> id, node |-> Tab(body)]

Launcher(game, id) == [game |-> Str(game), profile |-> Str(id)]

-----------------------------------------------------------------------------
(* Images.  Each signature is three bytes, the last its displacement.        *)

Rip(disp) == [strategy |-> "RipRelative", disp |-> disp, skip |-> 1]
Raw(disp) == [strategy |-> "RawInt32At", disp |-> disp, skip |-> 0]
Disp(disp) == [strategy |-> "FieldDisp", disp |-> disp, skip |-> 0]
Direct == [strategy |-> "Direct", disp |-> 0, skip |-> 0]

Sign(id, section, pattern, resolvers) ==
    [id |-> id, section |-> section, pattern |-> pattern, resolvers |-> resolvers]

GenshinTable ==
    << Sign("genshin.fps.5.5", ".text", <<1, 0, w>>, <<Disp(2)>>),
       Sign("genshin.fps.old", ".text", <<2, 0, w>>, <<Disp(2)>>),
       Sign("genshin.dpi", "il2cpp", <<1, 1, w>>, <<Rip(2)>>),
       Sign("genshin.mobileui.v1", "il2cpp", <<2, 1, w>>, <<Rip(2), Raw(2), Rip(2), Rip(3)>>),
       Sign("genshin.mobileui.v2", "il2cpp", <<2, 2, w>>, <<Rip(2), Raw(2), Rip(2), Rip(2)>>),
       Sign("genshin.mobileui.input", "il2cpp", <<3, 1, w>>, <<Raw(2)>>),
       Sign("genshin.unhooktime", "il2cpp", <<3, 2, w>>, <<Disp(2), Rip(2)>>) >>

StarRailTable ==
    << Sign("starrail.fps", ".text", <<1, 0, w>>, <<Rip(2)>>),
       Sign("starrail.fpsmovflip", ".text", <<3, 0, w>>, <<Rip(2), Disp(1)>>) >>

Tables == [genshin |-> GenshinTable, starrail |-> StarRailTable]

Held(address, bytes) ==
    [virtual |-> Len(bytes), raw |-> Len(bytes) + 1, address |-> address, memory |-> bytes]

Main(text, il2cpp) == (".text" :> Held(5, text)) @@ ("il2cpp" :> Held(40, il2cpp))

AllText == <<1, 0, 3, 2, 0, 2, 3, 0, 0>>   \* the flip writes the fps variable
OtherText == <<1, 0, 3, 2, 0, 2, 3, 0, 3>> \* it writes another one
OldText == <<2, 0, 2>>
AllIl2cpp == <<1, 1, 1, 2, 1, 1, 3, 1, 1, 3, 2, 3>>
NoDpi == <<2, 2, 1, 3, 1, 1, 3, 2, 3>>
Cut == <<1, 1, 1, 3, 1, 1, 3, 2, 3, 2, 1, 1>>  \* v1 found, one field cut off

Install(old, modules, settings) == [old |-> old, modules |-> modules, settings |-> settings]

Installs ==
    {Install(FALSE, <<Main(AllText, AllIl2cpp)>>, TRUE),
     Install(FALSE, <<Main(AllText, AllIl2cpp)>>, FALSE),
     Install(FALSE, <<Main(OtherText, NoDpi)>>, TRUE),
     Install(FALSE, <<Main(<<0>>, Cut)>>, TRUE),
     Install(TRUE, <<Main(OldText, <<>>), Main(<<>>, Cut)>>, TRUE)}

-----------------------------------------------------------------------------
(* One profile: its features ...                                             *)

Bodies(game) ==
    LET r == With({"game" :> Str(game)}, "resolution", {Str(<<5, 4>>)})
        f == With(r, "fullscreen", {Str("windowed"), Str("exclusive"), Str("borderless")})
        p == With(f, "persistence", {Str("persistent")})
        d == With(p, "dpi_scale", {Num(100)})
        u == With(d, "mobile_ui", {Flag(TRUE)})
        s == With(u, "power_save", {Flag(TRUE)})
        h == With(s, "hotkeys", {Flag(TRUE)})
    IN  With(h, "args", {Strings(<<"-x">>)})
        \cup With(r, "monitor", {Num(1)})
        \cup With(r, "args", {Strings(<<"-x", "-screen-width">>)})
        \cup {("game" :> Str(game)) @@ ("fps" :> Num(60)) @@ ("power_save" :> Flag(TRUE))
                @@ ("power_save_fps" :> Num(5))}

(* ... and what no profile may hold.  A node of a wrong type has the value   *)
(* of the right one.                                                         *)
BadNodes ==
    {"fps" :> Num(9), "fps" :> Num(1001), "fps" :> Str(60), "dpi_scale" :> Num(24),
     "resolution" :> Str(<<>>), "resolution" :> Str(<<0, 4>>), "monitor" :> Num(64),
     "fulscreen" :> Str("windowed"), "fullscreen" :> Str("full"),
     "match" :> Tab("priority" :> Num(MaxInt + 1)), "match" :> Tab("device" :> Str("A")),
     "match" :> Tab("portrait" :> Str(TRUE)), "game" :> Str("other")}

FeatureDocuments ==
    {Root(Launcher(game, "p"), << Entry("p", body) >>) :
        game \in Games, body \in Bodies("genshin") \cup Bodies("starrail")}
    \cup {Root(Launcher("genshin", "p"), << Entry("p", b @@ ("game" :> Str("genshin"))) >>) :
             b \in BadNodes}
    \cup {Root(Launcher("genshin", id), << Entry("desktop", "game" :> Str("genshin")) >>) :
             id \in {"p", ""}}
    \cup {Root(Launcher("genshin", "p"), << Entry("p", <<>>) >>),
          Root(Launcher("genshin", "p"), <<>>),
          Root("action" :> Str("diagnose"), << Entry("p", "game" :> Str("genshin")) >>)}

FeatureWorlds ==
    [document : FeatureDocuments, displays : {{}}, build : {Tables}, install : Installs]

-----------------------------------------------------------------------------
(* Automatic profiles.  They ask for a monitor, so that no launch goes on    *)
(* past the choice.                                                          *)

Predicates ==
    LET d == With({<<>>}, "device_name", {Str("A"), Str("B")})
        r == With(d, "resolution", {Str(<<4, 5>>)})
        a == With(r, "aspect_ratio", {Num(80)})
        o == With(a, "portrait", {Flag(TRUE)})
    IN  With(o, "priority", {Num(1)})

Automatic(game, match) ==
    ("game" :> Str(game)) @@ ("monitor" :> Num(0)) @@ ("match" :> Tab(match))

Thirds ==
    {"game" :> Str("genshin"), Automatic("genshin", "portrait" :> Flag(FALSE)),
     Automatic("starrail", "device_name" :> Str("A")),
     Automatic("genshin", ("portrait" :> Flag(TRUE)) @@ ("auto_select" :> Flag(FALSE)))}

ChoiceDocuments ==
    {Root("game" :> Str("genshin"),
          << Entry("a", Automatic("genshin", p)), Entry("b", Automatic("genshin", q)),
             Entry("desktop", third) >>) :
        p \in Predicates, q \in {m \in Predicates : "aspect_ratio" \notin DOMAIN m},
        third \in Thirds}

Display(name, mode, rectangle, attached) ==
    [device_name |-> name, mode |-> mode, rectangle |-> rectangle, is_attached |-> attached]

DisplaySets ==
    {{Display("A", {<<4, 5>>}, <<4, 5>>, TRUE)},
     {Display("A", {<<5, 4>>}, <<4, 5>>, TRUE), Display("B", {}, <<4, 5>>, TRUE)},
     {Display("A", {<<4, 5>>}, <<4, 5>>, FALSE), Display("B", {}, <<0, 0>>, TRUE)}}

ChoiceWorlds ==
    [document : ChoiceDocuments, displays : DisplaySets, build : {Tables},
     install : {Install(FALSE, <<Main(AllText, AllIl2cpp)>>, TRUE)}]

-----------------------------------------------------------------------------
(* Sections and patterns.                                                    *)

Patterns ==
    { <<1>>, <<1, 1>>, <<w, 1>>, <<1, w, 1, 2>>, <<1, 2, w, 1>>, <<2, w, w>> }

ScanTables ==
    {[genshin |-> <<>>,
      starrail |-> << Sign("starrail.fps", ".text", p, <<Rip(1)>>),
                      Sign("starrail.fpsmovflip", ".text", <<w, 2, 1>>, <<Direct, Disp(1)>>) >>] :
        p \in Patterns}

BadTables ==
    {[genshin |-> <<>>, starrail |-> << Sign("starrail.fps", ".text", p, r) >>] :
        p \in { <<w, w>>, <<>>, <<1, Bad>> }, r \in { <<Rip(1)>> }}

Regions == UNION {[1 .. n -> 1 .. 2] : n \in 0 .. 7}

OddSections ==
    {[virtual |-> 0, raw |-> 2, address |-> 5, memory |-> <<1, 2, 1>>],
     [virtual |-> MaxSection + 1, raw |-> 2, address |-> 5, memory |-> <<1, 2, 1>>],
     [virtual |-> 4, raw |-> 2, address |-> 5, memory |-> <<1, 2, 1>>],
     [virtual |-> 3, raw |-> 3, address |-> 0, memory |-> <<1, 2, 3>>]}

Plain == Root(Launcher("starrail", "p"), << Entry("p", "game" :> Str("starrail")) >>)

TextOnly(section) == Install(FALSE, << (".text" :> section) >>, TRUE)

ScanWorlds ==
    [document : {Plain}, displays : {{}}, build : ScanTables,
     install : {TextOnly(Held(5, bytes)) : bytes \in Regions}
               \cup {TextOnly(section) : section \in OddSections}]
    \cup [document : {Plain}, displays : {{}}, build : BadTables,
          install : {TextOnly(Held(5, <<1, 2>>))}]

MCWorlds == FeatureWorlds \cup ChoiceWorlds \cup ScanWorlds
=============================================================================
