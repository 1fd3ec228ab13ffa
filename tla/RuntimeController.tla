-------------------------- MODULE RuntimeController --------------------------
(***************************************************************************)
(* RuntimeController while the game runs: the thread that calls start() and  *)
(* stop(), the foreground thread with its hook and the hotkey thread, which  *)
(* share current_fps_ and write the game's frame rate cell, each through its *)
(* own calls. The user changes windows and presses keys at any time.         *)
(*                                                                          *)
(* src/src/runtime/runtime_controller.cpp and runtime_controller.hpp         *)
(***************************************************************************)
EXTENDS Integers, Sequences

CONSTANTS
    Configs,    \* the profiles the session may run
    MaxSwitches,\* bound: how often the foreground window changes
    MaxKeys,    \* bound: how many hotkeys are pressed
    MaxFaults   \* bound: how many calls fail

(* What config.cpp lets through. *)
Profiles == [powerSave : BOOLEAN, hotkeys : BOOLEAN,
             fps : 10 .. 1000, saveFps : 1 .. 1000, step : {10}]

ASSUME RuntimeAssumption ==
    /\ Configs \subseteq Profiles
    /\ MaxSwitches \in Nat /\ MaxKeys \in Nat /\ MaxFaults \in Nat

VARIABLES
    config,     \* config_
    main,       \* the thread that calls start() and stop()
    fg,         \* where the foreground thread is
    fgActive,   \* foreground_active_
    events,     \* foreground changes the hook has yet to deliver
    fgFps,      \* what the foreground thread is about to write
    hk,         \* where the hotkey thread is
    hkFps,      \* what the hotkey thread is about to store and write
    controlOn,  \* fps_control_on_
    current,    \* current_fps_
    cell,       \* the frame rate in the game
    focus,      \* whose window is in the foreground
    switches, keys, faults,
    apart,      \* history: the last store came while the other thread was about
                \*   to write, or a write has failed since
    seen,       \* history: the window whose foreground change set the rate last,
                \*   or "keys", or "none"
    front       \* history: the last window the hook has delivered, or "none"

runtimeVars == <<config, main, fg, fgActive, events, fgFps, hk, hkFps, controlOn,
                 current, cell, focus, switches, keys, faults, apart, seen, front>>

starting == <<main, fgActive>>
foreground == <<fg, events, fgFps>>
hotkey == <<hk, hkFps, controlOn>>
user == <<focus, switches, keys>>
history == <<apart, seen, front>>

Windows == {"game", "other", "own"}
MainStates == {"start", "awaitForeground", "startHotkeys", "awaitHotkeys",
               "running", "stopForeground", "stopHotkeys", "stopped"}
ThreadStates == {"none", "init", "pump", "store", "write", "failed", "exited"}

RuntimeTypeOK ==
    /\ config \in Configs
    /\ main \in MainStates
    /\ fg \in ThreadStates /\ hk \in ThreadStates
    /\ fgActive \in BOOLEAN /\ controlOn \in BOOLEAN
    /\ events \in Seq(Windows) /\ Len(events) <= MaxSwitches
    /\ current \in 1 .. 1000 /\ cell \in 1 .. 1000
    /\ fgFps \in 1 .. 1000 /\ hkFps \in 1 .. 1000
    /\ focus \in Windows
    /\ switches \in 0 .. MaxSwitches /\ keys \in 0 .. MaxKeys /\ faults \in 0 .. MaxFaults
    /\ apart \in BOOLEAN
    /\ seen \in Windows \cup {"none", "keys"} /\ front \in Windows \cup {"none"}

(* The patch plan has put the profile's frame rate into the cell. *)
RuntimeInit ==
    /\ config \in Configs
    /\ config.powerSave \/ config.hotkeys
    /\ main = "start"
    /\ fg = "none" /\ fgActive = FALSE /\ events = <<>>
    /\ hk = "none" /\ controlOn = TRUE
    /\ current = config.fps /\ cell = config.fps
    /\ fgFps = config.fps /\ hkFps = config.fps
    /\ focus \in Windows
    /\ switches = 0 /\ keys = 0 /\ faults = 0
    /\ apart = FALSE /\ seen = "none" /\ front = "none"

-----------------------------------------------------------------------------
CallFails == faults < MaxFaults /\ faults' = faults + 1

(* target_fps_for *)
TargetFps(window) == IF window = "game" THEN config.fps ELSE config.saveFps

(* start: a thread for each service the profile asks for, and none besides. *)
StartForeground ==
    /\ main = "start"
    /\ IF config.powerSave THEN main' = "awaitForeground" /\ fg' = "init"
       ELSE main' = "startHotkeys" /\ UNCHANGED fg
    /\ UNCHANGED <<config, fgActive, events, fgFps, hotkey, current, cell, user, faults, history>>

(* SetWinEventHook, and the promise is kept either way. *)
Hook ==
    /\ fg = "init"
    /\ \/ fg' = "pump" /\ UNCHANGED faults
       \/ CallFails /\ fg' = "failed"
    /\ UNCHANGED <<config, starting, events, fgFps, hotkey, current, cell, user, history>>

(* Only now does on_foreground_changed act on what the hook delivers. *)
ForegroundReady ==
    /\ main = "awaitForeground" /\ fg \in {"pump", "write"}
    /\ main' = "startHotkeys"
    /\ fgActive' = TRUE
    /\ UNCHANGED <<config, foreground, hotkey, current, cell, user, faults, history>>

ForegroundNotReady ==
    /\ main = "awaitForeground" /\ fg = "failed"
    /\ main' = "stopped"
    /\ fg' = "exited"
    /\ UNCHANGED <<config, fgActive, events, fgFps, hotkey, current, cell, user, faults, history>>

StartHotkeys ==
    /\ main = "startHotkeys"
    /\ IF config.hotkeys THEN main' = "awaitHotkeys" /\ hk' = "init"
       ELSE main' = "running" /\ UNCHANGED hk
    /\ UNCHANGED <<config, fgActive, foreground, hkFps, controlOn, current, cell, user,
                   faults, history>>

(* All three keys, or none of them stays registered. *)
Register ==
    /\ hk = "init"
    /\ \/ hk' = "pump" /\ UNCHANGED faults
       \/ CallFails /\ hk' = "failed"
    /\ UNCHANGED <<config, starting, foreground, hkFps, controlOn, current, cell, user, history>>

HotkeysReady ==
    /\ main = "awaitHotkeys" /\ hk \in {"pump", "store", "write"}
    /\ main' = "running"
    /\ UNCHANGED <<config, fgActive, foreground, hotkey, current, cell, user, faults, history>>

(* start stops the foreground service again before it reports the failure. *)
HotkeysNotReady ==
    /\ main = "awaitHotkeys" /\ hk = "failed"
    /\ hk' = "exited"
    /\ main' = "stopForeground"
    /\ UNCHANGED <<config, fgActive, foreground, hkFps, controlOn, current, cell, user,
                   faults, history>>

(* stop, once the game has gone or the session has failed: WM_QUIT, join,    *)
(* one service after the other.                                              *)
Stop ==
    /\ main = "running"
    /\ main' = "stopForeground"
    /\ UNCHANGED <<config, fgActive, foreground, hotkey, current, cell, user, faults, history>>

(* Mutant: the hotkey service is told to quit but not waited for. *)
JoinForegroundOnly ==
    /\ main = "stopForeground" /\ fg \in {"none", "exited"}
    /\ main' = "stopped"
    /\ fgActive' = FALSE
    /\ UNCHANGED <<config, foreground, hotkey, current, cell, user, faults, history>>

JoinForeground ==
    /\ main = "stopForeground" /\ fg \in {"none", "exited"}
    /\ main' = "stopHotkeys"
    /\ fgActive' = FALSE
    /\ UNCHANGED <<config, foreground, hotkey, current, cell, user, faults, history>>

JoinHotkeys ==
    /\ main = "stopHotkeys" /\ hk \in {"none", "exited"}
    /\ main' = "stopped"
    /\ UNCHANGED <<config, fgActive, foreground, hotkey, current, cell, user, faults, history>>

-----------------------------------------------------------------------------
(* Mutant: what is written is the frame rate before this change. *)
ForegroundChangedLate ==
    /\ fg = "pump" /\ events # <<>>
    /\ events' = Tail(events)
    /\ front' = Head(events)
    /\ IF fgActive
       THEN /\ fg' = "write"
            /\ fgFps' = current
            /\ current' = TargetFps(Head(events))
            /\ apart' = (hk = "write")
            /\ seen' = IF hk = "write" THEN "keys" ELSE Head(events)
       ELSE UNCHANGED <<fg, fgFps, current, apart, seen>>
    /\ UNCHANGED <<config, starting, hotkey, cell, user, faults>>

(* on_foreground_changed: the frame rate is remembered, then written. *)
ForegroundChanged ==
    /\ fg = "pump" /\ events # <<>>
    /\ events' = Tail(events)
    /\ front' = Head(events)
    /\ IF fgActive
       THEN /\ fg' = "write"
            /\ fgFps' = TargetFps(Head(events))
            /\ current' = TargetFps(Head(events))
            /\ apart' = (hk = "write")
            /\ seen' = IF hk = "write" THEN "keys" ELSE Head(events)
       ELSE UNCHANGED <<fg, fgFps, current, apart, seen>>
    /\ UNCHANGED <<config, starting, hotkey, cell, user, faults>>

(* The writer's result is ignored; a failed write changes nothing. *)
ForegroundWrites ==
    /\ fg = "write"
    /\ fg' = "pump"
    /\ \/ cell' = fgFps /\ UNCHANGED <<faults, apart, seen>>
       \/ CallFails /\ apart' = TRUE /\ seen' = "none" /\ UNCHANGED cell
    /\ UNCHANGED <<config, starting, events, fgFps, hotkey, current, user, front>>

(* WM_QUIT ends the pump; what the hook has not delivered is dropped. *)
ForegroundQuits ==
    /\ fg = "pump" /\ main = "stopForeground"
    /\ fg' = "exited"
    /\ events' = <<>>
    /\ UNCHANGED <<config, starting, fgFps, hotkey, current, cell, user, faults, history>>

-----------------------------------------------------------------------------
Press == hk = "pump" /\ keys < MaxKeys /\ keys' = keys + 1

(* END turns the control off, or on again with the profile's frame rate. *)
ToggleControl ==
    /\ Press
    /\ controlOn' = ~controlOn
    /\ IF controlOn THEN UNCHANGED <<hk, hkFps>>
       ELSE hk' = "store" /\ hkFps' = config.fps
    /\ UNCHANGED <<config, starting, foreground, current, cell, focus, switches, faults, history>>

(* Mutant: a step up is not stopped at 1000. *)
StepUpUnlimited ==
    /\ Press
    /\ IF controlOn
       THEN hk' = "store" /\ hkFps' = current + config.step
       ELSE UNCHANGED <<hk, hkFps>>
    /\ UNCHANGED <<config, starting, foreground, controlOn, current, cell, focus, switches,
                   faults, history>>

(* Ctrl+Up: one step more, if that is not beyond 1000. *)
StepUp ==
    /\ Press
    /\ IF controlOn /\ current + config.step <= 1000
       THEN hk' = "store" /\ hkFps' = current + config.step
       ELSE UNCHANGED <<hk, hkFps>>
    /\ UNCHANGED <<config, starting, foreground, controlOn, current, cell, focus, switches,
                   faults, history>>

(* Mutant: a step down is not stopped at 10. *)
StepDownUnclamped ==
    /\ Press
    /\ IF controlOn
       THEN /\ hk' = "store"
            /\ hkFps' = IF current > config.step THEN current - config.step ELSE 1
       ELSE UNCHANGED <<hk, hkFps>>
    /\ UNCHANGED <<config, starting, foreground, controlOn, current, cell, focus, switches,
                   faults, history>>

(* Ctrl+Down: one step less, or 10. *)
StepDown ==
    /\ Press
    /\ IF controlOn
       THEN /\ hk' = "store"
            /\ hkFps' = IF current > config.step + 9 THEN current - config.step ELSE 10
       ELSE UNCHANGED <<hk, hkFps>>
    /\ UNCHANGED <<config, starting, foreground, controlOn, current, cell, focus, switches,
                   faults, history>>

(* Mutant: the step is written but not remembered. *)
HotkeyForgets ==
    /\ hk = "store"
    /\ hk' = "write"
    /\ apart' = (fg = "write")
    /\ seen' = "keys"
    /\ UNCHANGED <<config, starting, foreground, hkFps, controlOn, current, cell, user, faults,
                   front>>

(* current_fps_ was read some time ago: the other thread may have stored. *)
HotkeyStores ==
    /\ hk = "store"
    /\ hk' = "write"
    /\ current' = hkFps
    /\ apart' = (fg = "write")
    /\ seen' = "keys"
    /\ UNCHANGED <<config, starting, foreground, hkFps, controlOn, cell, user, faults, front>>

HotkeyWrites ==
    /\ hk = "write"
    /\ hk' = "pump"
    /\ \/ cell' = hkFps /\ UNCHANGED <<faults, apart>>
       \/ CallFails /\ apart' = TRUE /\ UNCHANGED cell
    /\ UNCHANGED <<config, starting, foreground, hkFps, controlOn, current, user, seen, front>>

(* Mutant: with the control off every message but END is skipped. *)
HotkeysQuitWhenOn ==
    /\ hk = "pump" /\ main = "stopHotkeys" /\ controlOn
    /\ hk' = "exited"
    /\ UNCHANGED <<config, starting, foreground, hkFps, controlOn, current, cell, user, faults,
                   history>>

HotkeysQuit ==
    /\ hk = "pump" /\ main = "stopHotkeys"
    /\ hk' = "exited"
    /\ UNCHANGED <<config, starting, foreground, hkFps, controlOn, current, cell, user, faults,
                   history>>

-----------------------------------------------------------------------------
(* Another window comes to the foreground; the hook skips this process's own.*)
SwitchWindow(w) ==
    /\ switches < MaxSwitches /\ w # focus
    /\ switches' = switches + 1
    /\ focus' = w
    /\ events' = IF fg \in {"pump", "write"} /\ w # "own" THEN Append(events, w) ELSE events
    /\ UNCHANGED <<config, starting, fg, fgFps, hotkey, current, cell, keys, faults, history>>

-----------------------------------------------------------------------------
Control ==
    \/ StartForeground \/ ForegroundReady \/ ForegroundNotReady
    \/ StartHotkeys \/ HotkeysReady \/ HotkeysNotReady
    \/ JoinForeground \/ JoinHotkeys

ForegroundThread == Hook \/ ForegroundChanged \/ ForegroundWrites \/ ForegroundQuits

(* What the hotkey thread does by itself; a key press is the user's. *)
HotkeyThread == Register \/ HotkeyStores \/ HotkeyWrites \/ HotkeysQuit

RuntimeNext ==
    \/ Control \/ Stop \/ ForegroundThread \/ HotkeyThread
    \/ ToggleControl \/ StepUp \/ StepDown
    \/ \E w \in Windows : SwitchWindow(w)

RuntimeSpec == RuntimeInit /\ [][RuntimeNext]_runtimeVars

(* The three threads run, and no failure is taken for progress. *)
RuntimeFairSpec ==
    /\ RuntimeSpec
    /\ WF_runtimeVars(Control /\ UNCHANGED faults)
    /\ WF_runtimeVars(ForegroundThread /\ UNCHANGED faults)
    /\ WF_runtimeVars(HotkeyThread /\ UNCHANGED faults)

-----------------------------------------------------------------------------
(* Nobody is between storing a frame rate and writing it. *)
AtRest == fg # "write" /\ hk \notin {"store", "write"}

(* What the game runs at is what the controller steps from, unless the last   *)
(* store came between the other thread's store and its write, or a write has  *)
(* failed since: each store that meets no other thread's write sets it right. *)
CellIsCurrent == AtRest /\ ~apart => cell = current

(* Whatever the two threads do to each other, a frame rate below 10 is never  *)
(* a step's: only power save asks for one.                                    *)
NeverBelowTen ==
    \A fps \in {current, cell} :
        fps < 10 => config.powerSave /\ fps = config.saveFps

(* When a change of window was the last to set the frame rate, and was        *)
(* written, the game runs at the rate of that window.                         *)
LastChangeCounts == AtRest /\ seen \in Windows => cell = TargetFps(seen)

(* When stop() has returned, or start() has failed, neither the frame rate    *)
(* nor the controller's notion of it changes any more: the writer refers to   *)
(* what the engine is about to destroy.                                       *)
NothingAfterStop ==
    [][main = "stopped" => UNCHANGED <<cell, current, fg, hk>>]_runtimeVars

(* stop() returns, and so does a start() that failed. *)
StopReturns == main = "stopForeground" ~> main = "stopped"

-----------------------------------------------------------------------------
(* runtime_controller.hpp: the hook "writes power_save_fps when the game      *)
(* loses the foreground and profile_fps when it regains it". So once the hook *)
(* is there and has delivered a change, with no hotkey and no failed write in *)
(* between, the frame rate is the one of the window that came to the front.   *)
FocusIsFollowed ==
    AtRest /\ events = <<>> /\ front # "none" /\ keys = 0 /\ faults = 0
        => cell = TargetFps(front)
=============================================================================
