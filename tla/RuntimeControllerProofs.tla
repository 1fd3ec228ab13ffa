----------------------- MODULE RuntimeControllerProofs -----------------------
(***************************************************************************)
(* What the foreground thread and the hotkey thread cannot do to the frame  *)
(* rate, whatever the profile, and however often windows change, keys are   *)
(* pressed and writes fail.                                                 *)
(*                                                                         *)
(* The two threads share current_fps_ and the cell, and each keeps a copy   *)
(* of what it is about to write. The inductive invariant says what the      *)
(* copies are while a thread is between its store and its write:            *)
(*   Joined    which thread can still run in each phase of start and stop;  *)
(*   Rates     every copy of a frame rate is one the profile or a step      *)
(*             gives;                                                       *)
(*   Together  unless they are apart, whoever is about to write will write  *)
(*             the current rate, and if nobody is, it has been written;     *)
(*   Followed  if a change of window came last, no key is about to undo it. *)
(***************************************************************************)
EXTENDS RuntimeController, SequenceTheorems, TLAPS

Joined ==
    /\ main = "start" => fg = "none"
    /\ main \in {"start", "awaitForeground", "startHotkeys"} => hk = "none"
    /\ main = "stopHotkeys" => fg \in {"none", "exited"}
    /\ main = "stopped" => fg \in {"none", "exited"} /\ hk \in {"none", "exited"}
    /\ fg # "none" => config.powerSave

(* A frame rate below 10 is the one of power save. *)
Given(fps) == fps < 10 => config.powerSave /\ fps = config.saveFps

Rates ==
    /\ Given(current) /\ Given(cell)
    /\ fg = "write" => Given(fgFps)
    /\ hkFps \in 10 .. 1000

Together ==
    ~apart =>
        /\ ~(fg = "write" /\ hk = "write")
        /\ fg = "write" => fgFps = current
        /\ hk = "write" => hkFps = current
        /\ fg # "write" /\ hk # "write" => cell = current

Followed ==
    seen \in Windows =>
        /\ hk # "write"
        /\ IF fg = "write" THEN fgFps = TargetFps(seen) ELSE cell = TargetFps(seen)

RuntimeInv ==
    /\ RuntimeTypeOK /\ Len(events) <= switches
    /\ Joined /\ Rates /\ Together /\ Followed

-----------------------------------------------------------------------------
(* What config.cpp lets through. *)
LEMMA ConfigType ==
    ASSUME config \in Configs
    PROVE  /\ config.fps \in 10 .. 1000 /\ config.saveFps \in 1 .. 1000 /\ config.step = 10
           /\ config.powerSave \in BOOLEAN
BY RuntimeAssumption DEF Profiles

LEMMA TargetType ==
    ASSUME config \in Configs, NEW w
    PROVE  TargetFps(w) \in 1 .. 1000 /\ (config.powerSave => Given(TargetFps(w)))
BY ConfigType DEF TargetFps, Given

LEMMA RuntimeInvInit == RuntimeInit => RuntimeInv
<1> SUFFICES ASSUME RuntimeInit PROVE RuntimeInv
  OBVIOUS
<1>1. /\ config \in Configs
      /\ config.fps \in 10 .. 1000
      /\ current = config.fps /\ cell = config.fps /\ fgFps = config.fps /\ hkFps = config.fps
  BY ConfigType DEF RuntimeInit
<1>2. RuntimeTypeOK /\ Len(events) <= switches
  <2>1. /\ current \in 1 .. 1000 /\ cell \in 1 .. 1000
        /\ fgFps \in 1 .. 1000 /\ hkFps \in 1 .. 1000
    BY <1>1
  <2>2. /\ events \in Seq(Windows) /\ Len(events) <= MaxSwitches /\ Len(events) <= switches
        /\ switches \in 0 .. MaxSwitches /\ keys \in 0 .. MaxKeys /\ faults \in 0 .. MaxFaults
    BY RuntimeAssumption DEF RuntimeInit
  <2>3. /\ main \in MainStates /\ fg \in ThreadStates /\ hk \in ThreadStates
        /\ fgActive \in BOOLEAN /\ controlOn \in BOOLEAN /\ apart \in BOOLEAN
        /\ focus \in Windows
        /\ seen \in Windows \cup {"none", "keys"} /\ front \in Windows \cup {"none"}
    BY DEF RuntimeInit, MainStates, ThreadStates
  <2> QED
    BY <1>1, <2>1, <2>2, <2>3 DEF RuntimeTypeOK
<1>3. Joined /\ Together /\ Followed
  BY DEF RuntimeInit, Joined, Together, Followed, Windows
<1>4. Rates
  BY <1>1 DEF Rates, Given
<1> QED
  BY <1>2, <1>3, <1>4 DEF RuntimeInv

-----------------------------------------------------------------------------
(* start and stop, and the threads' own beginnings and ends, store nothing    *)
(* and write nothing.                                                         *)
Phasing == Control \/ Stop \/ Hook \/ Register \/ HotkeysQuit

LEMMA PhasingKeeps ==
    ASSUME Phasing
    PROVE  UNCHANGED <<config, events, fgFps, hkFps, controlOn, current, cell, user, history>>
BY DEF Phasing, Control, StartForeground, ForegroundReady, ForegroundNotReady, StartHotkeys,
       HotkeysReady, HotkeysNotReady, JoinForeground, JoinHotkeys, Stop, Hook, Register,
       HotkeysQuit, starting, foreground, hotkey, user, history

LEMMA PhasingMoves ==
    ASSUME RuntimeInv, Phasing
    PROVE  /\ main' \in MainStates /\ fg' \in ThreadStates /\ hk' \in ThreadStates
           /\ fgActive' \in BOOLEAN
           /\ fg' = "write" <=> fg = "write"
           /\ hk' = "write" <=> hk = "write"
           /\ faults' \in 0 .. MaxFaults
<1>1. /\ main \in MainStates /\ fg \in ThreadStates /\ hk \in ThreadStates
      /\ fgActive \in BOOLEAN /\ faults \in 0 .. MaxFaults
      /\ main = "start" => fg = "none"
      /\ main = "startHotkeys" => hk = "none"
  BY DEF RuntimeInv, RuntimeTypeOK, Joined
<1> USE DEF MainStates, ThreadStates, starting, foreground, hotkey
<1>2. CASE Control
  <2>1. CASE StartForeground
    BY <1>1, <2>1 DEF StartForeground
  <2>2. CASE ForegroundReady \/ HotkeysReady \/ JoinForeground \/ JoinHotkeys
    BY <1>1, <2>2 DEF ForegroundReady, HotkeysReady, JoinForeground, JoinHotkeys
  <2>3. CASE StartHotkeys
    BY <1>1, <2>3 DEF StartHotkeys
  <2>4. CASE ForegroundNotReady \/ HotkeysNotReady
    BY <1>1, <2>4 DEF ForegroundNotReady, HotkeysNotReady
  <2> QED
    BY <1>2, <2>1, <2>2, <2>3, <2>4 DEF Control
<1>3. CASE Stop
  BY <1>1, <1>3 DEF Stop
<1>4. CASE Hook \/ Register
  BY <1>1, <1>4, RuntimeAssumption DEF Hook, Register, CallFails
<1>5. CASE HotkeysQuit
  BY <1>1, <1>5 DEF HotkeysQuit
<1> QED
  BY <1>2, <1>3, <1>4, <1>5 DEF Phasing

LEMMA PhasingJoined ==
    ASSUME RuntimeInv, Phasing
    PROVE  Joined'
<1> USE DEF RuntimeInv, Joined
<1>0. config' = config
  BY PhasingKeeps
<1>1. CASE Control
  BY <1>0, <1>1 DEF Control, StartForeground, ForegroundReady, ForegroundNotReady, StartHotkeys,
       HotkeysReady, HotkeysNotReady, JoinForeground, JoinHotkeys, starting, foreground, hotkey
<1>2. CASE Stop
  BY <1>0, <1>2 DEF Stop, foreground, hotkey
<1>3. CASE Hook \/ Register
  BY <1>0, <1>3 DEF Hook, Register, starting, foreground, hotkey
<1>4. CASE HotkeysQuit
  BY <1>0, <1>4 DEF HotkeysQuit, starting, foreground, hotkey
<1> QED
  BY <1>1, <1>2, <1>3, <1>4 DEF Phasing

LEMMA PhasingStep ==
    ASSUME RuntimeInv, Phasing
    PROVE  RuntimeInv'
<1>1. UNCHANGED <<config, events, fgFps, hkFps, controlOn, current, cell, user, history>>
  BY PhasingKeeps
<1>2. (RuntimeTypeOK /\ Len(events) <= switches)'
  BY <1>1, PhasingMoves DEF RuntimeInv, RuntimeTypeOK, user, history
<1>3. (Rates /\ Together /\ Followed)'
  BY <1>1, PhasingMoves
  DEF RuntimeInv, Rates, Given, Together, Followed, TargetFps, user, history
<1> QED
  BY <1>2, <1>3, PhasingJoined DEF RuntimeInv

-----------------------------------------------------------------------------
(* The foreground thread: a change of window is stored, then written.         *)
LEMMA ForegroundChangedStep ==
    ASSUME RuntimeInv, ForegroundChanged
    PROVE  RuntimeInv'
<1>1. PICK w : /\ w = Head(events) /\ w \in Windows
               /\ Tail(events) \in Seq(Windows) /\ Len(Tail(events)) = Len(events) - 1
  BY HeadTailProperties DEF RuntimeInv, RuntimeTypeOK, ForegroundChanged
<1>2. /\ fg = "pump" /\ front' = w /\ events' = Tail(events)
      /\ UNCHANGED <<config, main, fgActive, hk, hkFps, controlOn, cell, focus, switches, keys,
                     faults>>
  BY <1>1 DEF ForegroundChanged, starting, hotkey, user
<1>3. TargetFps(w) \in 1 .. 1000 /\ Given(TargetFps(w))
  <2>1. config \in Configs /\ config.powerSave
    BY <1>2 DEF RuntimeInv, RuntimeTypeOK, Joined
  <2> QED
    BY <2>1, TargetType
<1>4. \A v : TargetFps(v)' = TargetFps(v)
  BY <1>2 DEF TargetFps
<1>5. (Len(events) <= switches)' /\ Joined'
      /\ events' \in Seq(Windows) /\ Len(events') <= MaxSwitches
  <2>1. Len(events) \in Nat /\ Len(events) <= switches /\ switches \in Int
        /\ Len(events) <= MaxSwitches /\ MaxSwitches \in Int
    BY RuntimeAssumption DEF RuntimeInv, RuntimeTypeOK
  <2>2. Len(events') <= switches' /\ Len(events') <= MaxSwitches
    BY <1>1, <1>2, <2>1
  <2>3. Joined'
    BY <1>2 DEF RuntimeInv, Joined, ForegroundChanged
  <2> QED
    BY <1>1, <1>2, <2>2, <2>3
<1>6. CASE fgActive
  <2>1. /\ fg' = "write" /\ fgFps' = TargetFps(w) /\ current' = TargetFps(w)
        /\ apart' = (hk = "write")
        /\ seen' = IF hk = "write" THEN "keys" ELSE w
    BY <1>1, <1>6 DEF ForegroundChanged
  <2>2. RuntimeTypeOK'
    <3>1. fg' \in ThreadStates /\ fgFps' \in 1 .. 1000 /\ current' \in 1 .. 1000
      BY <1>3, <2>1 DEF ThreadStates
    <3>2. apart' \in BOOLEAN
      BY <2>1, Zenon
    <3>3. seen' \in Windows \cup {"none", "keys"}
      BY <1>1, <2>1, Zenon
    <3> QED
      BY <1>1, <1>2, <1>5, <3>1, <3>2, <3>3 DEF RuntimeInv, RuntimeTypeOK
  <2>3. Rates'
    BY <1>2, <1>3, <2>1 DEF RuntimeInv, Rates, Given
  <2>4. Together'
    BY <1>2, <2>1 DEF Together
  <2>5. Followed'
    BY <1>2, <1>4, <2>1 DEF Followed, Windows
  <2> QED
    BY <1>5, <2>2, <2>3, <2>4, <2>5 DEF RuntimeInv
<1>7. CASE ~fgActive
  <2>1. UNCHANGED <<fg, fgFps, current, apart, seen>>
    BY <1>7 DEF ForegroundChanged
  <2>2. RuntimeTypeOK'
    BY <1>1, <1>2, <1>5, <2>1 DEF RuntimeInv, RuntimeTypeOK
  <2>3. Rates' /\ Together' /\ Followed'
    BY <1>2, <1>4, <2>1 DEF RuntimeInv, Rates, Given, Together, Followed
  <2> QED
    BY <1>5, <2>2, <2>3 DEF RuntimeInv
<1> QED
  BY <1>6, <1>7

LEMMA ForegroundWritesStep ==
    ASSUME RuntimeInv, ForegroundWrites
    PROVE  RuntimeInv'
<1>1. /\ fg = "write" /\ fg' = "pump"
      /\ UNCHANGED <<config, main, fgActive, events, fgFps, hk, hkFps, controlOn, current,
                     focus, switches, keys, front>>
  BY DEF ForegroundWrites, starting, hotkey, user
<1>2. (Len(events) <= switches)' /\ Joined'
  BY <1>1 DEF RuntimeInv, Joined
<1>3. \A v : TargetFps(v)' = TargetFps(v)
  BY <1>1 DEF TargetFps
<1>4. CASE cell' = fgFps /\ UNCHANGED <<faults, apart, seen>>
  <2>1. RuntimeTypeOK'
    BY <1>1, <1>4 DEF RuntimeInv, RuntimeTypeOK, ThreadStates
  <2>2. Rates' /\ Together' /\ Followed'
    BY <1>1, <1>3, <1>4 DEF RuntimeInv, Rates, Given, Together, Followed
  <2> QED
    BY <1>2, <2>1, <2>2 DEF RuntimeInv
<1>5. CASE CallFails /\ apart' = TRUE /\ seen' = "none" /\ UNCHANGED cell
  <2>1. faults' \in 0 .. MaxFaults
    BY <1>5, RuntimeAssumption DEF CallFails, RuntimeInv, RuntimeTypeOK
  <2>2. RuntimeTypeOK'
    BY <1>1, <1>5, <2>1 DEF RuntimeInv, RuntimeTypeOK, ThreadStates
  <2>3. Rates' /\ Together' /\ Followed'
    BY <1>1, <1>5 DEF RuntimeInv, Rates, Given, Together, Followed, Windows
  <2> QED
    BY <1>2, <2>2, <2>3 DEF RuntimeInv
<1> QED
  BY <1>4, <1>5, Zenon DEF ForegroundWrites

LEMMA ForegroundQuitsStep ==
    ASSUME RuntimeInv, ForegroundQuits
    PROVE  RuntimeInv'
<1>1. /\ fg = "pump" /\ main = "stopForeground" /\ fg' = "exited" /\ events' = <<>>
      /\ UNCHANGED <<config, main, fgActive, fgFps, hk, hkFps, controlOn, current, cell, focus,
                     switches, keys, faults, apart, seen, front>>
  BY DEF ForegroundQuits, starting, hotkey, user, history
<1>2. RuntimeTypeOK' /\ (Len(events) <= switches)'
  <2>1. events' \in Seq(Windows) /\ Len(events') = 0
    BY <1>1
  <2>2. 0 <= switches /\ 0 <= MaxSwitches
    BY RuntimeAssumption DEF RuntimeInv, RuntimeTypeOK
  <2> QED
    BY <1>1, <2>1, <2>2 DEF RuntimeInv, RuntimeTypeOK, ThreadStates
<1>3. Joined' /\ Rates' /\ Together' /\ Followed'
  BY <1>1 DEF RuntimeInv, Joined, Rates, Given, Together, Followed, TargetFps
<1> QED
  BY <1>2, <1>3 DEF RuntimeInv

-----------------------------------------------------------------------------
(* The hotkey thread: a key that asks for a frame rate asks for one from 10   *)
(* to 1000, whatever the other thread has made of current_fps_.               *)
KeyPressed ==
    /\ hk = "pump" /\ keys' \in 0 .. MaxKeys
    /\ controlOn' \in BOOLEAN
    /\ \/ UNCHANGED <<hk, hkFps>>
       \/ hk' = "store" /\ hkFps' \in 10 .. 1000
    /\ UNCHANGED <<config, main, fg, fgActive, events, fgFps, current, cell, focus, switches,
                   faults, apart, seen, front>>

LEMMA PressIsKeyPressed ==
    ASSUME RuntimeInv, ToggleControl \/ StepUp \/ StepDown
    PROVE  KeyPressed
<1>1. /\ keys \in 0 .. MaxKeys /\ current \in 1 .. 1000 /\ controlOn \in BOOLEAN
      /\ config.fps \in 10 .. 1000 /\ config.step = 10
  BY ConfigType DEF RuntimeInv, RuntimeTypeOK
<1>2. hk = "pump" /\ keys' \in 0 .. MaxKeys
  BY <1>1, RuntimeAssumption DEF ToggleControl, StepUp, StepDown, Press
<1>3. UNCHANGED <<config, main, fg, fgActive, events, fgFps, current, cell, focus, switches,
                  faults, apart, seen, front>>
  BY DEF ToggleControl, StepUp, StepDown, starting, foreground, history
<1>4. controlOn' \in BOOLEAN
  <2>1. controlOn' = ~controlOn \/ controlOn' = controlOn
    <3>1. CASE ToggleControl
      BY <3>1, Zenon DEF ToggleControl
    <3>2. CASE StepUp \/ StepDown
      BY <3>2, Zenon DEF StepUp, StepDown
    <3> QED
      BY <3>1, <3>2
  <2>2. controlOn \in BOOLEAN
    BY <1>1
  <2> QED
    BY <2>1, <2>2
<1>5. UNCHANGED <<hk, hkFps>> \/ (hk' = "store" /\ hkFps' \in 10 .. 1000)
  <2>1. CASE ToggleControl
    BY <1>1, <2>1 DEF ToggleControl
  <2>2. CASE StepUp
    <3>1. current \in 1 .. 1000 /\ config.step = 10
      BY <1>1
    <3>2. CASE controlOn /\ current + config.step <= 1000
      <4>1. hk' = "store" /\ hkFps' = current + config.step
        BY <2>2, <3>2 DEF StepUp
      <4> QED
        BY <3>1, <3>2, <4>1
    <3>3. CASE ~(controlOn /\ current + config.step <= 1000)
      BY <2>2, <3>3 DEF StepUp
    <3> QED
      BY <3>2, <3>3
  <2>3. CASE StepDown
    <3>1. current \in 1 .. 1000 /\ config.step = 10
      BY <1>1
    <3>2. CASE controlOn
      <4>1. /\ hk' = "store"
            /\ hkFps' = IF current > config.step + 9 THEN current - config.step ELSE 10
        BY <2>3, <3>2 DEF StepDown
      <4> QED
        BY <3>1, <4>1
    <3>3. CASE ~controlOn
      BY <2>3, <3>3 DEF StepDown
    <3> QED
      BY <3>2, <3>3
  <2> QED
    BY <2>1, <2>2, <2>3
<1> QED
  BY <1>2, <1>3, <1>4, <1>5 DEF KeyPressed

LEMMA KeyPressedStep ==
    ASSUME RuntimeInv, KeyPressed
    PROVE  RuntimeInv'
<1>1. hk' \in {"pump", "store"} /\ hkFps' \in 10 .. 1000
  <2>1. hk = "pump" /\ hkFps \in 10 .. 1000
    BY DEF KeyPressed, RuntimeInv, Rates
  <2>2. \/ hk' = hk /\ hkFps' = hkFps
        \/ hk' = "store" /\ hkFps' \in 10 .. 1000
    BY DEF KeyPressed
  <2> QED
    BY <2>1, <2>2
<1>2. RuntimeTypeOK'
  <2>1. hk' \in ThreadStates /\ hkFps' \in 1 .. 1000
    BY <1>1 DEF ThreadStates
  <2> QED
    BY <2>1 DEF KeyPressed, RuntimeInv, RuntimeTypeOK
<1>3. Joined' /\ Rates' /\ Together' /\ Followed' /\ (Len(events) <= switches)'
  BY <1>1 DEF KeyPressed, RuntimeInv, Joined, Rates, Given, Together, Followed, TargetFps
<1> QED
  BY <1>2, <1>3 DEF RuntimeInv

LEMMA HotkeyStoresStep ==
    ASSUME RuntimeInv, HotkeyStores
    PROVE  RuntimeInv'
<1>1. /\ hk = "store" /\ hk' = "write" /\ current' = hkFps /\ apart' = (fg = "write")
      /\ seen' = "keys"
      /\ UNCHANGED <<config, main, fg, fgActive, events, fgFps, hkFps, controlOn, cell, focus,
                     switches, keys, faults, front>>
  BY DEF HotkeyStores, starting, foreground, user
<1>2. RuntimeTypeOK'
  BY <1>1 DEF RuntimeInv, RuntimeTypeOK, ThreadStates
<1>3. Joined' /\ Rates' /\ (Len(events) <= switches)'
  BY <1>1 DEF RuntimeInv, Joined, Rates, Given
<1>4. Together'
  <2>1. CASE fg = "write"
    <3>1. apart'
      BY <1>1, <2>1, Zenon
    <3> QED
      BY <3>1 DEF Together
  <2>2. CASE fg # "write"
    BY <1>1, <2>2 DEF Together
  <2> QED
    BY <2>1, <2>2
<1>5. Followed'
  BY <1>1 DEF Followed, Windows
<1> QED
  BY <1>2, <1>3, <1>4, <1>5 DEF RuntimeInv

LEMMA HotkeyWritesStep ==
    ASSUME RuntimeInv, HotkeyWrites
    PROVE  RuntimeInv'
<1>1. /\ hk = "write" /\ hk' = "pump"
      /\ UNCHANGED <<config, main, fg, fgActive, events, fgFps, hkFps, controlOn, current,
                     focus, switches, keys, seen, front>>
  BY DEF HotkeyWrites, starting, foreground, user
<1>2. Joined' /\ Followed' /\ (Len(events) <= switches)'
  BY <1>1 DEF RuntimeInv, Joined, Followed
<1>3. CASE cell' = hkFps /\ UNCHANGED <<faults, apart>>
  <2>1. RuntimeTypeOK'
    BY <1>1, <1>3 DEF RuntimeInv, RuntimeTypeOK, ThreadStates
  <2>2. Rates' /\ Together'
    BY <1>1, <1>3 DEF RuntimeInv, Rates, Given, Together
  <2> QED
    BY <1>2, <2>1, <2>2 DEF RuntimeInv
<1>4. CASE CallFails /\ apart' = TRUE /\ UNCHANGED cell
  <2>1. faults' \in 0 .. MaxFaults
    BY <1>4, RuntimeAssumption DEF CallFails, RuntimeInv, RuntimeTypeOK
  <2>2. RuntimeTypeOK'
    BY <1>1, <1>4, <2>1 DEF RuntimeInv, RuntimeTypeOK, ThreadStates
  <2>3. Rates' /\ Together'
    BY <1>1, <1>4 DEF RuntimeInv, Rates, Given, Together
  <2> QED
    BY <1>2, <2>2, <2>3 DEF RuntimeInv
<1> QED
  BY <1>3, <1>4, Zenon DEF HotkeyWrites

-----------------------------------------------------------------------------
LEMMA SwitchWindowStep ==
    ASSUME RuntimeInv, NEW w \in Windows, SwitchWindow(w)
    PROVE  RuntimeInv'
<1>1. /\ switches < MaxSwitches /\ switches' = switches + 1 /\ focus' = w
      /\ events' \in {events, Append(events, w)}
      /\ UNCHANGED <<config, main, fg, fgActive, fgFps, hk, hkFps, controlOn, current, cell,
                     keys, faults, apart, seen, front>>
  BY DEF SwitchWindow, starting, hotkey, history
<1>2. /\ events' \in Seq(Windows)
      /\ Len(events') \in {Len(events), Len(events) + 1}
  <2>1. events \in Seq(Windows)
    BY DEF RuntimeInv, RuntimeTypeOK
  <2>2. /\ Append(events, w) \in Seq(Windows)
        /\ Len(Append(events, w)) = Len(events) + 1
    BY <2>1, AppendProperties
  <2> QED
    BY <1>1, <2>1, <2>2
<1>3. /\ Len(events') <= switches' /\ Len(events') <= MaxSwitches
      /\ switches' \in 0 .. MaxSwitches
  <2>1. Len(events) \in Nat /\ Len(events) <= switches /\ switches \in 0 .. MaxSwitches
    BY DEF RuntimeInv, RuntimeTypeOK
  <2> QED
    BY <1>1, <1>2, <2>1, RuntimeAssumption
<1>4. RuntimeTypeOK'
  <2>1. /\ events' \in Seq(Windows) /\ Len(events') <= MaxSwitches
        /\ focus' \in Windows /\ switches' \in 0 .. MaxSwitches
    BY <1>1, <1>2, <1>3
  <2>2. UNCHANGED <<config, main, fg, fgActive, fgFps, hk, hkFps, controlOn, current, cell,
                    keys, faults, apart, seen, front>>
    BY <1>1
  <2> QED
    BY <2>1, <2>2 DEF RuntimeInv, RuntimeTypeOK
<1>5. Joined' /\ Rates' /\ Together' /\ Followed'
  BY <1>1 DEF RuntimeInv, Joined, Rates, Given, Together, Followed, TargetFps
<1> QED
  BY <1>3, <1>4, <1>5 DEF RuntimeInv

LEMMA RuntimeInvStep == RuntimeInv /\ [RuntimeNext]_runtimeVars => RuntimeInv'
<1> SUFFICES ASSUME RuntimeInv, [RuntimeNext]_runtimeVars
             PROVE  RuntimeInv'
  OBVIOUS
<1>1. CASE Phasing
  BY <1>1, PhasingStep
<1>2. CASE ForegroundChanged \/ ForegroundWrites \/ ForegroundQuits
  BY <1>2, ForegroundChangedStep, ForegroundWritesStep, ForegroundQuitsStep
<1>3. CASE ToggleControl \/ StepUp \/ StepDown
  BY <1>3, PressIsKeyPressed, KeyPressedStep
<1>4. CASE HotkeyStores \/ HotkeyWrites
  BY <1>4, HotkeyStoresStep, HotkeyWritesStep
<1>5. CASE \E w \in Windows : SwitchWindow(w)
  BY <1>5, SwitchWindowStep
<1>6. CASE UNCHANGED runtimeVars
  <2>1. RuntimeTypeOK' /\ (Len(events) <= switches)'
    BY <1>6 DEF RuntimeInv, RuntimeTypeOK, runtimeVars
  <2>2. Joined' /\ Rates' /\ Together' /\ Followed'
    BY <1>6 DEF RuntimeInv, Joined, Rates, Given, Together, Followed, TargetFps, runtimeVars
  <2> QED
    BY <2>1, <2>2 DEF RuntimeInv
<1> QED
  BY <1>1, <1>2, <1>3, <1>4, <1>5, <1>6
  DEF RuntimeNext, Phasing, ForegroundThread, HotkeyThread

LEMMA RuntimeInvariance == RuntimeSpec => []RuntimeInv
BY RuntimeInvInit, RuntimeInvStep, PTL DEF RuntimeSpec

-----------------------------------------------------------------------------
(* The controller's state stays well typed: in particular no frame rate       *)
(* leaves 1 .. 1000, and the hook's queue is no longer than the changes made. *)
THEOREM RuntimeTypeCorrect == RuntimeSpec => []RuntimeTypeOK
<1>1. RuntimeInv => RuntimeTypeOK
  BY DEF RuntimeInv
<1> QED
  BY <1>1, RuntimeInvariance, PTL

(* The two threads write in whatever order they like: at rest the cell holds  *)
(* current_fps_, unless the last store fell between the other thread's store  *)
(* and its write or a write has failed.                                       *)
THEOREM CellStaysCurrent == RuntimeSpec => []CellIsCurrent
<1>1. RuntimeInv => CellIsCurrent
  BY DEF RuntimeInv, Together, CellIsCurrent, AtRest
<1> QED
  BY <1>1, RuntimeInvariance, PTL

(* No interleaving of the two threads takes a step below 10: the hotkeys stop *)
(* there, and only the frame rate of power save is lower.                     *)
THEOREM StepsStayAboveTen == RuntimeSpec => []NeverBelowTen
<1>1. RuntimeInv => NeverBelowTen
  BY DEF RuntimeInv, Rates, Given, NeverBelowTen
<1> QED
  BY <1>1, RuntimeInvariance, PTL

(* on_foreground_changed has the last word when it came last and its write    *)
(* succeeded.                                                                 *)
THEOREM LastChangeIsWritten == RuntimeSpec => []LastChangeCounts
<1>1. RuntimeInv => LastChangeCounts
  BY DEF RuntimeInv, Followed, LastChangeCounts, AtRest
<1> QED
  BY <1>1, RuntimeInvariance, PTL

(* stop() joins both threads, and a start() that failed has no thread left:   *)
(* the writer they call is not used once the engine destroys it.              *)
THEOREM StoppedWritesNothing == RuntimeSpec => NothingAfterStop
<1>1. RuntimeInv /\ [RuntimeNext]_runtimeVars =>
          [main = "stopped" => UNCHANGED <<cell, current, fg, hk>>]_runtimeVars
  <2> SUFFICES ASSUME RuntimeInv, [RuntimeNext]_runtimeVars, main = "stopped"
               PROVE  UNCHANGED <<cell, current, fg, hk>>
    OBVIOUS
  <2>1. fg \in {"none", "exited"} /\ hk \in {"none", "exited"}
    BY DEF RuntimeInv, Joined
  <2>2. ~Control /\ ~Stop
    BY DEF Control, Stop, StartForeground, ForegroundReady, ForegroundNotReady, StartHotkeys,
           HotkeysReady, HotkeysNotReady, JoinForeground, JoinHotkeys
  <2>3. ~ForegroundThread /\ ~HotkeyThread /\ ~ToggleControl /\ ~StepUp /\ ~StepDown
    BY <2>1 DEF ForegroundThread, Hook, ForegroundChanged, ForegroundWrites, ForegroundQuits,
           HotkeyThread, Register, HotkeyStores, HotkeyWrites, HotkeysQuit, ToggleControl,
           StepUp, StepDown, Press
  <2>4. CASE \E w \in Windows : SwitchWindow(w)
    BY <2>4 DEF SwitchWindow, hotkey
  <2>5. CASE UNCHANGED runtimeVars
    BY <2>5 DEF runtimeVars
  <2> QED
    BY <2>2, <2>3, <2>4, <2>5 DEF RuntimeNext
<1> QED
  BY <1>1, RuntimeInvariance, PTL DEF RuntimeSpec, NothingAfterStop
=============================================================================
