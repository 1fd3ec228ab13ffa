# HoyoFlux: specification and proofs

HoyoFlux is a Windows launcher for two games. One run of it takes a lease, undoes what an earlier run
left behind, starts the game suspended, patches it in memory, lets it go, looks after the game's
persisted display settings and its frame rate while it runs, and puts the settings back afterwards.
These modules specify that machinery in TLA+, check it with TLC on small instances and prove the
properties that matter most for every instance with TLAPS. All paths below are relative to the
repository's root, where the sources are under `src/src/`.

## The system

| Part | Source | State | Operations |
|---|---|---|---|
| Session engine | `session/session_engine.cpp` | stage, the launched process, the applied patch, the snapshot, `game_has_run` | `recover`, `preflight`, `run_after_preflight`, `finish_failed`, `restore_session_state` |
| Journal | `session/journal.cpp` | `active-session.json`: pid, snapshot, stage | `save_journal`, `load_journal`, `clear_journal` |
| Lease | `session/session_engine.cpp` | a named mutex | `acquire`, release by destructor or by death |
| Persistent state guard | `session/persistent_state_guard.cpp` | watches (key, event), the stop event, the worker | `start`, `stop`, `watch_loop`, `arm` |
| Persisted settings | `game/adapter.cpp`, `platform/win32/registry.cpp` | the registry | snapshot, compare, restore exactly |
| Process control | `platform/win32/process.cpp` | processes and their threads | spawn suspended, resume, suspend, liveness, terminate |
| Atomic files | `platform/win32/file.cpp` | files | `write_file_atomic` |
| Patch engine | `patch/*.cpp`, `domain/patch_plan.hpp` | the game's code, remote pages, `AppliedPatch` | `apply_patch_plan`, `rollback_patch_plan`, `write_protected`, `allocate_*` |
| Runtime controller | `runtime/runtime_controller.cpp` | `current_fps_`, `fps_control_on_`, the frame rate cell, two threads | `start`, `stop`, `on_foreground_changed`, hotkeys |
| Portable migration | `app/portable_migration.cpp` | the record, source, archive and target files | `migrate_legacy_data`, `complete_config_migration`, `migrate_journal` |
| Elevated session | `app/elevated_session.cpp`, `platform/win32/elevation.cpp` | the pipe, the child process | consent, connect, handshake, result, time limits, termination |
| Notification | `platform/win32/notification.cpp` | a worker thread, its window, icon and timer | `notify`, `drain`, `shutdown_immediate` |
| Signature scanning | `scan/*.cpp` | copies of the game's sections | compile a pattern, find it, resolve an address |
| Game adapters | `game/genshin/*`, `game/starrail/*` | none | capabilities, launch plan, patch plan, roots |
| Configuration | `profile/config.cpp` | one text file | parse, validate, choose a profile, write, upgrade |
| Launch plan and launch service | `game/launch/*`, `app/launch_service.cpp` | none | resolve the profile, build the arguments |
| Command line, doctor, dialogs, displays | `app/main.cpp`, `app/doctor.cpp`, ... | none of their own | call the parts above in order |

How they interact. `launch_service` acquires the lease, calls `preflight` (recovery), then `run`. The
engine calls the adapter for the roots and the patch plan, the registry for the snapshot, the journal
before each stage, process control to start and stop the game, the patch engine while the game is
suspended, and then runs two helpers beside itself: the guard's worker thread, which writes the same
registry values the engine later restores, and the runtime controller's two threads, which share one
number and write one cell of the game. The game runs in a process of its own, writes its settings when it
likes and ends when it likes. All of this may happen in an elevated child, which the launcher starts when
the game needs it: the two agree over a pipe on the configuration and on the outcome, and the child shows
notifications from a worker thread. A launcher can die at any moment; all that outlives it is the journal, the
registry, and the game.

What is hard about it:

* **Crashes.** Between any two steps of a launch the launcher can die. What was changed must be recorded
  on disk before it is changed, and the record may be dropped only when nothing is owed.
* **Borrowed state.** The snapshot is only worth restoring if it was taken before anything changed it. A
  session that starts after a failed cleanup would take the previous session's settings for the user's.
* **Concurrent writers.** The game, the guard's worker, the engine's restore and another launcher's
  recovery all write the same registry values.
* **One-shot notifications.** `RegNotifyChangeKeyValue` fires once; what changes between firing and
  re-arming must not be lost, and the guard's own writes fire it as well.
* **Partial failure.** A patch fails in the middle; a write lands and is reported failed; an atomic save
  reports an error with the new file in place; rollback itself fails.
* **Two processes, one outcome.** The parent times out, terminates the child or loses it while the child is
  about to begin a session or to report one; the configuration on disk can change between their reads.
* **Time.** `drain()` waits a little longer than a notification is shown; a worker that is late, or hangs,
  must not keep the process.
* **Agreement of tables.** What a profile asks for, what an adapter promises and what four other functions
  carry out are written in different places; so are the scanner's windows and the patterns they serve.
* **Start and stop of threads.** `stop()` must leave no thread behind that writes through references to
  what the engine is about to destroy, also when `start()` failed halfway.

What makes each part correct: the engine and the journal, that the user's settings can always be restored
and are; the lease, that sessions never interleave; the guard, that a change it was told of is answered
and that it comes to rest; the patch engine, that a plan is applied as a whole or not at all; the runtime
controller, that the frame rate is the one its two inputs ask for; the migration, that at every moment one
complete copy of the configuration is found; the elevation protocol, that parent and child agree on the
configuration and the outcome, and that both end; the notification worker, that a notification stays for
its time and no icon stays behind; the scanner, that it finds what a definition by quantifiers says it
must and reads nothing else; the launch as a whole, that no feature of a profile is silently dropped.

## The modules

| Module | Models | Extends |
|---|---|---|
| `SettingsStore` | the registry values a session captures: what is stored, a snapshot, agreement, exact restore | |
| `UndoLog` | the promise of a session: an undo log over the store | `SettingsStore` |
| `SnapBack` | the promise of a guard: what it may do to the settings, and when | `SettingsStore` |
| `Session` | launchers, journal, lease, games, guards by their effect, crashes | `SettingsStore` |
| `StateGuard` | the guard in detail: events, notifications, worker, start and stop | `SettingsStore` |
| `PatchEngine` | apply and rollback of a plan, every failed call | |
| `RuntimeController` | the two runtime threads and the thread that starts and stops them | |
| `Migration` | a double click up to the session: first configuration, migration from AppData, schema-1 conversion | |
| `Notification` | the service's caller, its worker, the window's queue, the timer; time in ticks of a second | |
| `Elevation` | parent and child, the pipe, the prompt, the file between them | `Notification` |
| `Scanner` | patterns, snapshots of sections, the sweep, resolvers | |
| `Profiles` | the schema-2 grammar, the ranking of automatic profiles | |
| `Launch` | from the file to a patched game: profile, capabilities, arguments, scan, patch plan | `Profiles`, `Scanner` |
| `MC...` | finite constants for TLC | the module they are named after |
| `SessionProofs` | types of `SettingsStore` and `Session`, with the lemmas on the store | `Session` |
| `SessionSafetyProofs` | the safety of `Session`, that it implements `UndoLog`, and that its guard is `SnapBack`'s | `SessionProofs` |
| `StateGuardProofs`, `PatchEngineProofs`, `RuntimeControllerProofs`, `MigrationProofs`, `ElevationProofs`, `LaunchProofs` | theorems and proofs, those of `LaunchProofs` on `Scanner` and `Profiles` included | the module they are named after |

### SettingsStore, UndoLog and SnapBack

A *setting* is one pair of root key and Screenmanager value name; its type and bytes together are one
element of `Data`, or `Absent`. `snapshot_persistent_roots` leaves out a root that stores nothing; in a
snapshot the settings of such a root are `Unsaved`, which differs from `Absent` in a root that was saved.
`Agrees` is `persistent_state_equals` and `ToRestore` the names `restore_registry_prefix_exact` deletes or
writes. `UndoLog` says what a session owes without saying how: `Open` records the store as it is (or
nothing, when the profile asks for no protection), `Change` changes it only under a record, and `Close`
drops the record only in agreement. Nothing replaces an open record.

`SnapBack` says what a guard may do to the settings without saying how it learns of a change: between
`Start` and `End` it may take up a root (`Wake`), whether or not anything differs there, then puts back one
by one what differs from the snapshot (`WriteBack`) or fails (`GiveUp`), and it is never joined in between.
It is where the two models of the guard meet: `StateGuard` implements it, and the guard of `Session` has
just its steps.

### Session

One process per element of `Launchers`, each at one of 26 program counters; a step is the code between two
points at which the launcher can die or a call can fail. `Acquire` is the lease; `NothingToRecover`,
`MisprobeJournal`, `RefuseRecovery` and `BeginRecovery` the four ways `recover` reads the journal;
`Prepare` to `StartRuntime` the stages of `run_after_preflight` in its order; `AwaitExit` and `StopGuard`
the normal end; `Terminate` and `SaveFailedStage` are `finish_failed`. The three paths to a restore share
`RestoreSetting` (one value at a time), `Verify` and `ClearJournal`, as they share
`restore_session_state` in the code. `SaveFailed` leaves the old or the new journal in place, as
`write_file_atomic` can. A game is gone, suspended, running, or its pid has passed to a foreign process;
only a running one writes settings. `FaultKinds` names the failures one by one, and `Faults` says which of
them an instance can meet.

The history variable `baseline` is what the user's settings would be without HoyoFlux: writes of a game in
a session without protection count as the user's own. `shielded` are the pids of protected sessions. No
action's guard reads either.

### StateGuard

`armed` are the registrations that have not fired, `signaled` the events that are set; a write fires a
registration once (`Notify`). The worker's steps are those of `watch_loop`: wait, re-arm, read, compare,
read again for the restore, one write at a time. `Stop` and `Joined` are the two halves of `stop()`. The
history variables `listening` and `missed` mark the changes the guard could not know of, because no
registration was there, or knew of and dropped, because a call of its own failed. To `SnapBack` the arming,
the events, the waits and the reads are stutters, and the guard is on while the engine is `"watching"` or
`"joining"`: `ImplementsSnapBack`.

### PatchEngine

The game's code is a function from *cells* to contents: bytes or an address of a remote page. An operation
has a *window*, the cells it reads, records and writes, and a *field*, those it means to change; a
redirect rewrites the 16 bytes around its 4-byte displacement, so windows overlap where fields do not.
`ApplyWrite`, `InstallStub`, `Invoke` and `InstallDetour` are the cases of `apply_one`, each with the ways
it fails; a write that fails may have reached any of its cells, because `write_protected` reports a
failure to restore the page protection after the bytes have landed. `Undo`, `FreeStub` and `FreeState` are
`rollback_patch_plan`. `SelfUnhook` is what the Genshin Mobile UI stub does once the game runs. The
history variables `landed` and `leaked` mark the cells of failed writes and the pages of failed releases,
about which the code can do nothing more.

### RuntimeController

`main` is the thread in `start()` and `stop()`, `fg` and `hk` are the two workers. Storing
`current_fps_` and writing the cell are two steps, and so are reading `current_fps_` and storing the
stepped value, because the other thread can come between them. Key presses and changes of window come at
any time; the hook delivers changes in order, and none of windows of its own process. The history
variables say whether the last store met the other thread's write (`apart`), what set the rate last
(`seen`) and which window the hook delivered last (`front`).

### Migration

Each launcher walks through `application_main`: `CheckLocal`, `CheckLegacy` and `WriteDefault` read files
before there is a lease; `Begin` to `Finish` are `migrate_legacy_data` under it, one action per write or
removal with the reads before it; `ReadConfig`, `KeepOld` and `Rewrite` convert a schema-1 file, also
without the lease when `main` calls `migrate_config_file`; `Launch` takes the lease again and recovers,
which `Session` has in detail. A document is an element of `Docs`, a recovery record one of `Journals`; a
record is the four fields a resumed run decides by, and its backup is named by the source's hash. `Stops`
is both a failed call and a death of the launcher: every failed call makes it return, and what it had
written stays. The history variables `original`, `strays`, `owed` and `wanted` say what there was to lose;
`meddled` says that the user edited a file under a running launcher.

### Notification and Elevation

`Notification` has one calling thread, as `operation_mutex_` gives, and one worker. `BeginNotify`,
`BeginDrain` and `BeginShutdown` enter an operation and the call has returned when `caller` is `"idle"`;
the worker's `HandleNotify`, `HandlePosted` and `HandleTimer` are the three messages of its window
procedure, `RequestStop` destroys the window with what was posted to it, and `Leave` is the end of `run()`.
`NoteFaultKinds` are the calls that fail: no window, a shell that refuses, no timer, a post that fails, a
pump that ends, and a call that never returns (`Hang`). `Tick` lets a second pass; the worker may be late by
`MaxLag` of them.

`Elevation` composes it with the two processes. `Prepare` to `Unwind` are `launch_elevated_session`: the
digest, the prompt, `connect` with its limit, the check of the client, three messages, the wait for the
child's exit and only then the result. `OpenPipe` to `Exit` are the child: the check of the server, the
greeting, the digest, a second read of the file, `READY`, then `run_session_without_ui` in the steps that
touch the notification, and the report. A message goes through whole, because its length and its text go
through the same transfers and fail alike. The parent's transfers have a limit (`slow`), the child's have
none: it waits until the message comes or the pipe goes. `Abort` terminates the child while the pipe is
still open. Either process can die at any step; a parent that dies at the prompt takes the prompt along.
`Edit` is the user at the file. The history variables are `slipped`, an edit between two reads in one of
the processes; `age`, how long the notification has been shown; and `excused`, that the worker was late or
could not be told.

### Scanner, Profiles and Launch

`Scanner` follows `for_each_byte_hit`: `CompareChunk` yields the hits of one chunk, `TestHit` tests them in
order, `TailByte` goes on byte by byte where no chunk fits, and `ResolveMatch` turns the first match into
addresses. The anchor is the first of a pattern's longest runs of fixed bytes. `overrun` is a history
variable: a read past the end of a copied section. `Profiles` reads a TOML document as a function from keys
to typed nodes; a text is the value it parses to, and ratios and scales count in hundredths. `Considered` is
the body of the loop in `resolve_auto_profile`. `Launch` walks through `read_config`, `resolve_launch`, the
capability gate of `validate_profile`, `build_render_arguments` and `merge_passthrough`, the snapshot of the
modules, the scan, and the plans of the two adapters, in the order of `run_after_preflight`; a failure
ends in `"refused"`, and what is undone then is `Session`'s subject.

## The runs

| Run | Instance | Shows |
|---|---|---|
| `session` | 2 launchers, 2 pids, 2 roots with 1 setting each, 2 data values, 2 failures of any kind, `probe` where nothing is owed | `TypeOK`; `PendingRestoreIsRecorded`: a setting that differs from the user's always has the user's value on disk; `RunningGameIsNamed`: recovery can ask after every game; `RestoreOnlyWhenStopped`; `SnapshotIsTheUsers`; `ClearedOnlyWhenSettled`; the refinement of `UndoLog`; `JournalEventuallyCleared`: a journal is cleared in the end |
| `session_probe` | crash and `probe` only | violated: see *Findings* |
| `session_empty_root` | no failures | violated: see *Findings* |
| `state_guard` | 2 roots, 3 settings, 2 writes of the game, 1 failed call | `NoLostWake`; the refinement of `SnapBack`; `ChangeIsAnswered`; `GuardComesToRest`: at its wait while it watches, at its end once it has been stopped |
| `patch_engine` | every plan of up to 3 of 7 operations over 3 cells, 4 pages, 2 failed calls | `NoDangling`, `RollbackIsExact`, `AppliedIsThePlan` |
| `runtime` | both services or one, frame rates 15 and 995 with power save 5, 2 window changes, 3 keys, 1 failed call | `CellIsCurrent`, `NeverBelowTen`, `LastChangeCounts`, `NothingAfterStop`, `StopReturns` |
| `runtime_focus` | power save only, no failures | violated: see *Findings* |
| `migration` | 2 launchers, 6 documents (2 of schema 1, 1 unreadable), 2 records, 1 stop, 1 edit | `SettingsInEffect`, `OriginalIsKept`, `JournalIsPassedOn`, `ResumeIsAccepted`, `ConversionIsReversible` |
| `migration_resume` | the same without edits | violated: see *Findings* |
| `elevated` | 2 configurations that launch and 1 that does not, 2 failures of any kind, 1 edit; a notification for 6 s, drained for 7 s, shut down within 1 s, 1 failure of the worker, 1 s late | `OutcomeAgrees`, `FailureLeavesNoChild`, `ConfirmedConfigRuns`, `NoIconLeftBehind`, `ShownForItsTime`, `BothEnd` |
| `launch` | one profile with every combination of features, on 5 images; pairs of automatic profiles, on 3 sets of displays; 6 pairs of patterns on every section of up to 7 bytes | `FirstMatchWins`, `ChoiceIsUnambiguous`, `NoFeatureIsDropped` |
| `launch_fullscreen` | the same | violated: see *Findings* |

Why these bounds are enough. In `session`, two launchers are what a race for the lease needs; two roots
give one that is saved beside one that is empty; two failures allow a crash before a failed restore, or a
failed save with the new bytes in place before a crash, and every path through `finish_failed` needs at
most two. The action constraint `HarmlessProbe` lets a journal be taken for absent only where nothing is
owed and the same profile is launched again, which must do no harm; where something is, `session_probe`
shows what happens. The theorems below, which assume that `exists()` does not fail, remove the bounds for
the safety properties. In `state_guard`, two writes put a change before and one during a snap-back, or one
in each root. In `patch_engine`, three operations are the least that let one overlap two earlier ones, and
the seven kinds are those the adapters and the tests build; again the theorems remove the bounds. In
`runtime`, the frame rates are one step from each end of the range. In `migration`, one stop leaves any
half-done migration to be resumed or to meet the other launcher, and one edit changes one file before,
during or after; two schema-1 documents let a backup of another one be in the way. `MCInit` varies the
configuration files or the recovery records, not both at once, since they share no file and the steps on
them follow each other.

In `elevated`, the durations are those of the code, a quarter of a second rounded up to a tick; two
failures let a handshake fail and the termination fail after it, and one second of lag is the whole of
what a drain has to spare. `detail` is the size of the error's text, should the child report one. The run
leaves out `"fills"`: a text that with its length is larger than the pipe's buffer and yet within
`kMaximumMessageBytes`, both of which are 16 KiB. Such a text would keep the child in its write and the
parent at the child's exit, for ever, and `BothEnd` is violated when it is put in; no text the code composes
comes near that, though nothing bounds them. In `launch`, bytes are 0 to 3, a displacement is one byte and a
chunk is two, so that sections of seven have several chunks, a tail and overlapping hits; the theorems hold
for every such width. `FeatureWorlds` holds each combination that any check of a profile or a plan looks at;
`ChoiceWorlds` every set of predicates beside every one without an aspect ratio and one of four third
profiles, on displays that match by name, by size, turned on their side, or not attached.

Deadlock is checked in `session` and `migration`. The others switch it off because they end: the guard has
been stopped, the plan applied or rolled back, the controller stopped, both processes gone, the game
running or refused.

Fairness. `FairSpec` of `Session`: a launcher's engine thread and its guard worker go on when they can,
which the operating system's scheduler gives; every game is ended and the user starts a launcher again,
without which no journal can be expected to go; foreign processes end. It assumes nothing about failures,
which the bound limits. The guard of `Session`, like that of `SnapBack`, may take up one root after another
without a difference; that it does not keep `stop()` waiting for ever is the strong fairness of
`StopGuard(p) \/ Leave(p)`. The detailed guard justifies it: once `stop()` has been called its worker
finishes at most the round it is in, which `GuardComesToRest` checks. `GuardFairSpec`: the worker runs, and
`start()` runs through; `stop()` need not be called. `RuntimeFairSpec`: the three threads run; users need do nothing. `PostThreadMessage` is taken to
deliver `WM_QUIT`: it fails only with a full message queue, and then `stop()` would wait for ever.
`FairSpec` of `Elevation`: both processes, the calling thread and the notification's worker run, time
passes and the session ends; the user need not answer the prompt. No specification takes a failure for
progress: each fairness condition is about the steps in which no call fails, since otherwise a thread that
waits for ever would be saved by the failure of its wait.

## Findings

* **A journal that cannot be probed counts as absent** (`session_probe`). `load_journal`
  (`session/journal.cpp:848`) drops the error code of `exists()`. After a crash, a launch that meets such
  an error snapshots the changed settings and saves over the only record of the user's. `journal.hpp:55`
  promises `nullopt` only when no journal exists.
* **Values under a root that was empty survive** (`session_empty_root`). An empty root gets no set in the
  snapshot, so restore and verification skip it. `src/docs/persistent-state-experiment.md:19` asks that
  every changed value equal the one before the session.
* **A change of window before `foreground_active_` is set is dropped** (`runtime_focus`). The hook pumps
  as soon as it is installed; `runtime_controller.hpp:14-16` says losing the foreground writes
  `power_save_fps`.
* **A launcher that dies after removing the AppData configuration blocks every later run**
  (`migration_resume`). `portable_migration.cpp:316` removes the source before line 319 saves
  source-cleaned; with local-verified on record and no source, line 423 refuses, though all data was
  migrated. `src/CHANGELOG.md:25` promises the source or a record to continue from.
* **A fullscreen mode without a resolution is not protected** (`launch_fullscreen`). `launch_plan.cpp:21`
  passes `-screen-fullscreen` for any profile with a mode; `session_engine.cpp:291` snapshots, guards and
  restores only with a resolution. `src/docs/architecture.md:41` promises all three for every session.

Smaller things met on the way, which no run turns on: `journal.hpp` says `required` is true from the first
recorded action, and the engine sets it at Patching (`session_engine.cpp:529`), though recovery does not
read it; `write_protected` reports a landed write as failed when the protection cannot be restored, so
"can undo everything it did" (`patch_engine.hpp:3`) excepts that cell; a Ctrl+Down pressed in the
background of a power save below 10 raises the frame rate to 10; the two runtime threads can leave the
cell and `current_fps_` apart when they store at the same time; the guard compares only when a notification
fires, so a change between the game's resume and the arming waits for the final restore, though
`persistent_state_guard.hpp:3` says it watches while a session runs; `notify` has no time limit, so a shell
that hangs holds the session up (`HeldUp`), though `notification.hpp:26` keeps notifications out of control
flow; the parent hashes a later read than the one the user confirmed, and the child parses a later read
than the one it hashed (`slipped`); `launcher.notifications` is parsed (`config.cpp:1023`) and never read; a
`match` with nothing but a priority never takes part in the automatic choice; the flip of Star Rail's write
is left out when its signature is missing, though `starrail_adapter.cpp:202` counts on it; a fullscreen
mode without a resolution passes the capability gate that the same mode with one must pass, and a
borderless one is then refused only after the journal was written.

## The proofs

Each theorem holds for every value of the constants that satisfies the module's named assumptions: any
number of launchers, pids, roots, settings and values, any plans and windows, any number of failures.

`SessionProofs` proves `TypeCorrect`, `Spec => []TypeOK`. Types alone are not inductive: a restore writes
`local[p].snap[s]` for `s` in `todo`, which is a registry value only if `s` is saved. `TypeInv` adds that
what is left to restore is saved in the snapshot at hand, for launchers and guards.

`SessionSafetyProofs` proves `PendingRestoreIsRecorded`, `RunningGameIsNamed`, `RestoreOnlyWhenStopped`,
`SnapshotIsTheUsers`, `ClearedOnlyWhenSettled` and the refinement `Spec => Log!LogSpec`, under the
assumption that `"probe"` is not among `Faults`: with it the first finding refutes them. The argument: only
the owner of the lease is anything but idle (`LeaseIsHeld`), so one launcher's facts are all there is. The
journal it counts on is the one on disk (`JournalIsHeld`) and names the game it may resume (`GameIsHeld`);
that game is dead while it restores (`DeadWhenRestoring`); its snapshot is the user's (`LocalIsTheUsers`);
and until the game has run, nothing differs (`UnchangedUntilRun`). About the world: a running game is
named by the journal, its session is protected just when the journal's snapshot says so, and that snapshot
is the user's. `SafeInv` is the conjunction. None of the checked invariants is inductive by itself:
`PendingRestoreIsRecorded` at a save needs that the snapshot saved is the user's, which at `Prepare` needs
that no game runs, which needs that a running game is named. A step is proved by showing what it does to
its own launcher and that all others, being idle, are untouched; the steps that share a shape (saving the
journal, giving up, writing one setting back) share a lemma.

`SessionTakesSnapBack` is the other half of the guard's composition: while the rest of the session stands
still, `GuardWakes`, `GuardWrites` and `GuardWriteFails` are `SnapBack`'s `Wake`, `WriteBack` and `GiveUp`,
no more and no less. So nothing the session's theorems take the guard to do is missing from `SnapBack`, and
`StateGuardImplementsSnapBack` says that the detailed guard does nothing else.

`PatchEngineProofs` proves `PatchTypeOK`, `NoDangling`, `RollbackIsExact` and `AppliedIsThePlan`. The heart
is what the records say together: the *first* recorded operation that covers a cell saved the game's own
content of it (`FirstSavedTheOriginal`), and a cell that no recorded operation covers still holds it
(`UncoveredIsOriginal`). Recording keeps both, because a new operation is first only for cells that were
uncovered; undoing the *latest* keeps both; undoing any other would not. With `SavedIsOwned` (nothing that
would be put back reaches a released page) and `PagesAreKnown` this gives the rollback, and `InForce` the
applied plan.

`StateGuardProofs` proves `GuardTypeOK`, `NoLostWake`, `QuietAfterStop` and `ImplementsSnapBack`. The invariant says that a root
the guard listens to has its notification registered, its event set, or is the one being re-armed
(`Covered`), and hence that a watched root that differs from the snapshot is signaled, is being served by a
step that has yet to look at it, or is one the guard cannot know of (`Attended`); while a restore writes,
everything that differs under its root is still in `todo`. `Phases` relates the two threads and gives
`QuietAfterStop`: once `stop()` has returned or `start()` has failed, no worker moves. Each step of the two
threads is then one of `SnapBack` or a stutter, by `Phases` for `Start`, `Wake` and `End`, and because
nothing is left to restore outside the worker's `"write"`.

`RuntimeControllerProofs` proves all of its module's safety: `RuntimeTypeOK`, `CellIsCurrent`,
`NeverBelowTen`, `LastChangeCounts` and `NothingAfterStop`. The two threads share the frame rate and the
cell, and each carries a copy of what it is about to write, so `CellIsCurrent`, which speaks of the moments
when neither does, is not inductive. `Together` says that, unless they are apart, at most one of them is
about to write and writes the current rate; `Followed` that after a change of window no key is about to undo
it; `Rates` that every copy is a rate of the profile's or of a step's; and `Joined` which thread can still
run in each phase of `start()` and `stop()`, which is `NothingAfterStop`.

`MigrationProofs` proves `MigrationTypeOK`, `SettingsInEffect`, `OriginalIsKept`, `JournalIsPassedOn`,
`ResumeIsAccepted` and `ConversionIsReversible`, for any number of launchers, documents, recovery records
and stops. Two launchers can be in it at once, because only part of it runs under the lease, and so the proof is one
by rely and guarantee. `LocalInv(p)` is what launcher `p` counts on where it is: where it holds the lease
(`LeaseOf`), which files agree with what it has read whatever the user does (`Notes`, `JournalOf`), and which
do as long as nobody edits under it (`Settled`). `Undisturbed(q)` is what any step of another leaves
launcher `q`; one lemma shows that it keeps `LocalInv(q)`. `FilesInv` is about the files alone: the
properties and what makes them inductive, such as that a record's target is the conversion of its source,
and that a record `"cleaned"` leaves no source.

`ElevationProofs` proves `ElevatedTypeOK`, `FailureLeavesNoChild`, `ConfirmedConfigRuns`, `OutcomeAgrees`,
`NoIconLeftBehind` and `ShownForItsTime`. `Reported`: the outcome is set last, no child exists before the
consent, and the result is read when it is gone. `Confirmed` follows the file through its four reads.
`OutcomeAgrees` has two halves: `SuccessIsTrue`, that a success in the pipe is one of a restored session,
and `Together`, that while no call has failed the two processes go through the protocol in step, whatever
the notifications do. `Tidy` relates the notification's caller, worker, queue and timer; its last part,
`Prompt`, is the argument about time: while the worker is prompt, a drain has a longer wait left than the
notification has to be shown, so it is told of the end before it gives up, and the destructor's wait is not
over before its message is read. `Noted` adds that the running timer and the time an icon has been shown add up
to the time it is due (`Timed`), and that nothing but one drain and one shutdown is ever posted
(`QueueShape`), which gives `ShownForItsTime`. The types need the most of all: a session's configuration is
one because it is the confirmed one, the clocks are in range because of `Timed`, and the pipe's queues hold
each message at most once because of `SentOnce`, that each has one place in the protocol and is sent on the
way out of it. About time, only that `drain()` waits longer than a notification is shown is assumed, as 7 s
and 6 s do.

`LaunchProofs` proves `LaunchTypeOK`, `FirstMatchWins`, `ReadsStayInside`, `ChoiceIsUnambiguous` and
`NoFeatureIsDropped`. Of the scan, for every table, every image and every width of a byte, a field and a
chunk: `ScanInv` says that no match lies before the cursor but for the hits still to be tested, and that none
lies in the modules already swept; that the anchor is a run of fixed bytes, and that there is a first longest
one, is where finite intervals come in. Of the choice: the code compares one sum of four digits
(`RankOf`), the property tier by tier, and `TiersAreRanks` shows that these agree. `Loop` says of the
prefix of the list already considered what the property says of the whole: the best rank and priority in it,
and every profile that has both, each of them once; that a lower one cannot clear a tie nor an equal one
hide is then a case of each step. Of the features: what a document asks for is followed through the stages,
one conjunct for each. The capabilities hold what the profile requires (`Promised`), the arguments render
it (`Argued`), the plan carries it out (`Carried`), the controller has it (`Steered`), and the configuration
is the parser's reading of the document, so that its profile says what the document's table says
(`DocumentRead`).

The assumptions on the constants are those the code or its libraries justify, and the TLC instances satisfy
each: a file that is absent is neither a document nor a record (`MigrationAssumption`), nor an unreadable
configuration one of the configurations (`ElevationAssumption`); a TOML document is a list of tables with
different keys, as the parser accepts no key twice (`WorldsAssumption`); the least and the greatest integer
of TOML are integers (`IntAssumption`).

Every safety property of the passing runs is thus a theorem. What stays with TLC is liveness, with the
fairness it needs (`JournalEventuallyCleared`, `ChangeIsAnswered`, `GuardComesToRest`, `StopReturns`,
`BothEnd`), and the five violated properties. Out of this prover's reach are liveness under fairness,
`ENABLED`, and induction over data; no module uses a recursive operator.

## What is not modelled, and why

* In `Session`: the journal's text and its stage, which recovery never decides by; the grain of threads in
  suspend and resume; two portable copies with journals of their own under one lease; physical displays,
  of which version 1 records none (`session_engine.cpp:308`).
* In `PatchEngine`: machine code and instruction caches; a bootstrap thread that outlives its wait, which
  only plans with `InvokeBootstrap` can start and `kPayloadValidated` keeps out of use.
* In `RuntimeController`: a full message queue, and the writer's own failure modes.
* In `Migration`: the text of the record; a user who deletes files; an old version still running; several
  portable folders that share one AppData folder; the diagnosis, which writes a report and nothing else.
* In `Elevation` and `Notification`: another process that answers on the pipe, though the checks that would
  refuse it are steps; a `NIM_DELETE` that fails; a second worker beside one that was abandoned, which no
  caller can start; a `WM_TIMER` that outlives `KillTimer`: the message is
  made only when it is fetched.
* In `Launch`: the text of TOML and of patterns, PE headers, and addresses beyond 64 bits; the addresses
  and bytes of the real signatures, which are data; `scan_all`, which only tests call; the process priority,
  of which `NoFeatureIsDropped` says nothing; paths and environments.
* The writer of TOML text, the diagnosis, the dialogs: text and input from the user, without state that
  another part reads. Physical displays are never recorded, so nothing of them is restored.

## Plan

Done: every module above, and a proof of every safety property that a run checks. What is left, in this
order:

1. Composition, as `SnapBack` joins `StateGuard` and `Session`: `Session` in the place of `StartSession` and
   `EndSession` of `Elevation`.
2. The journal's text and stage, and the suspension of single threads.
