# hyprmoncfg: verification project

TLA+ models of the daemon of hyprmoncfg and its clients, the TLC configurations that check
them on small instances, and TLAPS proofs of what matters most. Paths below are relative to
the repository; line numbers are those of the commit this project was written against.

hyprmoncfg configures the displays of the Hyprland compositor. A terminal interface and
a command line edit *profiles* (layouts of displays); a daemon, `hyprmoncfgd`, applies the
one that fits the displays connected, and is the only writer: the interfaces ask it over
IPC to *preview* a layout, which goes back by itself unless it is confirmed in time.

## 1. Inventory

State is what a component keeps between two operations.

| Component | Source | State | Operations | Hard part | Correct when |
|---|---|---|---|---|---|
| Preview transaction, service control | `internal/daemon/ipc.go` | the pending preview, its owner, deadline and snapshot; the manual pin; the unmanaged marker | preview, confirm, commit, revert, disconnect, expiry; manage, unmanage, set_profile_auto, save, delete, rename, status | one goroutine per connection, one for the loop, one per timer; three mutexes | one preview at a time, nothing else on screen during it, kept in time or put back |
| Automatic reconciliation | `internal/daemon/daemon.go:947-1207`, `applied.go`, `rejected.go`, `laptop.go` | last profile, set and lid; applied and rejected layouts | a pass: pick, adjust, apply, remember | runs for the loop and for clients; every read may fail | the layout fits set, lid and sensor; a rejected one is not retried for ever |
| Apply engine | `internal/apply` | none; files on disk and a snapshot | Apply, Revert | many files and a compositor change in sequence; each step may fail, and so may its rollback; users edit meanwhile | all or nothing; no include of a missing file; edits survive; success means it ran |
| Event loop | `internal/daemon/daemon.go:240-786` | debounce, generations, sleep guard, wake retries, recovery | one case per event source | events race timers, probes and passes | no change is forgotten; sleeping displays are left alone; a wake takes |
| Display fallbacks | `internal/daemon/fallback.go`, `internal/profile/fallback.go` | per display: step, counters, settle and backoff | observe events and applies, adjust, restore | counters over reconnect storms | a failing display steps down, and comes back up only when stable |
| Stale CRTC recovery | `internal/daemon/stalecrtc.go`, `internal/console` | attempts and wait | console switch and back | must not switch again and again, nor stop half way | doubling wait, back on the user's console |
| Workspace memory | `internal/daemon/workspace_memory.go` | what each display last showed | observe, restore | read from two goroutines | restored once, for a display that came back |
| Automatic rotation | `internal/daemon/rotation.go` | sensor reading, lock, calibration | observe, set, claim | sensor absent or flat | the lock survives restarts |
| Writer lock, process life | `internal/writerlock`, `cmd/hyprmoncfgd` | a file lock | start, stop | crash and restart | one daemon; a pending preview is undone on stop |
| IPC protocol | `internal/ipc` | requests under way, subscriptions | calls, replies, events, disconnect | late replies, slow readers | a reply reaches its call; a disconnect reaches the service |
| Omarchy integration | `internal/omarchywatch` | ownership of the watcher, of the toggle and of a wake block | claim, release, sync, restore | two processes and the user write the same files | what was found is put back |
| Configuration files | `internal/config` | none; root config, include, marker | ensure, remove, retire | user edits, dialects | the include is last, and only while managed |
| Profile store | `internal/profile/store.go` | files | list, load, save, delete, rename | partial writes, names that share a file, symbolic links | nothing saved is lost; references follow a rename |
| Matching | `internal/profile/match.go`, `identity.go`, `hotplug.go`, `clamshell.go` | none | match, extend, close the lid, resolve | two displays of the same make | what was applied is recognised; a rule is for the display it was saved for |
| Workspace plans | `internal/profile/workspaces.go` | none | resolve, read back from live rules | many plans give the same rules | a plan that was applied is read back |
| Layout editing | `internal/profile/editor.go`, `placement.go`, `internal/tui/canvas_placement.go` | the draft, a drag | resize, move, turn, mirror, drag, drop | what an edit carries along | no display lies on another; the others stay |
| Rendering, scaling, import/export | `internal/render`, `scaling`, `profileio` | none | pure | wording | |
| Hyprland client, lid, suspend, orientation, console | `internal/hypr`, `lid`, `suspend`, `orientation`, `console` | subscriptions | query, dispatch, watch | timeouts, lost sockets | |
| Terminal interface | `internal/tui`, `runTUI` | dialogs, draft, preview seen, the guard of an exit | keys, commands, answers | answers in any order, an exit from anywhere | no layout stays that nobody kept |
| Command line | `cmd/hyprmoncfg` | none | calls, or the same operations under the writer lock | a daemon that starts meanwhile | one writer |
| Application status | `internal/appstatus` | none | pure | | |

How they interact. Interfaces call the service over one IPC connection each, whose
requests run in order; the end of a connection calls `Disconnect`. Calls and the event
loop share the pending preview (`pendingMu`), the pin (`manualMu`) and the displays
(`writeMu`, one writer at a time). Whoever holds `writeMu` may call the apply engine, which
renders a profile, writes files through `config` and `omarchywatch`, and asks Hyprland to
reload. Hyprland's events, the lid, the suspend signal and the sensor reach the loop over
channels; a worker queries displays for it.

The hazards this gives rise to are listed in `PROJECT.json`, each at its line and with the
properties that would catch it.

## 2. Modules

| Module | Models |
|---|---|
| `PreviewService` | `ipc.go` next to the automatic pass, start, stop, crash and restart of the daemon |
| `SafePreview` | what a user is promised of a preview, without connections, locks and timers |
| `ApplyEngine` | `Engine.Apply` and `Engine.Revert`, a step per file operation, reload or query |
| `AtomicApply` | what a caller of the engine may rely on between calls |
| `EventLoop` | `Service.Run`: every case of its select, the probe worker, and the pass as it affects them |
| `TerminalSession` | the terminal interface: dialogs, applies, previews, saves, quits, with and without the daemon |
| `LayoutEditor` | the draft of a layout and every edit of it, by key, mouse, dialog or Omarchy's panel |
| `WorkspacePlan` | workspace plans, the planner that edits them, the rules they come to and how those are read back |
| `DisplayFallbacks` | displays that fail at their saved settings: steps, retries, waits |
| `ConsoleRecovery` | displays the kernel keeps stuck: evidence, console switches, waits |
| `WorkspaceMemory` | what displays last showed, and giving it back |
| `AutoRotation` | sensor, tablet switch, lock, calibration, and the turn that is due |
| `LidWatch` | where the lid's position comes from |
| `IpcChannel` | connections, calls, deadlines, subscriptions, events, the server's end |
| `WriterOwnership` | the writer lock, daemons and direct editors, Omarchy's watcher |
| `ProfileStore` | the files of profiles, what refers to them, the terminal's list of them |
| `ProfileMatching` | identities, matching, extension, closed lid, resolution, rules of absent displays |
| `MC*` | model values, definitions and symmetry for TLC; `MCParts` and `MCTerminal` also combine modules, see 2.4 |
| `PreviewServiceProofs`, `ApplyEngineProofs`, `EventLoopProofs`, `TerminalSessionProofs`, `DisplayFallbacksProofs`, `ConsoleRecoveryProofs` | theorems about the module of that name |
| `SharedFilesProofs` | theorems about `WriterOwnership` and `ProfileStore` |
| `ProfileProofs` | theorems about `ProfileMatching`, `WorkspacePlan` and `LayoutEditor` |

The first three detailed modules meet at the pass. `EventLoop` has its beginning (what it reads)
and its end (what it reports); `PreviewService` has it as a locked section that picks a
layout and applies it; `ApplyEngine` opens up the apply itself. What a lower module shows is
what the higher one assumes: `PreviewService` takes an apply as one step that succeeds,
leaves everything as it was, or leaves one of the mixtures `AtomicApply` allows;
`EventLoop` takes clients as holders of `writeMu` that may begin or end a preview.

The others open up one part of that picture each: `ProfileMatching` how a pass picks and adjusts a
layout, `DisplayFallbacks`, `WorkspaceMemory` and `ConsoleRecovery` what it does beside applying it,
`AutoRotation` and `LidWatch` where the loop's events come from, `IpcChannel` how a call reaches
`PreviewService`, `WriterOwnership` and `ProfileStore` what its Manage, Unmanage, Save, Delete and Rename do,
`TerminalSession` what a client does with it.

### 2.1 PreviewService

| State | Code |
|---|---|
| `pending` | `Service.pending` (`ipc.go`): id, owner, requested and effective profile, snapshot; `past` and `rang` are its deadline and its timer |
| `fired` | goroutines of `time.AfterFunc` that run `expirePreview(id)` and wait for `writeMu` |
| `writer`, `plan` | holder of `writeMu` across an automatic pass, and the layout it settled on |
| `pc` | where a call is between two locks |
| `manual` | the manual pin and the monitor set it was made for |
| `file`, `screen`, `included`, `managed`, `store` | the generated file, the layout in force, the include in the root config, the marker of `config/managed.go`, the saved profiles |
| `suppressing`, `seen`, `lidState` | the claim on Omarchy's watcher, the set a status call read, the cached lid |

A layout is its name, the quarter turns of its built-in panel, and whether that panel is on:
the closed-lid policy, the panel that must be kept on, and the orientation are operators on
that. A handler that takes `writeMu` first is one action. One that does not is split where
another goroutine can get in: `SetProfileAuto` looks for a preview before it locks,
`UnmanageMarks` writes the marker before it locks, `Manage` and `Status` do not lock, and
`StartChecks` / `StartIncludes` read and act without it. `AutoBegin` / `AutoFinish` are the two
ends of a pass, between which the marker, the lid and the sensor may change.

`SafePreview` is its abstract specification: `SafelyPreviewed` is
`INSTANCE SafePreview` with the layout in force, the file and the include as `shown`.

### 2.2 ApplyEngine

Every file is replaced by a rename, so a step reads or writes one whole file. `pc` is the
position in `Apply` or `Revert`, `job` its locals, `snap` the `RevertState`, `read` the root
config last read. Every step may fail; after the first write a failure reverts, and a revert
that fails stops. Between any two steps the process may die, the user may edit the root
config or the wake block, Hyprland may reload on its own, and displays may change. A Lua
config checks with a marker that the file really ran; `ran` is the history that says whether
it did. Verification waits until displays match, or reports a mismatch or a compositor that
does not answer.

`AtomicApply` sees only the generated file, the include, and whether a caller holds a
snapshot: `AtomicallyApplied` maps a call under way to the state it started from.

### 2.3 EventLoop

| State | Code |
|---|---|
| `events`, `socket`, `lidEvents`, `lidLast`, `sleepEvents` | what Hyprland's socket, `lid.Watch` and `suspend.Watch` have yet to deliver |
| `triggers` | `triggerCh`, as counts of stale and fresh triggers |
| `request`, `answers` | `probeRequests` and `probeResults` |
| `pending`, `pendingFresh`, `timer` | the debounce |
| `probing` | `topologyProbePending` |
| `guard`, `wakeRetries`, `wakeRequested` | `displayGuard`, `wakeRetries`, `Service.wakeRequested` |
| `recovery`, `suspended` | an armed recovery timer, `systemSuspended` |
| `shown`, `rejected`, `lastSeen`, `lidState`, `turn` | the layout applied, the rejected one, `lastSeenHash`, the cached lid, the sensor |
| `writer`, `view`, `preview` | `writeMu` during a pass or a client's operation, what the pass read, a pending preview |
| `lost` | history, see below |

`probeGeneration` is only ever compared for equality with the generation a trigger, a probe or
a debounce carries. Each of those has instead whether it is *fresh*; what increments the
counter makes all of them stale. The number of generations is then unbounded and the state is
not. A layout is the situation it was made for (displays, lid, turn), so that "the screen is not
what a pass would now make it" is a comparison. Time is left out: an armed timer may fire at any
moment, so no property depends on a delay.

### 2.4 The parts

The modules of this section have few variables in common with the rest of the daemon and none with
each other. `MCParts` and `MCTerminal` hold them side by side, with a variable `part` that says which of
them a behaviour is about; the others keep their first state. A property of such a run is a
conjunction over parts. Nothing is composed by that: it is one run that asks each part its
question.

| Module | State | Actions |
|---|---|---|
| `TerminalSession` | `ui`: mode and flags of `Model`; `clock`: tick chains; `guard`: `pendingRevertGuard` and `pendingRemoteGuard`; `jobs`, `mail`: commands under way and their messages; `world`: what is shown and kept, the daemon's preview | one per key and mode (`MainKeys`, `DialogKeys`, `ConfirmKeys`), per message (`Messages`) and per step of a command (`Runs`); `RevertPending` is what `runTUI` does last |
| `LayoutEditor` | `outputs`: `editOutputs`; `drag`; `mode` | one per edit. Each goes through `Edited` (`guardLayoutEdit`): reflow, then overlaps. `PanelSends` is `ApplyEditorEdit` |
| `WorkspacePlan` | `planner`: the draft's plan and what `workspaceEditor` remembers; `stored`; `assigned`: the compositor's rules | one per planner key; `AppliesPlan`, `SavesPlan`, `RereadsPlan`, `LoadsPlan` |
| `DisplayFallbacks` | `mem`: `displayFallbacks`, by display; times are ages that stop counting at the largest threshold; `events`: what Hyprland's socket has yet to deliver; `inMind`, `rejected`: `s.applied`, `s.rejected`; `does`: what a pass has come to do | `Tick`, `TimerFires`, `HearsEvent`, the beginning of a pass and its five ends (`PassAppliesNothing`, `PassSucceeds`, `RetryRejected`, `LayoutRejected`, `PassFails`); displays plug, drop and lose their mode |
| `ConsoleRecovery` | `attempts`, `next`: `staleCRTCRecovery`; `attached`, `routed`: sysfs; `clamshell`: whether the layout has the built-in panel off; `console`, `stage` | one per step of `recoverStaleCRTC`, each with its failure |
| `WorkspaceMemory` | `last`, `connected`, `returning`; `phase`, `restores`: a pass under way | `Probes`, `Applies`, `ReadsBack`, `ShowsWorkspaces`, `AlreadyApplied` |
| `AutoRotation` | `rotation`: `autoRotation`; `signals`, `sensorClaimed`, `retrying`: `orientation.follow`; `readings`: its channel; `declined`: the turn whose layout is `s.rejected`; `unread`: history, the last reading failed | one per signal, reading and call, and the pass as one step: `TurnPass`, `TurnRejected`, `TurnPaused` |
| `LidWatch` | `lidSignals`, `lastSent`, `states` | `TakesSignal`, `Polls`, `RunTakesState` |
| `IpcChannel` | `requests`, `wire`: the two directions of a socket; `pending`, `spoiled`: `Client`; `serving`, `subscribed`, `token`, `publisher`: `Server` | `Calls`, `Receives`, `ReadFails`, `Handles`, `Replies`, `Ends`, `PublisherReads`, `PublisherSends`, `Stops`, `Exits` |
| `WriterOwnership` | `lock`; `polling`, `claimed`, `caught`, `release`: `Owner`; `managed`: the marker | start, claim, poll, each step of `Release`, crash; `Opens`, `Asks`, `Closes` of a direct editor |
| `ProfileStore` | `json`, `content`, `dotfile`, `sidecar`: files; `job`: the operation under way; `refs`: `applied`, `rejected`, pin | a file operation per step, with failure and crash before each; the terminal's dialogs and refreshes |
| `ProfileMatching` | `fitted`: the display of each connector; `path`: its place in a hub, which stays when connectors get other names; `shown`: the compositor's state; `profiles`; `wake` | `Plugs`, `Unplugs`, `SavesDraft`, `Passes` |

A few points a reader of the code may stumble over. `json.Decoder` keeps the first error it has
met, a deadline's included, so a client whose call ran out of time reads nothing any more
(`spoiled`). Names that differ only in case share one file (`Files`). Two displays of one model
without serial numbers have one hardware key (`Key`), and their outputs are told apart by
their place in the hub, the DRM path that `enrichMonitorConnectorPaths` reads for just such displays, or by connector
where there is none (`Stable`). The key a profile has keeps the place it was saved with (`Disambiguator`). In `LayoutEditor` `excused` remembers that an overlap was loaded, which the code
accepts until the next edit repairs it, or that a dialog swallowed the release of a drag
(section 5).

Loops over a draft's displays are stated so that they can be proved about. The edges a display can be
put beside are numbered in the order the code tries them, four for each display, so that "the first at the
least distance" is the least number among those (`Nearest`); `ResolveOverlaps` is a recursive function of
how many displays have had their turn; what moves with a resized display is the least set closed under
`Linked` (`Moving`), where the code runs a loop until nothing changes. `ProfileMatching` and `WorkspacePlan`
do the same for sorted outputs and planned workspaces (`Nth`, `AtPlaces`, `Once`).

## 3. Runs

Liveness is checked without symmetry. Every passing run has `CHECK_DEADLOCK FALSE`, as the
bounds on calls, moves and faults let an instance come to its end.

| Run | Instance | Shows |
|---|---|---|
| `Preview_transaction` | 2 connections, 1 profile, 2 previews, a sensor with 2 turns, Unmanage, 1 failing restore, crash and restart | types; a preview owns the screen; it ends by being put back, kept in time, or with the process; a late timer is harmless; what was kept is what the next pass keeps |
| `Preview_handback` | 2 connections, no preview; two sets of displays, both lid positions, 2 turns, saves, deletes, status | after Unmanage the include stays out, whatever pass was under way, unless that Unmanage could not take it out |
| `Preview_liveness` | 2 connections, 2 previews, no failing restore, fair | implements `SafePreview`; every preview ends; every call returns |
| `Apply_lua` | 2 applies or reverts with all failures, 1 edit, Lua | success means the file ran; failures name their cause |
| `Apply_legacy` | 1 apply and its revert, 1 edit, hyprlang, Omarchy's toggle and wake block, an older version's file, fair | no dangling include, no lost rules, restored means restored, edits survive; implements `AtomicApply`; every call returns |
| `Loop_safety` | UPower, 2 moves (hotplug, lid, sensor, idle, suspend), 1 fault (query, apply, switch or socket), a display that may go and come back | types; guard and wake request exclude each other; asleep or suspended, no timer is armed; no change is forgotten; a stale close never turns the panel off |
| `Loop_liveness` | polled lid, 1 move (hotplug, lid, idle, suspend), a display that may be missing, 1 client operation, fair | the screen ends up as displays, lid and device ask for |
| `Terminal` | with and without the daemon, 1 apply, 1 save, 1 revert by key, 1 fault, fair; a desk of 3 displays, 1 edit, 1 drag, 1 load | nothing unkept stays unwatched, also after an exit; what is kept was on screen; previews end; drafts have no overlap and edits move what they may |
| `Parts` | see below | the questions of 2.4 |
| `Loop_wake_lost`, `Ipc_late_reply`, `Match_wrong_display` | | disagreements, section 5 |

The instances of `Parts`:

| Part | Instance | Properties |
|---|---|---|
| F, `DisplayFallbacks` | 1 display with rates 60, 120, 144, 2 saved settings, waits of 2 and 3 ticks, 2 faults (rejected layouts among them), or 1 fault and 1 call, a state file or none | `BackoffsHold`, `DisplaysRecover` |
| C, `ConsoleRecovery` | 2 connectors, the built-in panel in the layout or off, 2 mishaps (unplug, failing call, stop) | `BackoffsHold`, `DisplaysRecover` |
| W, `WorkspaceMemory` | 2 screens, 3 workspaces, plan on or off, 2 changes | `TakenIsReturned` |
| O, `WriterOwnership` | 2 daemons, 1 editor, 1 trouble (crash, failure, a watcher started by others) | `OneWriter`, `TakenIsReturned` |
| R, `AutoRotation` | 2 turns and flat, 2 moves: of device, switch or sensor service, a reading that fails, a layout that is rejected, a preview or a setting | `SensorsAreHeard` |
| L, `LidWatch` | 3 sources, a channel of one, 3 moves of the lid or the sources | `SensorsAreHeard` |
| I, `IpcChannel` | 1 caller, 1 subscriber, 2 connections, a socket that takes one message | `ClientsAreServed` |
| S, `ProfileStore` | 3 names of which 2 share a file that is a symbolic link, 2 operations, 1 failure or crash; or a terminal with 1 operation | `NothingIsLost`, `NamesFollow` |
| M, `ProfileMatching` | a laptop with 3 ports, 2 of them in a hub with two places, displays of one model, the laptop's own among them, or of two, up to 2 profiles from before (one saved in the hub), 2 plugs, 1 save | `ExtensionFits`, `AppliedIsRecognised` |
| P, `WorkspacePlan` | 3 displays, at most 4 workspaces in groups of 1 to 4, 4 steps of the planner | `PlanIsReadBack` |

Why these bounds are enough. Two connections suffice for every race over one lock or one
preview, and a third would repeat one of the two; two previews are needed for a timer of the
first to meet the second. Two applies are needed for a Lua marker to survive into a later one.
Two moves are needed for one event to invalidate what another left pending: every handler of the
loop is met in each state another can leave it in, and a third move (checked once with two sets of displays and without
faults, 3.5 million states) showed nothing new. `TriggerCap` is 1 or 2 instead of 8 so that the
channel does overflow, `AnswerCap` 1 instead of 2 so that the worker waits, `WakeRetryLimit` 1 instead of 3 so
that retries run out; the code compares each only with its limit. In the parts, two of a kind
are there where they can be taken for each other (screens, connectors, displays of one model, names of one
file, daemons over one lock) and channels hold one so that they fill. Two changes let a screen leave
and come back; two mishaps let a switch fail after another; three moves of the lid let a signal,
a poll and a lost source overtake each other. Four steps of the planner are two changes, an apply and a reread. The
terminal's one apply and one save are two previews in a row.

`EditsInclude = FALSE` in `Apply_legacy` lets the edit change the user's own lines and not the include, of
which `Apply_lua` has the edits too: with the atomicity of the engine in the same run the instance would be
too large. `NoOverlap`, a constraint of `Terminal`, cuts behaviours where an apply was begun while
another preview was open or ending, or a preview was kept while its revert was under way; those do break the
promises, section 5 has them.

`Unreconciled` in `NothingForgotten` and `Reconciles` has two named exceptions. `lost` is a history
variable for changes the code knows no second source for: a trigger dropped by the full channel;
a hotplug missed by a closed event socket that leaves what the last poll saw, or comes while an
apply is about to remember the new state as seen; a lid event that is nothing new because a pass read the switch before it; a pass
that cannot read the switch and goes by the wrong position it remembers; and, without UPower, a lid change undone
between two polls. It is cleared by the next pass of the loop that knows the lid.
`wakeRetries > 0` is the lost wake of section 5. The others name their exceptions the same way: `left` (an
Unmanage that could not take the include out), `untimed`, `unlit` and `Refused` (fallbacks), `console = "lost"` and
`Tolerated` (console), `debt` given up (workspaces), `slighted`, `unread` and `declined` (rotation), `missed`
(events), `ByHardware` and `Displaced` (matching), `EveryDisplayHasRules` (plans); each is in section 5.

## 4. Fairness

`FairSpec` of `PreviewService`: a started handler runs on. Handlers wait for a Go mutex, which
hands itself to a waiter it has starved for a millisecond, hence strong fairness; time passes,
hence weak fairness of the deadline and its timer. Nothing makes a client call.

`FairSpec` of `ApplyEngine`: a call under way takes its next step; a verification that goes on
runs out of time. `FairSpec` of `EventLoop`: Go's select takes, at random, one of the cases that are
ready, so a case that stays ready is taken; tickers tick and armed timers fire; the probe worker,
the client that holds `writeMu` and the pass run on. Nothing makes displays, lids, users or
clients do anything: a machine that was suspended does resume, though.

`TerminalSession`: Bubble Tea takes every message, a command ends (each has a time limit), ticks come and
the daemon's deadline passes; no key is ever pressed of necessity. In the parts, weak fairness of what
the loop, a goroutine with a ready case, a ticker or a pass does next, and of nothing a person, a
display or another service does; each module states it at its end and `MCParts!Fairness`
collects them. A sensor service that refuses for ever, a bus that is gone and a socket
nobody reads are not made fair.

## 5. Disagreements found

Each was met while writing the module of its group; `(run)` marks those a run shows. The others are
steps of the model that its properties or constraints except by name, or are cut off by a bound; they
follow from reading the lines given.

Daemon and engine:

| Where | What |
|---|---|
| `daemon.go:671` (`Loop_wake_lost`) | The lid opens while a hotplug's probe is pending. The probe's answer ends whatever is being debounced; if it finds the displays still dark, a requested wake makes Run go on without a trigger. Neither the wake is repeated nor the layout applied, although the comment says the pending reconciliation does it and `docs/_guide/daemon.md` promises three repeats. |
| `ipc.go:218` | SetProfileAuto looks for a preview before it locks; one that starts in between is active when the mode changes. |
| `ipc.go:584` | A revert that fails at the deadline is not tried again: the preview stays, and automatic switching with it, although `docs/_reference/ipc.md:83-86` says the deadline reverts it. |
| `ipc.go:61` | A status call reads displays and pin without `writeMu` and drops the pin committed after the displays it read have changed. |
| `ipc.go:180-192` | Unmanage only logs a root config it cannot resolve, read or write, a watcher it cannot start and a reload that fails, and reports success: the include may still be there (`left`), and with the marker set nothing takes it out. |
| `cmd/hyprmoncfgd/main.go:135` | A daemon that dies during a preview leaves it on disk and on screen (`EndedByExit`): the next one knows nothing of it, and no deadline puts it back. `PreviewsEndProperly` allows this end by name. |
| `ipc.go:309` | Preview applies without asking for the unmanaged marker, which `config/managed.go:25` says is checked before every apply: Unmanage, then Preview. |
| `ipc.go:131` | Manage marks and claims Omarchy's watcher without a lock: Manage removes the marker, Unmanage runs entirely, Manage claims. The displays are unmanaged and the watcher is suppressed. |
| `daemon.go:862` | A lid change drops the pin, which `docs/_reference/ipc.md:95` says only hardware, a restart or set_profile_auto does. |
| `ipc.go:365` | Commit saves the requested profile, `docs/_reference/ipc.md:97` says the effective one. |
| `daemon.go:822` | The startup include checks the marker without the lock; an Unmanage in between is undone. |
| `apply.go:663` | An edit of the root config between a revert's (or `EnsureIncluded`'s) read and its write is overwritten; `EditsSurvive` bounds the loss to that window. |
| `daemon.go:594` | A client's pass reads the switch before the lid event arrives. The event is then nothing new: an opened lid asks for no wake, and if that pass failed, nobody applies the change. |
| `daemon.go:1200` | A hotplug during an apply, with the event socket down: the apply remembers the new state as seen, so the fallback poll finds no difference. |
| `daemon.go:710` | With the event socket down, a pass meets no display and leaves the state the last poll saw; the displays come back before the next poll, which finds no difference. |
| `daemon.go:852,966` | A lid event that arrives during a suspend is not looked at, and if the readings of the switch on resume and in the pass that follows both fail, `refreshLidState` keeps the position from before in silence: the layout is made for a lid that has moved, and nothing tries again. Found when the proof of `NothingForgotten` would not go through; two faults, one more than `Loop_safety` has. |
| `daemon.go:745` | Standing down for a preview does not end a wake request, so displays that go idle during the preview are not taken for sleeping. |

Displays, workspaces, sensor, lid:

| Where | What |
|---|---|
| `fallback.go:466`, `daemon.go:540,773` | A client's pass counts as having seen a display's picture, but only the loop arms the settle timer (`untimed`), and a pass that itself lights a display starts no clock (`unlit`). A gently woken display that is dark at its one tick, or at the daemon's start, stays at 60 Hz until something else happens to it. |
| `daemon.go:1161` | A layout that the verification rejected is not tried again once the rollback has left every display usable, until displays, rules or the layout change, as `docs/_guide/daemon.md:75-86` says: a display then stays off its saved settings (`Refused`), a panel stays unturned (`declined`). |
| `daemon.go:1138` | The same passage exempts retries of the saved settings. But a rejected layout is kept in mind by a pass that finds the fallback applied already (the return at 1130 comes before `s.rejected = nil`), so a later retry that asks for that very layout is refused with `restoring` left set. It takes more faults than the run has; the proof of `RetriesBackOff` covers those states. |
| `orientation.go:199` | A property read that fails, or a sensor that is not there at that moment, is sent on as unavailable, and nothing reads again before the next signal (`unread`): the panel stays as it was. |
| `console/console.go:76` | If the context ends while logind is asked to switch away, the call returns although logind may have switched, and nothing switches back; line 83 has "Return even when ctx ended". |
| `daemon.go:1147` | When no other display shows a picture the built-in panel is lit in place of a stuck one and the apply tolerates that (`TolerateModeless`): it succeeds, so `recoverStaleCRTC` does not run (`Tolerated`). |
| `daemon.go:1130` | A pass that finds the layout applied already returns before it restores workspaces, so a display that came back to an unchanged layout keeps the compositor's default; `docs/_guide/daemon.md:111-113` promises the workspace it last showed. |
| `workspace_memory.go:92` | A display stops waiting before the batch that shows its workspace: a batch that fails is not repeated. A reading from before the display left ends the wait too. |
| `rotation.go:261` | A lock, reversal or unlock whose apply fails is only logged; calibration alone signals another pass. |
| `profile/rotation.go:50` | `Oriented` reflows the neighbours of a turned panel but resolves no overlap, as the editor's turn does. |
| `lid.go` | Without UPower's signals, a lid that moves twice between two polls, or across a suspend, is not heard. |

Clients:

| Where | What |
|---|---|
| `ipc/client.go:255` (`Ipc_late_reply`) | After one call has timed out, later calls of that client fail although their replies arrive: the decoder keeps the deadline's error. The comment says a late reply is dropped and reading goes on. The terminal redials only for failures that are not timeouts (`tui/model.go:3180`). |
| `ipc/server.go:95` | A change published between a subscribe's registration and its reply reaches the subscriber before the reply (`docs/_reference/ipc.md:40`: "followed by"). If reading the status for an event fails, the event is dropped (`server.go:130`, `missed`). A subscriber that does not read holds up the publisher for all. |
| `identity.go:33` (`Match_wrong_display`) | An output whose display is absent resolves to whatever else is on its connector, which then gets its settings. `docs/_guide/daemon.md:214`: "not connector name". Two units without serial numbers saved on two connectors both resolve to the one that is connected; if one was saved off, the only display is turned off. |
| `monitor.go:158`, `match.go:286-356` | A display that was saved alone, or at another place of the hub, has another key than it gets beside one like it: a profile saved with one unit names the absent one's place after the connector (`m@dp-5`), the live state after the hub (`m@mst-1`). The layout is applied and shown, and status reports no profile (`Displaced`, proved by `DisplacedIsUnknown`). |
| `match.go:286` | "The profile that describes exactly the connected displays beats a larger profile" (`docs/_guide/daemon.md:235`) holds only if displays are on or off in both alike. |
| `workspaces.go:229` | A plan that leaves a display without a workspace is read back as another: groups of four on one of two displays come back as groups of three, a manual plan 1-A, 2-B, 3-A beside a third display as a round of all three. The saved profile is then not recognised as active, and workspaces move at the next apply. `docs/_guide/tui.md:201` says the order is preserved. `PlanIsReadBack` excepts these by `EveryDisplayHasRules`. |
| `tui/model.go:2865` | Switching to manual keeps the manual rules of an earlier visit; `docs/_guide/tui.md:210` says it starts with the plan on screen. |
| `omarchywatch/owner.go:100` | A poll's stop that succeeds while Release cancels it is not recorded, so the watcher is not started again; nor is it after a crash. |
| `cmd/hyprmoncfg/main.go:541` | Manage and unmanage without a daemon write marker and include without the writer lock. |
| `store.go:104` | Save replaces a symbolic link by a file, where Rename keeps it ("Symlinks stay links"). |
| `store.go:110` | A Delete that fails after the JSON file leaves sidecars, and these refuse a later rename to that name. |
| `tui/interaction.go:934` | The dialog for a profile's command keeps a place in the list: a refresh that reorders the list gives the command to another profile. |
| `tui/interaction.go:1259` | A dialog takes the mouse release of a drag, which goes on afterwards; a press on another display then leaves the dragged one where it lies, overlaps included, against `placement.go:10-13`. Overlaps do not stop a save. |
| `tui/interaction.go:998` | The comment says an edit that grows into a neighbour is refused; it is carried out and the overlap resolved. |
| `tui/model.go:650` | The answer of a revert ends whatever preview is pending: two reverts by key, with another preview in between. `n` and then `y` without the daemon says kept after it was put back. These and the next are what `NoOverlap` cuts. |
| `tui/model.go:517` | Save-and-apply begins an apply without asking whether one is under way. |
| `tui/model.go:492,508` | The answer of a save puts the mode back to main also when a preview's dialog has opened since: the dialog, and with it the countdown, is gone. |
| `main.go:765` | A program that ends reverts over the connection its model started with; `refreshMsg` may have replaced and closed that one (`model.go:442`). |
| `tui/model.go:3642` | If the answer to a Confirm is lost, the next Keep says the layout was reverted, although it was kept. |

## 6. Proofs

`tlapm` checks every theorem to its leaves, from the named assumptions on the constants alone:
any number of clients, profiles, displays, calls and faults.

| Theorem | Argument |
|---|---|
| `PreviewServiceProofs!TypeCorrect` | `TypeOK` is inductive, given that computed layouts are layouts |
| `PreviewAlwaysOwnsScreen` | `PreviewOwnsScreen` alone is not inductive: a pass that had begun could finish into a preview. `PreviewInv` adds that a pass and a preview exclude each other (`NoPassDuringPreview`), which holds since both begin only when `writeMu` is free and the other is not there |
| `PreviewsEndProperly` | an action property of the same invariant, one case per action that changes `pending` |
| `StaleTimersAreHarmless` | ids grow, so a timer that is not the pending preview's has a smaller number (`NumbersAreFresh`), and the pending preview's own timer rings only past its deadline (`RungIsPast`) |
| `CommitsAreStable` | `RequestIsKept`: what was requested and what was effective have one name and panel as long as a preview is pending; the pin a commit leaves adjusts to the layout on screen |
| `ServiceIsSafe` | refinement of `SafePreview` when no restore fails: initial states map to initial states, every step to a step or a stutter |
| `DisplaysStayHandedBack` | `HandBackInv`: with the marker set and no Unmanage under way, nobody holds `writeMu` and the include is gone, or is what the last Unmanage could not take out. It assumes no previews and no restarts, which do break it (section 5) |
| `ApplyEngineProofs!EngineTypeCorrect` | `TypeOK`, with what each stage finds (no run repeats it) |
| `NoDanglingInclude` | the include is there only after the file is, at every stage of an apply and a revert |
| `OldRulesReplaced` | the older file is retired only after the last step that could revert |
| `CausesAreHonest` | the cause of a failure agrees with what the verification saw at every later stage |
| `EditsSurviveRewrites` | the text of every copy held is at most the text on disk |
| `RestoresAreTrue` | each stage of a revert has restored what the stages before it cover, with respect to what the call found |
| `SuccessIsExecution` | markers in the Lua state are never newer than the number of calls, so a marker equal to the call's own is its own |
| `EngineIsAtomic` | refinement of `AtomicApply` while edits leave the include alone (`~EditsInclude`; the abstract specification has no step for a user who takes it out). `AtomicInv`: the snapshot is what the call found, and the file and the include are, each, of the snapshot or of the layout applied; every stage says which |
| `EventLoopProofs!LoopTypeCorrect` | `TypeOK` of the loop |
| `GuardAndWakeExclude` | `GuardExcludesWake`, with the range of `wakeRetries`: whatever sets the guard is met with no wake pending, and a wake releases it |
| `TimersAlwaysRest` | `TimersRest`, with the fact that a pass of the loop runs only awake (`PassAwake`): it begins for a timer, and the loop takes no event before it ends |
| `ClosedLidsAreReal` | `LoopInv` adds to the types that the channel is never overfull and that, while a pass of the loop runs, `lidState` is what the pass read (`PassKnowsLid`): lid events are taken only between passes. The lid of a layout is `lidState`, hence the lid read |
| `NothingIsForgotten` | `NothingForgotten` is far from inductive. `MemoryInv` splits it: what an apply would change is *assured* of a pass by something only a pass ends (an event, a fresh trigger, a fresh debounce with its timer, a probe, a guard, a retry), or differs from what a poll or a lid event compares with (`ChangeRemembered`); a pass that works with an old view leaves an event behind (`OldViewFollowed`); a lid that nobody has read is announced, polled or read by a pass (`LidRemembered`) |
| `TerminalSessionProofs!SessionInvHolds` | with the daemon and without it, apart from each other (`RemoteInv`, `LocalInv`), up to `overlap`. Remote: whatever is shown and not kept is the daemon's transaction, of which the terminal's preview and guard have the number or an answer is on its way. Local: at most one command changes the screen (`ApplyAlone`, `AnswerAlone`), it goes back to what was kept (`RevertsBack`), and the guard is armed until its answer is taken (`GuardWatches`) |
| `UnkeptIsAlwaysWatched`, `QuitsLeaveNothing`, `KeepsWhatWasShown` | from `SessionInv`: a guard that is armed at the end makes `RevertPending` run before the program has ended |
| `SharedFilesProofs!OnlyOneWrites` | whoever writes holds the lock, and the kernel gives it to one process; assumes that a daemon and an editor are different processes (`ProcessesDiffer`) |
| `StoreInvHolds` | `StoreInv`: a file holds a profile whose name is the file's (`FilesNamed`), the dotfile is reached by a link from its name (`DotHolds`), a rename carries one id under the old name until its last step and under the new one wherever it has written (`RenameCarries`, `MoveLinks`), a save has an id nothing else has (`SaveIsNew`). Assumes at most one dotfile (`OneDotfile`) |
| `NoProfileIsLost` | `StoreInv` has it: the file a step replaces is not the only one with its profile, unless that profile is what is saved over or deleted |
| `ReferencesFollow` | `RefsHold`: what is referred to is found under its name, except between the last step of a rename and its end, when the new files have it |
| `DisplayFallbacksProofs!FallbacksInvHolds` | `BackoffInv`: a retry is on only in a pass or at the saved settings (`RunsSaved`), whether it applies something or is refused; the history counts no more failures than the daemon does, and forgets them only once the settings have held; the clock of the next retry (`healthy`) is never older than the last failure. A lemma per operation of `fallback.go` says what it leaves of a display's memory |
| `RetriesBackOff` | only the beginning of a pass begins a retry (`Calm` for every other step), when the clock has run for `Wait` of the failures the daemon counts (`PassesWait`), which grows with them (`WaitsGrow`) |
| `ConsoleRecoveryProofs!ConsoleInvHolds`, `SwitchesBackOff` | `BackoffInv` of that module: the daemon counts at least the switches begun, and what is left of its wait and the age of the last switch make up a full wait |
| `ProfileProofs!MatchIsTyped`, `PlanIsTyped`, `DraftIsTyped` | every profile is a finite set of outputs with the keys of their hardware; every plan has rules that are rules and groups that are not empty; every draft has a place for each display |
| `DisplayIsByPlace` | a key with a place is that of the display at the place, on whatever connector (`LiveKeysDiffer`: no two displays have one key); any other leaves it to hardware and connector |
| `DisplacedIsUnknown` | what the exception of `AppliedIsRecognised` costs, as a fact: a displaced output's key becomes that of a place no live display like it has, so no state that shows the layout has the profile among the matching |
| `ExtensionAlwaysFits` | given that the known displays are known by their hardware (`ByHardware`; otherwise section 5, `identity.go:33`), what is added starts at the right end of what is known (`RightEndIsRight`) and has as many places as displays (`RanksDiffer`), so the two together lie apart (`JoinedHolds`); renaming the keys keeps that (`NormalizedHolds`) |
| `AppliedIsAlwaysRecognised` | a complete profile with its absent displays kept off is one to one with the displays (`OneToOne`), the compositor's state is one to one with them too, and two sets of outputs that are and agree on each display are the same state (`AgreeingIsSame`), twins without serial numbers included as long as their keys name the places they are at (`InPlace`, which is `~Displaced`: `DisplacedIsNotInPlace`). `AppliedIsKnown` has it without reachability |
| `PlanIsAlwaysReadBack` | by strategy: a sequential or interleaved plan is recognised only when generating it again gives the rules (`GuessWithItsRules`), and a manual one lists the rules themselves; displays and places are taken as first occurrences (`Once`, `PlacesAreNumbered`). `PlansAreReadBack` has it for any rules in the compositor, the user's own included |
| `ThereIsAClearEdge` | what `editor.go:571-573` says: right of the rightmost right edge there is nothing, and that edge is a candidate, so a display that lies on another can always be moved off |
| `ResolvedIsClear` | a placement leaves its display free (`PlacementClears`) and does not lie on one that was (`PlacedStayFree`); every display has its turn (`Covers`), hence after the last none is covered. One pass is enough, in any order |
| `DraftIsAlwaysClear` | `DraftIsClear` is not inductive during a drag, when the draft holds the pointer's position. `DraftInv` adds that the *other* displays are then clear of each other, and the dragged one too until it first moves (`InOrderOrHeld`): back where it was picked up and dropped from there, only it has to find a place (`DropIsClear`) |
| `EditsStayLocal` | when the others are in order among themselves the placement moves only the edited display and then finds nothing to do (`ResolvedMovesOne`). In a row, all that is right of a resized display is linked to it through its neighbours and moves by the difference, nothing else does, and what comes out is a row again, so no overlap is left to move anything (`RowMovesTogether`, `RowIsKept`) |

`DisplayFallbacks` and `ConsoleRecovery` assume what is true of the constants of `fallback.go` and `stalecrtc.go` (`Thresholds`,
`Waits`): a first wait is not above the maximum, a state file holds entries the daemon has written, and, since
the provers know little of powers, that those of two grow. `MCParts!WaitsAreSound` has TLC evaluate both on the run's instance. `ProfileProofs` assumes that connectors are finitely
many, that the profiles and rules found at the start are profiles and rules (`MatchAssumption`, `PlanAssumption`), and that sizes
are widths and heights, coordinates whole numbers and loaded layouts layouts (`EditorAssumption`).

Where a proof must go through a set or a sequence one by one, it does so by a smallest counterexample: `WFMin` on
a set of numbers (`CountsUp`, `NatHasLeast`) or on the finite subsets of a set (`HasMax`). The induction
theorems of the library would need an operator as an argument.

The proof of `RetriesBackOff` corrected the model. On an instance with more faults than the run's, TLC refuted
the invariant the proof needed: the loop could take a disconnection during its own pass, which it
cannot, as it is the goroutine that runs the pass (hence `events` and `HearsEvent`, between passes of the loop); and the history took
a retry to be on after the profile had been edited or the display stepped down again, when what drops is no longer
the saved settings (hence `RunsSaved`). Passes of clients do leave the loop free to hear a
disconnection, and the proof covers those. `RetryBacksOff` is about failures the daemon can see: a display
that drops later than `fallbackShortConnection` after a switch counts as one that held.

Only model-checked: liveness (`PreviewIsResolved`, `CallsReturn`, `Reconciles`, `PreviewsEnd` and the
`[]<>` properties of the parts, `DisplaysRecover`, `TakenIsReturned`, `SensorsAreHeard` and `ClientsAreServed`), which is
out of the prover's reach under fairness. Every safety property of a passing run is proved; `BackoffsHold`, which joins two
modules, as `RetriesBackOff` and `SwitchesBackOff`. A dialog of `ProfileStore` takes a name from `Names` that is the selected
one, and the profiles at the start have their places in the list for ids, so that these proofs need no induction over lists.

## 7. Abstractions, and what is not modelled

- `PreviewService`: an apply is one step; profiles have one panel; Rename (see `ProfileStore`) and the
  content of a status answer are left out.
- `ApplyEngine`: the text of a layout is a value; the revert after a failing save of the laptop
  toggle (`daemon.go:1175-1179`) is not modelled; nor are edits of the toggle by the user; Omarchy's
  wake scale file belongs to the block; with Lua, an older `monitors.lua` is the wake block's file;
  the retries of verification that light a panel or wake a display appear as displays that may
  change.
- `EventLoop`: displays are managed (an unmanaged pass returns at once, see `PreviewService`), so
  that the recovery timer never finds a reason to stop (`TimersRest`: the other two reasons stop it
  themselves); the machine may already be on its way to sleep when the daemon starts; the
  settle timer and the power source push triggers like the sensor does, and are left to it;
  `LaptopToggle.Reset`, the fallbacks, the workspace probe and status notifications touch no state of
  this module; a failed apply is taken as rolled back; the worker takes a request and reads the
  displays in one step.
- `TerminalSession`: a layout is a number, the draft only whether it has changes; equal commands under way are
  one; drawing, panes and the texts of the status line are left out.
- `LayoutEditor`: a mode and its scale are a size; of the transforms only whether they lay the display
  on its side.
- `WorkspacePlan`: workspaces have numbers; the displays of rules are taken as resolved.
- `ProfileMatching`: displays of one width in a row; colours, refresh rates, mirrors are left out. There is one hub:
  `stableConnectorPathID` drops a hub's own number, so that displays at one place of two hubs have one path. A connector
  whose path cannot be read has none. The number `normalizeIdentityRefs` adds to a key that another output has already (`identity.go:158`) is left out: at
  different places or connectors no two outputs of a profile come to that.
- `DisplayFallbacks`, `ConsoleRecovery`: time counts in ticks, and ages stop at the largest threshold. What the
  kernel does is what the comments of `stalecrtc.go` say of it.
- `AutoRotation`: a pass is one step, and `s.applied` is left out: a pass that finds its turn on screen may forget a
  rejected layout or not. `IpcChannel`: a message is its kind, id and status.
- `WriterOwnership`: every process finds the lock's directory; without `XDG_RUNTIME_DIR` the terminal runs without a lock
  (`cmd/hyprmoncfg/main.go:830-835`), and beside another such session two do write. Calls of Manage and Unmanage come one after the other; two at once are the race
  of section 5.
- `ProfileStore`: a profile's content is an id.

Not modelled: power source and application status (a flag of the loop, a pure view), scaling (arithmetic of
real numbers), the text of rendered rules, of import and export, and which lines of a file are an include,
the text protocol of Hyprland's socket, drawing, flags and paths of the commands, packaging and
documentation. None of them keeps state that another part reads between two operations. What would be
worth modelling and is not: the laptop toggle's own layout and the panel edits a pass saves after an
apply, and the rescue layout of a pass that finds every display off.

## 8. Plan

Done: the daemon's core (`PreviewService`, `ApplyEngine`, `EventLoop`) with abstractions, runs and
proofs; the parts of 2.4 with their runs, and proofs about the terminal's
session, the writer lock, the profile store, the waits of `DisplayFallbacks` and `ConsoleRecovery`, the matching and extension of profiles,
the reading of workspace plans, and the layout editor. Every safety property the runs check is proved.

Next, in this order:

1. Types and order of messages of `IpcChannel` and `LidWatch`, as lemmas for what is checked about them.
2. What a pass saves after an apply (toggle, panel edits), composed with `EventLoop`'s pass.
3. The sensor and the lid composed with the loop, which now takes their channels as given.
