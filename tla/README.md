# EntropyVPN in TLA+

EntropyVPN is a VPN client: a Flutter app that runs one of two *cores*
(sing-box or xray) on Windows, Android or Linux and directs the traffic of the
machine into it. This directory holds specifications of the parts of the
program where several processes, threads and callbacks work on the same
session: who owns a running core, who gives the user's routes and proxy back,
who blocks traffic when a core dies, what an update leaves on the disk when it
is interrupted, what the app saves and shows of all that, and what the
configuration it hands to a core does with each connection.

Contents

1. The system: components, state, operations, interactions
2. What is hard in it
3. The modules and how they correspond to the code
4. The runs: what is checked, with which bounds and which fairness
5. Where the code and its comments disagree
6. The proofs
7. What is only model-checked, and what is not modelled
8. The plan

Paths are relative to the root of the repository. `PROJECT.json` holds the
machine-readable part: every definition with the lines it models (`map`), the
runs, the mutants, the hazards and the theorems.

To check everything, in this directory:

    tlasany WindowsRuntime.tla
    tlc -workers 4 -config WindowsRuntimeRaces.cfg MCWindowsRuntime
    tlapm WindowsRuntimeProofs.tla

## 1. The system

### Processes on Windows

    UI process (Flutter, not elevated)            EntropyVPN service (LocalSystem)
    +-----------------------------------+         +----------------------------------+
    | Dart thread: VpnController,       |  pipe   | pipe server: one thread a client |
    |   CoreRuntimeService              | ------> | g_core_process  (one core)       |
    | WindowsRuntimeWorker thread       |         | g_prewarmed_adapter              |
    | one watcher thread per core       |         | updater worker                   |
    +-----------------------------------+         +----------------------------------+
          | CreateProcess                               | CreateProcess     | spawns
          v                                             v                   v
        core (proxy mode, or elevated)                core (TUN)     entropy_vpn_updater

### Components

| Component | State it keeps | Operations | Talks to |
| --- | --- | --- | --- |
| **Native runtime controller** (`windows/runner/windows_runtime_channel_controller.cpp`) | `state_` (the current `RuntimeState`: phase, `stop_requested`, `cleaned`, routes it created, proxy snapshot), `killswitch_preference_`, the event sink | `start`, `stop`, `setKillswitchPreference` on one worker thread; `WatchDirectProcess`/`PollServiceCore` and `HandleUnexpectedExit` on a thread per core | the operating system (processes, routes, registry, WFP), the service over the pipe, Dart over the event channel |
| **Method and event channel** (`windows_runtime_channel*.cpp`) | the worker's queue | decode a call, run it on the worker, post the reply to the Dart thread | controller, Dart |
| **App controller** (`lib/services/vpn_controller.dart`) | `_phase`, `_connectCancelled`, `_pendingConnect`, sources, settings, timers | `connect`, `disconnect`, `shutdownForExit`, `_handleUnexpectedExit`, editing of sources and settings, pings, refreshes | core runtime service, state store, UI |
| **Core runtime service** (`lib/services/core_runtime_service*.dart`) | per platform: the native channel, or a process of its own | `start`, `stop`, status, temporary ping routes | native runtime, service, Android bridge |
| **Service: core keeper** (`entropy_vpn_service{,_pipe,_commands}.cpp`) | `g_core_process`, `g_core_run_id`, `g_core_exit_code` under `g_core_mutex`; `g_stop_requested` | `start_core`, `stop_core`, `status_core`, accept loop, stop of the service | UI process, core |
| **Service: prewarmed adapter** (`entropy_vpn_service_tun.cpp` from line 643) | `g_prewarmed_adapter` under `g_prewarm_mutex`, a detached watcher per adapter | `prewarm_tun_adapter`, `release_tun_adapter` | UI process, wintun |
| **Service: routes and addresses** (`entropy_vpn_service_tun.cpp`, `windows_tun_channel/*.inc`) | none: the route table is the system's | find, replace and remove routes, set addresses and metrics | operating system |
| **Service: updater** (`entropy_vpn_service_{updater,apply}.cpp`, `entropy_vpn_updater.cpp`) | `g_state`, `g_staged_manifest`; staged blobs, `.rollback`, `installed_manifest.json`, `manifest.json` on the disk | check, download, apply, restart through the helper | release server, file system, helper process |
| **Manifest, versions, HTTP, hash** (`entropy_vpn_service_{manifest,http,sha256}.cpp`) | none | parse, compare, transfer, hash | updater |
| **Killswitch** (`entropy_vpn_killswitch.cpp`) | persistent WFP filters | `EngageKillswitch`, `DisengageKillswitch` in one WFP transaction each | controller, service |
| **App state store** (`lib/services/app_state_store.dart`) | a JSON file, a temporary file, a `.bak` | `load`, `save` | app controller, file system |
| **App update check** (`lib/services/app_update_service.dart`) | last tag, polling timer | check, notify, install | service's updater, GitHub |
| **Configuration builder and diagnostics** (`core_config_builder.dart`, `core_runtime_service_diagnostics.dart`) | none | call the native library, read the log of a core | core runtime service |
| **Share links and configurations** (`native/share_link_parser.cpp`, `profile_catalog_*.dart`) | the workers and the counter of a ping | parse and print links, turn profiles into JSON and back, build and import the configuration of a core, edit its routes, ping | app controller, core runtime service |
| **Android service** (`EntropyVpnService.kt`, `EntropyVpnRuntimeStore.kt`) | per instance: `libboxService`, `xrayProcess`, the bridge, `expectedStop`, `killswitchActive`, `blackholeTunFd`; process-wide: the store's snapshot and the killswitch preference | `onCreate`, `onStartCommand`, `onRevoke`, `onDestroy`, tasks of a one-thread executor, callbacks of libbox and of the xray waiter | Android, cores, app, tile |
| **Android activity, tile, bridge** (`MainActivity.kt`, `EntropyVpnTileService.kt`, `android_vpn_bridge.dart`) | pending permission, listeners | send intents, forward snapshots | Android service, app controller |
| **Linux runtime** (`core_runtime_service_linux.dart`, `linux/helpers/entropy_vpn_runner.sh`) | a process and its pid file | start through pkexec, stop, exit | core |
| **Windows shell and tray** (`flutter_window.cpp`, `windows_tray_menu_service.dart`) | the items of the menu, what is open, hovered and scrolled; what was last sent to the window | `setItems`, mouse, wheel and keys on menu and submenu, show, hide, quit | app controller |
| **UI, installer, tools** | widgets | user input | app controller |

### What makes each of them correct

- *Controller*: every core it starts has exactly one owner; a session is ended
  once, by the stop or by the watcher, never by both; whatever a start changed in
  the system is undone whichever step fails; the last state event says what
  `Status()` would answer; filters stand only after an exit the user did not ask
  for; every call is answered; every death is noticed and reported.
- *App controller*: "connected" is shown over a running core and a running core is
  shown; a disconnect that cancels a connect owns the outcome; busy phases end;
  quitting leaves no core.
- *Core keeper*: every core is reachable through a handle; two never compete; an
  exit code belongs to the run it is reported for; handlers answer; a stop ends.
- *Adapter*: it never outlives the app it was created for.
- *Updater*: nothing torn is installed; a recorded version is really there; what
  is announced as ready can be applied; a failed apply restores the files; the
  service returns after it was replaced.
- *Android service*: a store that says connected has a core, a bridge and an
  interface; cores belong to an instance that will end them; an error blocks or
  stops; the blackhole follows the preference; stopped services go away.
- *State store*: a crash or failure at any point leaves a whole state, and the
  newest one that could be saved.
- *Sources and settings*: a latency stands with the profile it was measured for; a
  selection is the user's, whatever a refresh brings; a refused elevation leaves no
  setting that needs it.
- *Tray*: what a click does is what the row under the mouse says.
- *Routes, killswitch*: an answer says what is in the table; the filters are what the
  last committed call asked for.
- *Native library*: a link is dialled as it is written; each connection goes where
  the user's lists send it; a profile read back from a configuration is the same.

## 2. What is hard

The list in `PROJECT.json` ("hazards") gives each with its line. The groups:

- **Two threads end one session.** The watcher of a dying core and a `stop` or
  `start` on the worker meet between any two of their steps. `state_mutex_` covers
  the moment `state_` is emptied, nothing after it.
- **Locks that are let go in the middle of an operation.** `StartCore` and
  `StopCore` of the service release `g_core_mutex` to end and create processes;
  `HandleUnexpectedExit` releases `state_mutex_` before it cleans up and blocks.
- **Late answers.** A request the service has not answered in time is sent again
  by a helper process with the same run id while the first handler still works.
- **Messages without a session.** The exit event of a core reaches Dart without
  the session it belongs to; so do libbox's `serviceStop` and `disconnected`.
- **Awaits.** Between two awaits of `connect` the user may disconnect, connect
  again or quit, and a core may die. Between the download and the end of a refresh
  the same source may be pinged, edited or refreshed again.
- **Positions that outlive the list.** Profiles are selected and pinged by index, menu
  items are clicked by row, the adapter of xray is addressed by interface index; the
  list, the menu and the adapter may be another one by then.
- **Order of rules.** The first matching rule of a core decides, the heaviest filter
  of the platform does; the builder adds rules in many places, for two cores.
- **Crashes.** Filters and cores outlive the UI process, a core outlives the
  service, a half-applied update outlives everything.
- **Callbacks of the system.** Android may destroy an instance of the service whose
  executor still runs a start.

## 3. The modules

    TunnelLifecycle  <--implements--  WindowsRuntime  <-- MCWindowsRuntime
                                            |         <-- WindowsRuntimeProofs
                                            | (reduced to state_ and the cores)
                                      VpnSession      <-- VpnSessionProofs
    ServiceCore <-- ServiceCoreProofs
    Updater     <-- MCUpdater, UpdaterProofs
    AndroidService  <-- AndroidServiceProofs

    PrewarmAdapter ---+
    TunRoutes --------+-- ServiceNetwork
    Killswitch -------+          <-- ServiceNetworkProofs (of TunRoutes, Killswitch)

    Sources -- TrayMenu ----------------+
    Settings ---------------------------+
    AppStateStore ----------------------+-- AppShell <-- MCAppShell
    CoreConfig -- ShareLink --+         |
    Lists --------+           |         |
    TcpPing ------------------+-- NativeLibrary <-- MCNativeLibrary
                                    <-- NativeLibraryProofs
    AppProofs (of Sources, Settings, AppStateStore, TrayMenu)

A model is not its code line by line: payloads, texts and logging are left out, and a
body that no other thread can observe half-way is one action. Lock sections are one
action each, and so is every call that changes something another thread or process can
see. `odd`, `overlap`, `disFailed`, `spared`, `faults`, `exits`, `stopped`,
`survivors`, `leftover`, `lost`, `before`, `standing`, `marks`, `missed`, `granted`,
`used`, `unasked`, `lastSaved` are history variables: no guard of a modelled step
reads them (bounds apart); they let a property name what was promised, or the orders
of events and the failures it makes no claim about. What a call of the system may fail
at, and the code does not look at, fails in the model: ending a process, removing a
route, restoring the proxy, deleting a filter, moving a file back, writing the state.

### WindowsRuntime and TunnelLifecycle

`windows_runtime_channel_controller.cpp`. A *session* is a `RuntimeState` object,
numbered in the order `Start` makes them; `state_` is the number of the current
one. `kind`, `svc`, `phase`, `stopReq`, `cleaned`, `srv`, `tun`, `snap` are its
fields. The worker is `wpc`/`wop`/`wses` (next step, call, session), the watcher
of session `s` is `watch[s]`. `live`, `routes`, `proxy`, `filters` are the
operating system.

| Code | Actions |
| --- | --- |
| `HandleMethodCall` → worker queue | `CallStart`, `CallStop`, `CallSetKillswitchPreference` |
| `StopInternal` | `TakeState`, `MarkStopping`, `StopCore`, `WorkerClean*`, `ReleaseState`, `EmitEnd`, `Disengage` |
| `Start`, `StartInternal` | the above, then `InstallState`, `EmitStarting`, `CheckPrerequisites`, `StopStaleCores`, `PrepareServerRouting`, `PrepareConfig`, `StartCore`, `PrepareXrayTunRoutes`, `CaptureProxy`, `SetProxy`, `StartSucceeds`, `EmitRunning` |
| its failure branch | `StartFails`/`StartCoreAnswerLost`/`SetProxy` failing → `MarkError`, `EmitError`, `StopFailedCore`, `WorkerClean*`, `ReleaseState`, `EmitEnd` |
| `SetKillswitchPreference` | `SetPreference`, `ReadRunning`, `Disengage` |
| `WatchDirectProcess`, `PollServiceCore` | `NoticeExit`, `TestStopRequested` |
| `HandleUnexpectedExit` | `TakeOver`, `WatchClean*`, `TestPreference`, `Engage`, `WatchEmitState`, `EmitExit` |
| environment | `CoreDies`, `UiCrash` |

`CleanupState` is three actions because another thread sees the route table
before the registry. Failures the code only logs, or does not look at, are
nondeterministic outcomes: `EndCore` (`TerminateProcess` and the bounded wait, or the
request to the service) may leave its core running, `StopStaleCores` any of those it
sweeps, `Undo` the route or proxy it should take back; a start may leave a route its
session was not told of (a lost answer, the first of two routes). `survivors` and
`leftover` record what was left that way.

`TunnelLifecycle` is what the user interface relies on: one session at a time,
identities never used twice, a status that only moves along
disconnected → starting → running/error → disconnected, and a start that is
resolved. `Lifecycle == INSTANCE TunnelLifecycle WITH session <- state_, status <-
Reported, used <- 1 .. made` maps the controller to it; `ImplementsLifecycle`
includes its fairness.

### VpnSession

`vpn_controller.dart` (connection part), `core_runtime_service_windows.dart` and
the order in which the channel carries calls, replies and events. Dart code runs
without interruption between two awaits, so an action of the Dart thread is one
input, timer or message and everything it makes run up to the next await.
`conn[c]` and `disc[d]` say where each call of `connect` and `disconnect` waits,
`calls` is the queue of the worker, `posts` what the Dart thread has yet to
handle. The native side is WindowsRuntime reduced to the current session, the
worker's next step and the running cores.

### ServiceCore

Handlers are threads `1 .. MaxThreads`; `held[t]` is the process handle in a
local variable of `StartCore` or `StopCore`, and `pc[t]` the section it is in.
`accept` is `PipeServerLoop`, `main` is `ServiceMain` (wait → join → release →
stopped). The UI's worker has one request under way, with one retry
(`RunServiceRequest`); `told` are the cores `TerminateProcess` was called for,
which need not exit.

### Updater

The disk (`installed`, `instManifest`, `shipManifest`, `blob`, `newService`), the
globals (`g_state`, `g_staged`), one worker (`pc`, `target`, `todo`, `saved`), the
service process and the helper. A step of the worker is what lies between two
points at which a crash leaves something else on the disk. Contents are hashes,
"missing" or "torn"; two files with the same hash share their staged blob, which is
moved to the first. `Rollback(f)` brings one file back, or fails without notice, as
`MoveFileExW` and `DeleteFileW` may (`lost`). `before` remembers the directory an apply
found.

### AndroidService

The main thread's messages are the queue `main`; the system makes an instance for
an intent when it has none, destroys it when it is neither wanted (`stopSelf`) nor
kept by a VPN interface. Each instance has its own executor (`queue`, `job`, `at`).
A task is one action, except that a start is cut where it waits for the core it ends
(before `resetForStart`) and where it calls out of the service, the handling of a
failure where it waits for the core (before it installs the blackhole or stops), and a
stop before its `stopSelf`, since `onDestroy` runs on another thread and does not wait
for the executor. `notices` are what watching threads have yet to report.

### Killswitch, TunRoutes, PrewarmAdapter, and ServiceNetwork

*Killswitch*, `entropy_vpn_killswitch.cpp`. A call of `EngageKillswitch` or
`DisengageKillswitch` is a transaction: `Begin`, `EnsureProviderAndSublayer`,
`ClearExistingFilters`, `InstallFilterSet` or `DeleteSublayer` and
`DeleteProvider`, then `Commit` or `Abort`. `base` is what is committed, `txn.db`
what the transaction has made of it; a step may be refused and the process may
die at any of them. `Permitted` is the platform's own arbitration: the heaviest
matching filter decides. Two details matter: the result of
`ClearExistingFilters` is ignored, so old filters may stay (`kept`), and a
disengage whose filters stayed is refused by the platform when it deletes the
sublayer. A failing `FwpmFilterEnum0` counts as success.

*TunRoutes*, `entropy_vpn_service_tun.cpp` up to line 642 and `EnsureIpv4Route`.
`prep` is `PrepareXrayTunIpv4RoutesNative`, which tries until its deadline
(`Tick`), `domain` is `PrepareDomainServerRouteNative`, `adapters` counts the
incarnations of the adapter of xray, whose routes go with it. `EnsureIpv4Route`
deletes a conflicting route before it adds its own, so a failure may leave
neither; a route made by an earlier attempt is reported as "exists".

*PrewarmAdapter*, the same file from line 643. Launches of the app are numbered;
`adapter` is the launch the adapter was created for. Handlers and watchers are
serialised by `g_prewarm_mutex`, so each is an action; `OpenProcess` may find the
app gone before it is watched.

*ServiceNetwork* puts the three side by side. They share no state, so a behaviour
of the service is an interleaving of one behaviour of each and no property relates
two of them; the variable `part` picks the one whose steps are looked at, which
keeps the state space a sum instead of a product.

### Sources, Settings, AppStateStore, TrayMenu, and AppShell

*Sources*, the list of subscriptions in `vpn_controller.dart`. Dart runs one
callback at a time; `addSource`, `_refreshSource`, `pingSource` and `pingProfile`
are two actions each, before and after their await, and `jobs` holds what they
captured. A profile is its identity key, a latency a pair of the index it is
stored at and the key that was measured.

*Settings*, the same file: traffic mode and the modes of the two split tunnels. A
change in TUN mode waits for a save and then for the privileges, and restores its
snapshot if they are refused; a save that throws ends the change before it asks;
`Relaunch` is the elevated instance (or a crash), which reads the state file.

*AppStateStore*, `app_state_store.dart`: the debounced save, the queue of saves,
each file operation of `_writeStateFile` as an action, failures and crashes that
leave a torn file, what `load` may return and what it writes back. A state is its
version number.

*TrayMenu*, `windows_tray_menu_service.dart` and the tray part of
`flutter_window.cpp`, on top of Sources: `_sync` and its answer, the replacing of
the items under an open menu, hover, wheel, click and keyboard on menu and
submenu, and showing, hiding and quitting the window. Of the layout the vertical
half is kept (rows of 34 and 6 pixels, scroll offset, visible height), since hit
tests and scrolling depend on it.

*AppShell* puts these and NativeLibrary side by side as ServiceNetwork does. The
tray works on the sources (from a list of two that is there at the start); the
others share nothing but the snapshot a save is made of and the profile a call
gets.

### CoreConfig, ShareLink, TcpPing, and NativeLibrary

`native/share_link_parser.cpp`, the library the app calls for everything about links
and configurations. *CoreConfig* builds the configuration of a core: a rule is the set
of connections it matches and what it does, a list of rules decides by its first match
(`Outcome`), so that the result of a list for every connection of `Flow` can be
compared with what the user asked for (`Wanted`). Outbounds are kept as far as their
requirements go (`sing_box_outbound_ok`, `xray_outbound_ok`). The edits to an imported
configuration are operators on its TUN inbounds and rules. *ShareLink* parses a link
to a profile, turns a profile into JSON and back, finds links in a text, and reads a
configuration back. The library reads JSON without a parser: a field is what follows
the first occurrence of its quoted name, be that a name or a text (`ReadAt`, for
profiles and for vmess links), and the escape of a control character is read as text
(`Unescaped`). So a remark, or the label of an import, `singBoxConfigJson` makes the
text after it the configuration that is run (stage "misread"). *TcpPing* is the pool
of ping workers with its shared counter; the time of a target runs from before its
name is resolved. *Lists* holds the loops that keep some items of a list.
*NativeLibrary* strings the calls together as the app does: parse, build, copy, import
under one of the `Labels`, build again. The one recursion of the code, the search
through outbound groups (`resolve_sing_box_outbound`), is a recursive function over
its depth. What such a group leads to is said without it in `ShownServerIsReached`: a
server is reached if it is in every set of tags that holds the final one and is closed
under the children of groups.

## 4. The runs

All state spaces are explored completely.

| Run | Bounds | States | Shows |
| --- | --- | --- | --- |
| `runtime_races` | 2 sessions of kinds xray-TUN and xray-proxy; 1 crash of the UI process, followed in TUN sessions (`CrashInTun`); 1 failure that nobody looks at (`OneFailure`) | 10.2 million | `LiveCoreIsOwned`, `ExitXorStop`, `StateEventFresh`, `CleanAtRest`, `FiltersOnlyAfterExit`, `TunCoreRunsAlone` |
| `runtime_live` | 2 sessions of kind plain, no crash, fair threads | 22.6 thousand | `ImplementsLifecycle`, `DeathsReported`, `CallsFinish` |
| `vpn_session` | 3 connects, 2 disconnects, 1 quit | 115 thousand | `ShownIsTrue`, `QuitLeavesNoCore`, `DisconnectOwnsOutcome`, `BusyEnds` |
| `service_core` | 2 handlers at a time, 2 runs (4 cores), 2 of late answers and boots | 570 thousand | `OneCoreReachable`, `NoStaleExitCode`, `RequestsAnswered`, `StopCompletes` |
| `service_net` | 3 launches and 2 boots; 2 incarnations of the adapter, 2 ticks, 2 addresses; 3 calls on the filters with 2 programs, at most 1 or all deletions refused | 153 thousand | `RoutesAsAnswered`, `FiltersFollowCommits`, `AdapterReleased`, `PrepareAnswered` |
| `updater` | 3 releases of 4 files, two of the same content in the last; 2 faults, 1 run of the installer | 687 thousand | `AnnouncedIsTrue`, `NoErrorWithoutFault`, `FailedApplyRestoresFiles`, `UpdateEnds` |
| `android_service` | 2 starts, 1 stop or revocation, 1 change of the preference, so up to 3 instances | 932 thousand | `ShownIsOwned`, `KillswitchKept`, `OnlyDeadSessionsFail`, `StoppedServiceEnds` |
| `app_shell` | 1 source to add with 3 catalogs and 2 operations under way; a menu over 2 sources through 2 notifications; 2 changes of settings; 3 states to save with 3 faults; the links, texts, options and imports of `MCNativeLibrary` | 954 thousand | `SourcesAsMeasured`, `SelectionIsTheUsers`, `SettingsCoherent`, `SavedStateSurvives`, `MenuIsTrue`, `LinkIsDialled`, `SplitTunnelHonoured`, `ResolverAsNamed`, `ImportRoundTrip`, `ShownServerIsReached`, `PingsAreTheirTargets` |
| `runtime_stop_filters`, `service_retry`, `updater_failure`, `native_xray_dns` | see section 5 | | a violation each |

Four properties are conjunctions that belong together: `ShownIsTrue` and
`ShownIsOwned` (what is shown has a core, and what runs is shown or owned),
`KillswitchKept` (an error blocks or stops, and blocking follows the preference),
`AnnouncedIsTrue` (nothing torn is installed, what is announced as ready is staged,
what is called up to date is installed); `DeathsReported` and `UpdateEnds` join two
liveness properties. Their conjuncts are definitions of their own in the modules.
The type invariant of a module is the first conjunct of such a property.

### Why the bounds are enough

- *runtime_races*: every interaction of the controller is between the current
  session, the one before it and the watchers of both; two sessions give a worker
  in the second start while the watcher of the first is at any step. xray-TUN
  changes routes, xray-proxy changes the proxy; the two sing-box kinds take a
  subset of their steps (the proofs cover every set of kinds and every number of
  sessions for the ownership properties). Stops and changes of the preference are
  not bounded. A crash is followed only in TUN sessions because every property
  about the proxy makes no claim after a crash: the snapshot of the user's setting
  lives in memory and is lost. For the same reason a crash is not followed after a
  failure to undo something. One such failure per behaviour shows what each of them
  excuses; two at once are covered by the proofs, which bound neither.
- *runtime_live*: liveness depends on which thread waits for which step, and no
  step waits on routes or the proxy, so the plain kind (no routes, no proxy)
  shows it.
- *service_core*: the mutex is released in three places of one handler; two
  handlers put any two of them together, a third only repeats what the second does.
  Two events allow a late answer followed by the retry, or a stop and a boot, or a
  crash and a boot.
- *service_net*: an old watcher, the app it watches, and a new launch: two launches
  meet, the third shows that nothing is left over from the first. Two incarnations
  of the adapter put a change of index between any two steps; two ticks allow one
  attempt that fails and one after it. Three calls on the filters are an engage
  over an engage and a disengage over both, with two programs, one of which is no
  longer wanted.
- *app_shell*: two operations overlap (a refresh over a ping, a ping over a ping,
  two refreshes after an `addSource`), on catalogs in which a profile moves, comes
  and goes. Two notifications change the menu under the mouse; the heights
  (`CursorRows`, `ScreenHeight`) are such that both windows scroll. Two changes of
  settings overlap. Three faults: every save has up to three files, one of which is
  good whatever happens to the other two (with a fourth fault everything can be
  lost, see section 5). The inputs of the library are chosen so that each rule of
  the builder decides something: every protocol, transport and TLS mode, every
  combination of lists, IP modes, DNS modes and forms of a resolver.
- *updater*: release 2 changes the program and the service, release 3 the program and
  both libraries, so a blob of one release can be left over while another is staged, a file
  can be unchanged, and the service's own binary can be part of an update or not. The
  two libraries of release 3 are the same file and share a blob. Two faults give a
  crash during the recovery from another fault.
- *vpn_session*: three connects are needed for a connect, the newer one that an
  old exit event hits, and one that overlaps both. Two disconnects overlap each
  other. (The property about disconnects was first believed for any overlap; the
  proof of section 6 showed that six connects are needed to break it, out of TLC's
  reach. The exception "twice" stems from there.)
- *android_service*: a restart over a running core, a stop that lets the instance
  go before a start, and the preference changed in between.

Deadlock is checked in `runtime_races`, `runtime_live` and `runtime_stop_filters`,
whose calls are not bounded. The other specifications stop when their bounded inputs
are used up, so their configurations say `CHECK_DEADLOCK FALSE`; that nothing waits
for ever is what their liveness properties say.

### Fairness

Assumed: a thread that can take a step takes one in the end (the worker and each
watcher of the controller; the Dart event loop; the pipe server, the handlers and
`ServiceMain`; the preparation of routes and the clock it reads; the watchers of the
prewarmed adapter; the updater's worker and helper; Android's main thread, each
executor and the system's bring-down of a service nobody wants), and the end of a
core that has ended is reported. These are weak fairness conditions on thread
steps: the code polls or blocks on handles, none of it spins on a condition that
another thread flips back and forth.

Never assumed: that a user presses anything, that a core dies or obeys
`TerminateProcess`, that a request is late or not, that a fault happens or not,
that libbox closes the command client's stream, or that a client connects to the pipe
of the service.

### Exceptions the properties name

A property claims no more than the code does. Where an order of steps really
breaks what one would like to say, the property names the order, and the model
reaches it:

- an exit handled while a call runs (`overlap`): the watcher's cleanup and the
  worker's next start interleave, so routes, proxy and filters may be left in
  either state (`CleanAtRest`, `FiltersOnlyAfterExit`). `Start` disengages stale
  filters first and the previous session's watcher may then engage them over the
  new connection (`windows_runtime_channel_controller.cpp:396` and `:1422`);
- `survivors` and `leftover` of WindowsRuntime: a core that outlived the attempt to end
  it, and a route or proxy that a failed removal, or a start whose session was not told
  of its route, has left. `LiveCoreIsOwned` and `TunCoreRunsAlone` allow the former,
  `CleanAtRest` the latter, and nothing else;
- `early`, `late`, `overlap`, `twice`, `quit` of VpnSession: the exit event arrives
  before the answer to its own start, or in a later session; two connects or
  disconnects overlap; the app quits while a connect has not sent its start;
- `stale`, `destroyed`, `unprotected` of AndroidService: libbox's report about an old
  session ends a new one; `stopSelf` lets an instance go to which a start was already
  delivered, and `onDestroy` then runs in the middle of that start or of the handling
  of a failure, whose blackhole is established after the teardown; the blackhole
  cannot be installed, whereupon the service forgets that the killswitch is on and
  neither blocks nor stops;
- `spared` of ServiceCore: cores that a crash or a stop of the service leaves
  while a handler holds them;
- `missed` of ServiceCore: both nudges of a stopping service come while the accept loop
  is between its test of the flag and the creation of the pipe. The service then waits
  for its loop, the loop for a client, and the stop ends only when one happens to connect;
- `installs`, `Alone`, `Shares`, `Happened({...})` and `lost` of Updater: a blob made
  superfluous by the installer is swapped in later whatever it contains; of two files
  with the same content the second finds their blob moved, or gets one that is torn; the
  failures of the last steps leave a new version recorded over old files, and nothing is
  claimed of the binary of the service, which comes last, by the helper; a rollback may
  not bring a file back;
- `kept` and `stale` of Killswitch: programs of filters the platform would not
  delete stay permitted;
- `PlainTexts` of NativeLibrary: a profile with a text that is the name of a JSON field
  or holds a control character is read back as another one; `NarrowHijack`: an import
  with a rule for some DNS queries of the whole TUN gets none for the others; `late` of
  TcpPing: resolving the name took all the time of a target;
- `marks` of Sources, `overlap` and `unasked` of Settings, `missed` of TrayMenu: see
  "What the models show besides" in section 5.

### Mutants

Every property of every passing run has a mutant in `PROJECT.json`: a modelled
definition changed the way a plausible bug would change it (the operators named
`Bug...`, each beside the definition it replaces), under which TLC finds the
property violated in that run's own configuration.

## 5. Where the code and its comments disagree

Four runs end in a violation of what a comment or a document says. The quotations
are in `PROJECT.json` ("findings").

- `runtime_stop_filters` (`StopClearsKillswitch`). The comment at
  `windows_runtime_channel_controller.cpp:442` says a user's stop always clears the
  killswitch. A watcher that took the session over just before the stop has
  released `state_mutex_`; the stop finds no session, removes the filters, and the
  watcher engages them after it. The filters stay until the next call.
- `service_retry` (`HandlersThreadSafe`). The comment at
  `entropy_vpn_service_pipe.cpp:69` says the handlers are thread-safe. The retry of a
  late `start_core` can meet the handler of the first attempt; both find no core,
  both create one, and the handle of one of them is overwritten.
- `updater_failure` (`FailureRollsEverythingBack`). `docs/auto-updater-plan.md:71`
  says any failure rolls everything back. The version is recorded before the
  service binary is copied and the helper started; if one of these fails the files
  go back and the version does not, so that later checks answer "up to date".
- `native_xray_dns` (`XrayDnsInTunnel`). The comment at
  `native/share_link_parser.cpp:2821` says that the queries of xray's own DNS client
  must not fall to the catch-all of a whitelist. Only the TUN configuration tags
  them; Android runs xray with the traffic mode of a proxy, and there they leave the
  device outside of the tunnel.

Two more disagreements need no run, being the order of two lines:
`HandleUnexpectedExit` gives routes and proxy back
(`windows_runtime_channel_controller.cpp:1419`) before it installs the filters that,
by the comment at `:1420`, leave no window between the death of the core and the
blocking; and a staged blob is moved to the first file that needs it
(`entropy_vpn_service_apply.cpp:243`) although `docs/auto-updater-plan.md:56` lets
several files of a release share one, so that such an update fails each time it is
applied (`NoErrorWithoutFault` names it as its exception, and the run reaches it).
`entropy_vpn_killswitch.h:26` says `changed` is set if filters were removed; the code
sets it when the sublayer was.

### What the models show besides

No comment says otherwise, but these are worth knowing. The properties name them as
exceptions where they would be broken by them.

- *Sources*: a refresh that began during a ping and fails after it writes
  `isPinging` back for good; adding a subscription again keeps latencies at old
  indexes; a profile selected, or an update interval set, during a refresh is
  undone; after an `addSource` took `isUpdating` away two refreshes overlap and the
  older may win; `pingProfile` on a list that has become shorter throws a range
  error, which is caught.
- *Settings*: of two overlapping changes that are both refused, the second refusal
  restores the first change, and TUN mode stays without privileges; it also stays when
  the save before the question throws. A rollback does
  not ask `canChange...` again and loses list edits made meanwhile.
- *AppStateStore*: with four faults everything can be lost; changes made before the
  state was loaded are overwritten; a quit does not wait for a save under way.
- *TrayMenu*: a change back to what was last answered, while a `setItems` is under
  way, is skipped and the menu stays wrong until the next notification; Enter
  invokes the hovered row although it has been disabled; a profile of a source that
  is gone sets its index on whatever source is selected then.
- *TunRoutes*: a conflicting route is deleted before the new one is added, and
  nothing brings it back when that fails.
- *WindowsRuntime*: a core that does not obey, or a route whose removal fails, is
  forgotten: no later call of the UI process looks for it but the sweep before a TUN
  start, which may fail as well.
- *ServiceCore*: a stop of the service may hang (`missed`, section 4).
- *NativeLibrary*: a remark, label or password equal to the name of a JSON field
  breaks the reading back of a profile, `singBoxConfigJson` so that the text after it
  is run as a configuration; control characters come back as "u00XX"; a rule of an
  import that takes some DNS queries only counts as one that takes all; the key of
  REALITY is lost on the import of an xray configuration, the authentication of
  hysteria 1 on the way to a profile; a port that is no number counts as 0 in a vmess
  link, and 70000 is accepted; vmess with REALITY is accepted and can never be built;
  private addresses go direct before DNS is hijacked in the split modes, and QUIC of
  programs that are not listed is rejected in the whitelist modes; the default path of
  DoH is only set for sing-box; xray's entry misreads schemes in capital letters and
  `tls://` before a bare IPv6 address; a silent first address uses up the whole time
  of a ping, and `getaddrinfo` is not bounded by it.
- *PrewarmAdapter*: a quick relaunch of the app loses its prewarmed adapter to the
  watcher of the launch before.
- *Updater*: `installed_manifest.json` hides a newer version that the installer
  wrote to `manifest.json`.

## 6. The proofs

The theorems hold for every value of the constants: any number of sessions, calls,
crashes, handlers, files, releases, addresses, subscriptions, links or outbounds. Each
rests on an inductive invariant that was model-checked before it was proved. They
assume the named `ASSUME`s of the modules, which say of the constants what the code
guarantees of the inputs they stand for:

- bounds are natural numbers, kinds are kinds;
- a catalog is a list, and not an empty one;
- the options of a build are those the app may ask for (`ConfigOptions`: no split
  tunnel outside of TUN mode but on Android, a DNS server that is valid for its mode);
  the bandwidths of a link are natural numbers, its ALPN values and a subscription are
  lists;
- the settings of the app are applied to imports for sing-box only; what they look at
  in an import are lists of inbounds and of rules (`ImportedConfig`), with any values;
- the outbounds of a graph are finitely many, listed in some order, and no tag is empty
  (`OutboundGraph`); children may be missing, and groups may contain themselves;
- a request for pings is a list of targets with different keys, as
  the app makes it of the places in its list.

### WindowsRuntimeProofs

| Theorem | Statement |
| --- | --- |
| `Invariant` | `Spec => []IInv` (from `InvInit` and `InvStep`) |
| `CoresOwned` | `Spec => []LiveCoreIsOwned` |
| `OneCore` | `Spec => []AtMostOneCore` |
| `NeverExitAndStop` | `Spec => []ExitXorStop` |
| `SlotKept` | `Spec => SlotNeverOverwritten` |

`LiveCoreIsOwned` alone is not inductive: when the worker starts a core, one has to
know that nobody replaced the session in the meantime. `IInv` adds why:

- `SlotEmpty`: between the moment `StopInternal` empties `state_` and the moment
  `Start` fills it, nobody else fills it (only `Start` ever does);
- `StartOwns`: while `Start` works for a session `state_` holds this one or none,
  and before its core exists nobody else knows it;
- `WatchersOfDeadCores`: a watcher that acts has seen its core dead, so taking a
  session over orphans nothing;
- `EndedOnce`: whoever ended a session took it out of `state_` for good, which is
  `ExitXorStop` in the making;
- `CoreGoneAfterKill`: the failure branch and `StopInternal` go on only after an attempt
  to end their core, so that what they leave behind is a survivor. Nothing assumes that
  a core obeys;
- `StepsOfCalls`, `FreshSessions`: which call the worker can be in at which step,
  and that sessions not made yet are untouched.

One lemma per conjunct (`...Step`), each with one step per action that can disturb
it; `InvStep` puts them together.

The second half of the module is about what is left behind when the threads rest:

| Theorem | Statement |
| --- | --- |
| `AnyRace` | `Spec => []RestInv` |
| `EventsAreFresh` | `Spec => []StateEventFresh` |
| `RestIsClean` | `Spec => []CleanAtRest` |
| `FiltersHaveReason` | `Spec => []FiltersOnlyAfterExit` |
| `TunCoreAlone` | `Spec => []TunCoreRunsAlone` |
| `LifecycleSafety` | `Spec => Lifecycle!Spec` |

`RestInv` follows every change to the system from the step that makes it to the step
that undoes it:

- `EventPending`: the last state event is either the answer of `Status()` or some
  thread is at a step from which it must send another;
- `TunOwned`, `ServerOwned`, `ProxyOwned`: a route or the proxy of the core belongs
  to a session that nobody has begun to clean up (`Holds`) or that some thread is
  undoing (`Undoing`), or was left by a failure (`leftover`), and what was captured of
  the proxy is the user's setting; `Untouched` keeps later sessions out of it;
- `HandlerAlone`: unless an exit was handled during a call (`overlap`), the watcher
  that handles one is the only thread at work, so that nobody undoes for another;
- `FiltersOK`: which call or exit the filters stand for at every step;
- `Swept`: the sweep has tried to end every older core, and what is left survived that.

`LifecycleSafety` is the refinement of `TunnelLifecycle`, each step to a step or a
stutter; `ImplementsLifecycle` adds the fairness of the implementation and is
model-checked.

### VpnSessionProofs

| Theorem | Statement |
| --- | --- |
| `SessionInvariant` | `Spec => []IInv` |
| `QuitSafe` | `Spec => []QuitLeavesNoCore` |
| `OutcomeOwned` | `Spec => DisconnectOwnsOutcome` |

Both rest on one idea: every call is in exactly one place (in the queue, with the
worker, or answered and on its way back: `OnePlace`), and its caller waits for it
there (`AllAwaited`). The lemmas `SendMoves`, `BeginMoves`, `AnswerMoves`,
`HandleMoves`, `DropMoves`, `ExitMoves` say how each kind of step moves a call. From
that, `SessionInv`: a start about to launch is the current session, and at most
the current session's core runs. `QuitInv`: once the quit has sent its stop no
start is behind it in the queue; when the stop is answered no core runs and no
start is left. `OwnInv`: a disconnect that has cancelled a connect is the only one
under way and holds the phase.

The first form of `DisconnectOwnsOutcome` had no exception for overlapping
disconnects and passed all runs. `OwnInv` could not be proved: a disconnect with
nothing to cancel that overlaps one that cancels writes "disconnected" over it.
To get there exit events must unlock the button often enough that it takes six
connects, more than TLC can explore. The exception ("twice") is in the property
since then.

`ShownTrue` (`Spec => []ShownIsTrue`) says that what the app shows, once everything
that was sent has arrived, is what runs. The difficulty is that Dart learns of a core
through messages only. `ShowInv` adds to `IInv`:

- `CoreInv`: a core that runs is watched, its exit event is posted after its watcher
  has finished, and a start that was not answered ok left no core;
- `OrderInv`, `CalmInv`: without the order "overlap" only the newest connect waits,
  no session is newer than the current one, and connects and disconnects take turns;
- `TrueInv`, that "connected" is true or about to be corrected: while it is shown,
  the worker, a watcher or a message on its way will still change it, and an answer
  ok that comes last is about a core that runs or whose exit event is in front of it.
  "early" is the order where the exit event comes before the answer ok of its own
  session, so that nothing corrects what that answer sets;
- `ShownInv`, that a core which runs is shown: its connect waits, or "connected" is
  shown, or its stop is under way. "late" and "overlap" are the orders where an exit
  event of an older session takes "connected" away from a newer one.

### ServiceCoreProofs

| Theorem | Statement |
| --- | --- |
| `CoreIsReachable` | `Spec => []OneCoreReachable` |
| `ExitCodesAreOwn` | `Spec => []NoStaleExitCode` |

While no answer was late (`giveUps = 0`). The lock is let go in the middle of
`StartCore` and `StopCore`, so the invariant says who works meanwhile: `OneHandler`,
that but for the handlers of status requests only the one the UI waits for does;
`TakenOver`, that what this one took over is no longer `g_core` and that nothing is
kept once the service has stopped its core; `HandlerOK`, which steps may hold a
process, and that what was told to end is never stored again. `CoresCounted` bounds
the cores made by the requests sent: the numbers of the cores never run out, so that
no step is cut off by the bound.

### UpdaterProofs

| Theorem | Statement |
| --- | --- |
| `AnyRelease` | `Spec => []AnyInv` |
| `ReadyIsComplete` | when ready is announced, every changed file is staged |
| `FailuresRestore` | `Spec => FailedApplyRestoresFiles` |
| `AnnouncementsAreTrue` | `Spec => []AnnouncedIsTrue` |
| `ErrorsHaveFaults` | `Spec => []NoErrorWithoutFault` |

All hold of every history of releases. `Staged` says that a file no
longer to be downloaded has its blob, `Backups` and `OneAtATime` that at every step
of an apply the backups and the files without one are what was there before, which is
all a rollback needs.

Nothing is assumed of the contents: two files of one release with the same content share
one blob, as staging is by hash. The first is given it by a rename
(`windows/runner/entropy_vpn_service_apply.cpp:246`) and the second finds none, so that
such a release is downloaded, announced as ready, and rolled back every time it is
applied, without any fault, although `docs/auto-updater-plan.md:56-57` provides for it
("Multiple manifest entries with the same `sha256` share a single offset"). `Shares` and
`Alone` name these releases and files in the properties; `Backups` says that the files a
rollback could not restore are the only ones that differ afterwards (`lost`).

### ServiceNetworkProofs

| Theorem | Statement |
| --- | --- |
| `FiltersFollow` | `KsSpec => []FiltersFollowCommits` |
| `AnswersAreTrue` | `TunInit /\ [][TunNext]_tunVars => []RoutesAsAnswered` |

`FiltersFollow`, for every set of programs and any number of calls: the invariant
`KsInv` says where a transaction is at each step (`TxnOK`): an engage that reaches its
commit has a provider, a sublayer and the whole filter set but for DHCP (`Complete`),
a disengage has nothing. `CompleteBlocks` and `CompletePermits` evaluate the
platform's arbitration by weight over such a set, for every connection; `CommitKeeps`
carries that over to the committed objects. Every other step leaves these alone
(`PromiseKept`).

`AnswersAreTrue`, for any addresses: whatever the UI process is told has a route has
one. `EnsureOutcome` states what ensuring one route does to the table whatever fails
in it: an answer that is not a failure puts the route in, and no route to another
place is taken out. `TunInv` then follows an attempt to prepare the adapter
(`PrepOK`): from the moment it found its adapter it works on one incarnation, and its
list holds the halves of the address space it has got through, in order, each in the
table as long as that incarnation is there. `AddressesAssumption` keeps the addresses
apart from those halves.

### AppProofs

| Theorem | Statement |
| --- | --- |
| `SavedStateIsFound` | `StoreInit /\ [][StoreNext]_storeVars => [](faults <= 3 => SavedStateSurvives)` |
| `SettingsStayCoherent` | `SettingsInit /\ [][SettingsNext]_settingsVars => []SettingsCoherent` |
| `ListIsTrue` | `SourcesInit(initial) /\ [][SourcesStep]_sourceVars => []SourcesAsMeasured` |
| `SelectionStays` | `SourcesInit(initial) /\ [][SourcesStep]_sourceVars => SelectionIsTheUsers` |
| `MenuShowsTheList` | `SourcesInit(initial) /\ TrayInit /\ [][TrayNext]_trayVars => []MenuIsTrue` |

`SavedStateIsFound`: the three files are a code that corrects three faults and no
more. `DamageOK` weighs what is damaged against the faults it took: a torn primary
file costs two, and with it a lost temporary file, or a backup that the promotion in
`load` has copied a torn file over, a third. Four faults can lose a state: the bound
of the run is exact.

`SettingsStayCoherent`: `AskingOK` says that while no two changes overlapped there is
one question at most, for the settings as they were captured and after they were
saved, and `ShownOK` that TUN mode without a question under way has been granted, or that
a save which failed kept it from being asked for.

`ListIsTrue` and `SelectionStays`: `ListOK`, that an id is given once, so that
`_replaceSource` writes one source; `SourceOK`, what each source shows against the
operations under way; `JobOK`, that a captured copy was as true as the list when it
was taken, because a refresh that fails writes it back. `SourcesStep` adds the
selections made in the tray, whose ids may be gone, to the steps of `Sources`;
`initial` is any list as the state file gives it (`AtRest`). One lemma per operation
proves both that the invariant stays and that the selection is kept.

`MenuShowsTheList`, for any list and any height of the screen: Dart's `_lastPayload` and
the runner's items are two copies of the controller's list, with calls and answers
between them. `PipelineOK` says which copy is how old: the runner's items are the last
payload that was answered or is being answered, and the last `setItems` under way is the
list as it is, unless a change was skipped (`missed`). `MenuOK`, `SubOK` and `EndOK` tie
the two windows to the items: what is open shows the rows of the items and is as high as
they are, the hovered row is one of them and no separator, the submenu belongs to the row
it was opened from, and an offset never exceeds what can be scrolled. The heights are
sums along a list; `BottomRises` (the bottom of a row is not above the one before) and
`IndexIsOn` (at most one row is under the mouse, and it is found only if it is enabled)
are what the mouse needs of them.

### NativeLibraryProofs

| Theorem | Statement |
| --- | --- |
| `TunnelSplitsAsAsked` | `Spec => []SplitTunnelHonoured` |
| `ResolverIsTheUsers` | `Spec => []ResolverAsNamed` |
| `PingsAnswerTheirTargets` | `Spec => []PingsAreTheirTargets` |
| `ShownServerLeads` | `Spec => []ShownServerIsReached` |
| `LinksAreDialled` | `Spec => []LinkIsDialled` |
| `ImportsRoundTrip` | `Spec => []ImportRoundTrip` |

For every link, option, subscription, import, graph of outbounds and request for pings
that the assumptions allow. The invariants of the calls are short: `LibInv`, `GraphInv`,
`DialInv`, `TextInv` and `ImportInv` say of what the last call left that it is the
result of its function on what the calls before left. The work is in the lemmas about
these functions:

- *lists.* `ListFacts`, `ConcatLists`, `AppendList`, `TailedList`, `InsertIs` say what
  the operations on lists of any length give; `InOrderLists` and `PickedIs` what a loop
  that keeps some items gives: the items kept, once each, in their order;
- *rules.* The first rule that matches decides. `OutcomeIs`, `OutcomeJoined`,
  `OutcomeWhen` and `OutcomeIf` take the outcome of a list of rules apart along the way
  the list was put together, so that `WhitelistOutcome`, `BlacklistOutcome` and
  `XrayOutcome` can say in a closed form what happens to a connection, and
  `SingBoxHonours`, `XrayHonours` compare that with what the user asked for;
- *profiles.* `FoundIs` and `ReadBack`: as long as no text is the name of a field or
  holds a control character, reading a profile back from its JSON text gives the profile.
  What is run otherwise, an import or a text misread for one, is told apart by where the
  library has it from (`AsWritten`). `ParsedIs` is
  what the parsers make of a link, `RefusedIs` which of these profiles no core takes;
- *imports.* `SingBoxScores` and `XrayScores` show that the scores recognise what the
  app built. The settings put on an import insert a resolve rule after sniffing and a
  DNS rule after resolving: `ResolveSet`, `HijackIs` and `IpModeIs` say that each
  finds what it wanted there afterwards (the DNS rule, one for all queries unless the
  import has a narrow one), and `AppliedSettles` that applying them again changes
  nothing. `TextSettled` shows that what the builder wrote is settled already, so that
  the import of a configuration of this app keeps its rules;
- *groups.* `ResolveIs`: the search, which gives up where it has been before, still
  finds a server below a group if there is one, because the tags it has seen without
  success are closed under the children of their groups. The number of tags
  is depth enough for the recursion;
- *subscriptions.* `LinksFound` and `SubscriptionIs` follow the scan of a text from one
  boundary to the next.

`PingInv`, of the worker threads: a target before the counter is measured, or exactly one
worker is at it, and what that worker has seen so far is of this target; a worker that
ended leaves the counter behind the last target. `PingsRight` turns a table without
gaps into the reply.

`ImportRoundTrip` became more precise by its proof: it had no exception for the port. A
hysteria2 link with `serverPorts` as its name or password is built with its ALPN values
for a list of ports, because `json_string_array_value` reads the next bracket after the
first text it finds; the list then has no port to show after the import. No
link of the run had been named like that; now there are some.

### AndroidServiceProofs

| Theorem | Statement |
| --- | --- |
| `WhatIsShownRuns` | `Spec => []ShownIsOwned` |
| `KillswitchIsKept` | `Spec => []KillswitchKept` |
| `OnlyTheDeadFail` | `Spec => OnlyDeadSessionsFail` |

For any number of intents, revocations and changes of the preference, and so of
instances. None of the three is inductive: each speaks of a state in which everything
has been handled, or of a step after which the queues still hold what was caused
before it. One invariant, `AndroidInv`, carries all of them:

- `TypeInv` holds the type invariant and what the main thread has in front of it:
  instances are made one after another, the create message of an instance comes before
  everything else sent to it, an instance but the last is gone or will be by a message
  that waits, and so one at most is up (`OneUp`). This is where the program relies on
  the system: `startForegroundService` goes to the instance there is, and the main
  thread works in order;
- `PrefOK`: the last switch that waits in an instance's queue is the stored preference,
  and with no switch in the queue `killswitchActive` is what the preference says, or a
  blackhole could not be installed;
- `CalmInv`, while no instance was destroyed under a start:
  `PhaseOK`, what the store's phase says of the one instance that is up;
  `OrderOK`, that a session which waits to start, in an intent or in a task, has not
  run: it is owned by nobody and no report names it, so that a late report cannot be
  about a session to come;
  `LiveOK`, that what runs is owned by the instance that is up and what was reported
  does not run;
  `RunsOK`, that an instance shown as connected owns a core that runs, or whose end is
  with the thread that watches it or in the queue, or has the stop that will end it in
  its queue, and likewise its tun or the revocation that took it;
  `ErrorOK`, that after an error the instance blocks, is not wanted any more, or has a
  start or a stop in front of it.

The proof has one lemma per action and part. The tasks of an executor are first summed
up by two relations between an instance before and after (`Effect`, `Failed`), which the
invariant's parts are then followed through; the other threads by `Keeps`, what they
leave of an instance but its queue. `OnlyDeadSessionsFail` needs `LiveOK` and `OrderOK`
for the xray waiter, whose report names a session, and its exception `stale` for
libbox, whose reports do not.

## 7. Only model-checked, or not modelled

Every safety property of a passing run is proved. What is only model-checked is liveness
under fairness, which is about `ENABLED` and beyond the prover: `DeathsReported`,
`CallsFinish`, `BusyEnds`, `RequestsAnswered`, `StopCompletes`, `AdapterReleased`,
`PrepareAnswered`, `UpdateEnds`, `StoppedServiceEnds`, and the fairness of
`ImplementsLifecycle`. The four violations of section 5 are counterexamples of TLC.

The induction theorems of the library take an operator as a parameter, which no
installed prover can instantiate. Where a property depends on a recursive function or
on lists of any length, the induction is done on a *set* of numbers: a nonempty set of
natural numbers has a least member (`LeastNat`, from the well-foundedness of `<`), so a
set that holds 0 and the successor of each of its members holds all (`Inductive`). A
recursive function is first shown to exist, by the same induction on the length up to
which there is a function that satisfies its equation. No module declares a `RECURSIVE`
operator.

Not modelled, with the reason, per component in `PROJECT.json`. In short:

- pure conversions outside of the native library: the release manifest and the
  comparison of versions, the protocol's encoding, the headers of subscriptions, the
  diagnostics of a core's log. They are sequential, keep no state, and are exercised
  by the repository's tests;
- the Linux runtime (one child process behind pkexec), the app's own update check (a
  timer and the last tag shown), the Geo IP cache: they have hardly any state of
  their own;
- how the snapshots of the Android store, the VPN permission and incoming links
  reach the app;
- presentation: widgets, texts, painting, the horizontal layout of the menu;
- the release scripts, which run on a developer's machine.

Simplifications inside what is modelled: an Android `stop` passes through
"disconnecting" within one action; the updater's progress numbers, its automatic
check by age and the closing and reopening of the UI; temporary routes of a TCP
ping; the contents of addresses, registry values and arguments; Base64, percent
decoding and the syntax of JSON in the native library.

## 8. The plan

Done, in this order: WindowsRuntime with its abstract TunnelLifecycle and its
proofs, ServiceCore, PrewarmAdapter, Updater, VpnSession and its proofs,
AndroidService, then Killswitch with its proof and TunRoutes (with ServiceNetwork),
the native library, Sources, Settings, AppStateStore, TrayMenu (with AppShell); then
the proofs about Updater, ServiceCore, TunRoutes, the app, what WindowsRuntime leaves
behind, what VpnSession shows, AndroidService, the tray menu and the native library.

What is left, most important first:

1. Abstract specifications: VpnSession over WindowsRuntime's own actions instead of
   a reduced native side; an atomic register for AppStateStore without faults; "one
   core, reachable" for ServiceCore without late answers.
2. The app on Android as a client of AndroidService: snapshots, permission, tile.
3. The release manifest and the comparison of versions against an order over bounded
   inputs; the resolver's fallback order.

Runs stay few: a new module is checked by the run of the composition it belongs to
rather than by one of its own, and shallow invariants make room for deeper ones.
