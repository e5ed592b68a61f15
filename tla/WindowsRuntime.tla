--------------------------- MODULE WindowsRuntime ---------------------------
(***************************************************************************)
(* The native Windows runtime of the UI process: the WindowsRuntime-       *)
(* Controller of windows/runner/windows_runtime_channel_controller.cpp.    *)
(*                                                                         *)
(* Two kinds of threads share the controller:                              *)
(*   - the one WindowsRuntimeWorker thread, which runs the method calls    *)
(*     start, stop and setKillswitchPreference one after the other;        *)
(*   - one detached watcher thread per started core (WatchDirectProcess,   *)
(*     or PollServiceCore for a core run by the service), which reacts to  *)
(*     the death of its core in HandleUnexpectedExit.                      *)
(*                                                                         *)
(* A session is one RuntimeState object, numbered in the order Start       *)
(* creates them; state_ is the number of the current one, 0 for nullptr.   *)
(* Every lock section is one action, and so is every call that reads or    *)
(* changes something another thread sees (routes, proxy, filters, cores).  *)
(*                                                                         *)
(* Bounds: MaxStarts sessions, MaxCrashes crashes of the UI process.       *)
(***************************************************************************)
EXTENDS Integers, FiniteSets

CONSTANTS MaxStarts,     \* number of calls of start
          MaxCrashes,    \* number of crashes of the UI process
          Kinds          \* kinds of configurations start is called with

ASSUME MaxStartsAssumption == MaxStarts \in Nat
ASSUME MaxCrashesAssumption == MaxCrashes \in Nat
ASSUME KindsAssumption ==
         Kinds \subseteq {"xrayTun", "singTun", "xrayProxy", "plain"}

Sessions == 1 .. MaxStarts

VARIABLES
  (* the sessions: one entry per RuntimeState object *)
  made,      \* how many of them Start has created
  kind,      \* core and traffic mode
  svc,       \* use_service
  phase,     \* phase; started is set together with "running"
  stopReq,   \* stop_requested
  cleaned,   \* cleaned
  srv,       \* status of the server route in server_routes
  tun,       \* tun_routes is not empty
  snap,      \* proxy_snapshot: what was captured, "none" if nothing was
  (* the controller *)
  state_,    \* the current session
  pref,      \* killswitch_preference_
  lastState, \* phase in the last state event sent to the event sink
  (* the threads *)
  wpc, wop, wses,  \* worker: next step, call, session it works on
  watch,           \* watcher of each session: next step
  (* the operating system *)
  live,      \* cores that run
  routes,    \* routes installed: "server", "tun"
  proxy,     \* system proxy: the user's own setting or the core's port
  filters,   \* the WFP filters of the killswitch are installed
  (* history *)
  exits,     \* sessions whose exit event was sent
  stopped,   \* sessions a call of stop or start took over
  lost,      \* cores left behind by a crash of the UI process
  crashes,
  overlap,   \* an exit was handled while the worker ran a call
  disFailed, \* some attempt to remove the filters failed
  survivors, \* cores that an attempt to end them did not end
  leftover   \* changes that a failed removal, or a failed start that does not
             \* know of them, has left: "server", "tun", "proxy"

session == <<made, kind, svc, phase, stopReq, cleaned, srv, tun, snap>>
worker  == <<wpc, wop, wses>>
os      == <<live, routes, proxy, filters>>
history == <<exits, stopped, lost, crashes, overlap, disFailed, survivors,
             leftover>>
vars    == <<session, state_, pref, lastState, worker, watch, os, history>>

Phases == {"starting", "running", "error", "stopping"}

(* Steps of StartInternal, in order. *)
StartSteps == {"emitStart", "prereq", "sweep", "route", "prepare", "core",
               "tunRoutes", "proxyGet", "proxySet", "commit"}
(* Steps of StopInternal and of the failure branch of Start. *)
EndSteps == {"take", "mark", "kill", "fail", "failEmit", "failKill",
             "clean", "cleanServer", "cleanProxy", "release", "emitEnd"}
WorkerSteps == {"idle", "prefSet", "prefRead", "disengage", "install", "emitRun"}
               \cup StartSteps \cup EndSteps
(* Steps of HandleUnexpectedExit once it has taken the session over. *)
HandlingSteps == {"clean", "cleanServer", "cleanProxy", "prefTest", "engage",
                  "emitState", "emitExit"}
WatchSteps == {"none", "poll", "exited", "lock", "done"} \cup HandlingSteps

TypeOK ==
  /\ made \in 0 .. MaxStarts
  /\ kind \in [Sessions -> Kinds \cup {"none"}]
  /\ svc \in [Sessions -> BOOLEAN]
  /\ phase \in [Sessions -> Phases]
  /\ stopReq \in [Sessions -> BOOLEAN]
  /\ cleaned \in [Sessions -> BOOLEAN]
  /\ srv \in [Sessions -> {"none", "created", "replaced", "exists"}]
  /\ tun \in [Sessions -> BOOLEAN]
  /\ snap \in [Sessions -> {"none", "user", "core"}]
  /\ state_ \in 0 .. MaxStarts
  /\ pref \in BOOLEAN
  /\ lastState \in Phases \cup {"disconnected"}
  /\ wpc \in WorkerSteps
  /\ wop \in {"none", "start", "failed", "stop", "prefOn", "prefOff"}
  /\ wses \in 0 .. MaxStarts
  /\ watch \in [Sessions -> WatchSteps]
  /\ live \subseteq Sessions
  /\ routes \subseteq {"server", "tun"}
  /\ proxy \in {"user", "core"}
  /\ filters \in BOOLEAN
  /\ exits \subseteq Sessions /\ stopped \subseteq Sessions
  /\ lost \subseteq Sessions
  /\ crashes \in 0 .. MaxCrashes
  /\ overlap \in BOOLEAN /\ disFailed \in BOOLEAN
  /\ survivors \subseteq Sessions
  /\ leftover \subseteq {"server", "tun", "proxy"}

Init ==
  /\ made = 0
  /\ kind = [s \in Sessions |-> "none"]
  /\ svc = [s \in Sessions |-> FALSE]
  /\ phase = [s \in Sessions |-> "starting"]
  /\ stopReq = [s \in Sessions |-> FALSE]
  /\ cleaned = [s \in Sessions |-> FALSE]
  /\ srv = [s \in Sessions |-> "none"]
  /\ tun = [s \in Sessions |-> FALSE]
  /\ snap = [s \in Sessions |-> "none"]
  /\ state_ = 0 /\ pref = FALSE /\ lastState = "disconnected"
  /\ wpc = "idle" /\ wop = "none" /\ wses = 0
  /\ watch = [s \in Sessions |-> "none"]
  /\ live = {} /\ routes = {} /\ proxy = "user" /\ filters = FALSE
  /\ exits = {} /\ stopped = {} /\ lost = {} /\ crashes = 0
  /\ overlap = FALSE /\ disFailed = FALSE
  /\ survivors = {} /\ leftover = {}

-----------------------------------------------------------------------------
(* What Status() answers and EmitStateLocked sends. *)
Reported == IF state_ = 0 THEN "disconnected" ELSE phase[state_]

(* EmitState: reads state_ and sends it while event_mutex_ is held. *)
EmitState == lastState' = Reported

IsTun(k)  == k \in {"xrayTun", "singTun"}
CoreOf(k) == IF k \in {"xrayTun", "xrayProxy"} THEN "xray" ELSE "singBox"

Handling == {s \in Sessions : watch[s] \in HandlingSteps}

(* The worker moves on to step p of the same call and session. *)
Goto(p) == wpc' = p /\ UNCHANGED <<wop, wses>>

(* An attempt to undo one kind of change. It may fail, which nobody looks at:
   what it should have undone stays. *)
Undo(change, undone) ==
  \/ undone /\ UNCHANGED leftover
  \/ leftover' = leftover \cup {change} /\ UNCHANGED <<routes, proxy>>

(* CleanupState works in three observable steps; cleaned lets only the first
   thread that arrives run them. *)
RemoveTunRoutes(s) ==
  IF tun[s] THEN Undo("tun", routes' = routes \ {"tun"})
  ELSE UNCHANGED <<routes, leftover>>

RemoveServerRoute(s) ==
  IF srv[s] = "created" THEN Undo("server", routes' = routes \ {"server"})
  ELSE UNCHANGED <<routes, leftover>>

(* Mutant: the proxy would be restored for sessions that had started only. *)
BugRestoreProxyStarted(s) ==
  IF snap[s] # "none" /\ phase[s] # "error"
  THEN Undo("proxy", proxy' = snap[s])
  ELSE UNCHANGED <<proxy, leftover>>

RestoreProxy(s) ==
  IF snap[s] # "none" THEN Undo("proxy", proxy' = snap[s])
  ELSE UNCHANGED <<proxy, leftover>>

-----------------------------------------------------------------------------
(* Method calls reach the worker in the order the UI makes them. *)
BeginCall(op, p) ==
  /\ wpc = "idle"
  /\ wpc' = p /\ wop' = op /\ wses' = 0
  /\ overlap' = (overlap \/ Handling # {})
  /\ UNCHANGED <<session, state_, pref, lastState, watch, os, exits, stopped,
                 lost, crashes, disFailed, survivors, leftover>>

CallStart == made < MaxStarts /\ BeginCall("start", "take")
CallStop  == BeginCall("stop", "take")
CallSetKillswitchPreference ==
  \E op \in {"prefOn", "prefOff"} : BeginCall(op, "prefSet")

(* SetKillswitchPreference: exchange the preference ... *)
SetPreference ==
  /\ wpc = "prefSet"
  /\ pref' = (wop = "prefOn")
  /\ Goto("prefRead")
  /\ UNCHANGED <<session, state_, lastState, watch, os, history>>

(* Mutant: stale filters would stay when the preference changes. *)
BugReadRunningKeepsFilters ==
  /\ wpc = "prefRead"
  /\ Goto("idle")
  /\ UNCHANGED <<session, state_, pref, lastState, watch, os, history>>

(* ... and clear stale filters when no session runs. *)
ReadRunning ==
  /\ wpc = "prefRead"
  /\ Goto(IF Reported = "running" THEN "idle" ELSE "disengage")
  /\ UNCHANGED <<session, state_, pref, lastState, watch, os, history>>

-----------------------------------------------------------------------------
(* Mutant: Start would leave the old session in place. *)
BugTakeStateOnlyOnStop ==
  /\ wpc = "take"
  /\ state_' = IF wop = "start" THEN state_ ELSE 0
  /\ wses' = state_ /\ wop' = wop
  /\ wpc' = IF state_ = 0 THEN "emitEnd" ELSE "mark"
  /\ stopped' = stopped \cup ({state_} \ {0})
  /\ UNCHANGED <<session, pref, lastState, watch, os, exits, lost, crashes,
                 overlap, disFailed, survivors, leftover>>

(* StopInternal, which both start and stop begin with. *)
TakeState ==
  /\ wpc = "take"
  /\ state_' = 0
  /\ wses' = state_ /\ wop' = wop
  /\ wpc' = IF state_ = 0 THEN "emitEnd" ELSE "mark"
  /\ stopped' = stopped \cup ({state_} \ {0})
  /\ UNCHANGED <<session, pref, lastState, watch, os, exits, lost, crashes,
                 overlap, disFailed, survivors, leftover>>

(* phase and stop_requested are set after state_ was cleared, so the state
   event of this step says "disconnected", never "stopping". *)
MarkStopping ==
  /\ wpc = "mark"
  /\ phase' = [phase EXCEPT ![wses] = "stopping"]
  /\ stopReq' = [stopReq EXCEPT ![wses] = TRUE]
  /\ EmitState
  /\ Goto("kill")
  /\ UNCHANGED <<made, kind, svc, cleaned, srv, tun, snap, state_, pref,
                 watch, os, history>>

(* Ends the core of session s. TerminateProcess may fail, the wait for the end
   of the process is bounded and the request to the service may fail; the code
   looks at none of these results and goes on with a core that still runs. *)
EndCore(s) ==
  \/ live' = live \ {s} /\ UNCHANGED survivors
  \/ s \in live /\ survivors' = survivors \cup {s} /\ UNCHANGED live

StopCore ==
  /\ wpc = "kill"
  /\ EndCore(wses)
  /\ Goto("clean")
  /\ UNCHANGED <<session, state_, pref, lastState, watch, routes, proxy,
                 filters, exits, stopped, lost, crashes, overlap, disFailed,
                 leftover>>

(* The failure branch of Start: phase error, EmitState, stop_requested. *)
MarkError ==
  /\ wpc = "fail"
  /\ phase' = [phase EXCEPT ![wses] = "error"]
  /\ wpc' = "failEmit" /\ wop' = "failed" /\ UNCHANGED wses
  /\ UNCHANGED <<made, kind, svc, stopReq, cleaned, srv, tun, snap, state_,
                 pref, lastState, watch, os, history>>

EmitError ==
  /\ wpc = "failEmit"
  /\ EmitState
  /\ Goto("failKill")
  /\ UNCHANGED <<session, state_, pref, watch, os, history>>

(* Mutant: the failure branch would forget the core it had started. *)
BugFailedCoreNoKill ==
  /\ wpc = "failKill"
  /\ stopReq' = [stopReq EXCEPT ![wses] = TRUE]
  /\ Goto("clean")
  /\ UNCHANGED <<made, kind, svc, phase, cleaned, srv, tun, snap, state_,
                 pref, lastState, watch, os, history>>

StopFailedCore ==
  /\ wpc = "failKill"
  /\ stopReq' = [stopReq EXCEPT ![wses] = TRUE]
  /\ EndCore(wses)
  /\ Goto("clean")
  /\ UNCHANGED <<made, kind, svc, phase, cleaned, srv, tun, snap, state_, pref,
                 lastState, watch, routes, proxy, filters, exits, stopped,
                 lost, crashes, overlap, disFailed, leftover>>

(* CleanupState on the worker. *)
WorkerClean ==
  /\ wpc = "clean"
  /\ IF cleaned[wses]
     THEN Goto("release") /\ UNCHANGED <<cleaned, routes, leftover>>
     ELSE /\ cleaned' = [cleaned EXCEPT ![wses] = TRUE]
          /\ RemoveTunRoutes(wses)
          /\ Goto("cleanServer")
  /\ UNCHANGED <<made, kind, svc, phase, stopReq, srv, tun, snap, state_, pref,
                 lastState, watch, live, proxy, filters, exits, stopped, lost,
                 crashes, overlap, disFailed, survivors>>

WorkerCleanServer ==
  /\ wpc = "cleanServer"
  /\ RemoveServerRoute(wses)
  /\ Goto("cleanProxy")
  /\ UNCHANGED <<session, state_, pref, lastState, watch, live, proxy, filters,
                 exits, stopped, lost, crashes, overlap, disFailed, survivors>>

WorkerCleanProxy ==
  /\ wpc = "cleanProxy"
  /\ RestoreProxy(wses)
  /\ Goto("release")
  /\ UNCHANGED <<session, state_, pref, lastState, watch, live, routes,
                 filters, exits, stopped, lost, crashes, overlap, disFailed,
                 survivors>>

(* Mutant: the worker would wait for the watcher to end first. *)
BugReleaseWaits ==
  /\ wpc = "release" /\ watch[wses] = "done"
  /\ state_' = IF wop = "failed" /\ state_ = wses THEN 0 ELSE state_
  /\ Goto("emitEnd")
  /\ UNCHANGED <<session, pref, lastState, watch, os, history>>

(* Only the failure branch still has the session in state_. *)
ReleaseState ==
  /\ wpc = "release"
  /\ state_' = IF wop = "failed" /\ state_ = wses THEN 0 ELSE state_
  /\ Goto("emitEnd")
  /\ UNCHANGED <<session, pref, lastState, watch, os, history>>

EmitEnd ==
  /\ wpc = "emitEnd"
  /\ EmitState
  /\ Goto(IF wop = "failed" THEN "idle" ELSE "disengage")
  /\ UNCHANGED <<session, state_, pref, watch, os, history>>

(* AutoDisengageKillswitchLocked: both the service and the in-process path
   may be unavailable or fail, which is only logged. *)
Disengage ==
  /\ wpc = "disengage"
  /\ \/ filters' = FALSE /\ UNCHANGED disFailed
     \/ disFailed' = TRUE /\ UNCHANGED filters
  /\ Goto(IF wop = "start" THEN "install" ELSE "idle")
  /\ UNCHANGED <<session, state_, pref, lastState, watch, live, routes, proxy,
                 exits, stopped, lost, crashes, overlap, survivors, leftover>>

-----------------------------------------------------------------------------
(* Start, once the previous session is gone. *)
InstallState ==
  /\ wpc = "install"
  /\ made' = made + 1
  /\ state_' = made + 1
  /\ \E k \in Kinds : kind' = [kind EXCEPT ![made + 1] = k]
  /\ wses' = made + 1 /\ wpc' = "emitStart" /\ wop' = wop
  /\ UNCHANGED <<svc, phase, stopReq, cleaned, srv, tun, snap, pref,
                 lastState, watch, os, history>>

EmitStarting ==
  /\ wpc = "emitStart"
  /\ EmitState
  /\ Goto("prereq")
  /\ UNCHANGED <<session, state_, pref, watch, os, history>>

(* Any early return of StartInternal leads to the failure branch; the two
   that leave a route behind are in the actions that install it. *)
StartFails ==
  /\ wpc \in {"prereq", "route", "prepare", "core", "tunRoutes", "proxyGet"}
  /\ Goto("fail")
  /\ UNCHANGED <<session, state_, pref, lastState, watch, os, history>>

(* Arguments, wintun, privileges: TUN work goes to the service when the UI is
   not elevated and the service answers. *)
CheckPrerequisites ==
  /\ wpc = "prereq"
  /\ \E viaService \in (IF IsTun(kind[wses]) THEN BOOLEAN ELSE {FALSE}) :
       svc' = [svc EXCEPT ![wses] = viaService]
  /\ Goto(IF IsTun(kind[wses]) THEN "sweep" ELSE "prepare")
  /\ UNCHANGED <<made, kind, phase, stopReq, cleaned, srv, tun, snap, state_,
                 pref, lastState, watch, os, history>>

(* Mutant: stale cores would be left alone. *)
BugNoSweep ==
  /\ wpc = "sweep"
  /\ Goto("route")
  /\ UNCHANGED <<session, state_, pref, lastState, watch, os, history>>

(* StopStaleCores: the processes of the same binary are terminated, but the
   list of processes may not be had, a path may not be readable, and a process
   may refuse or outlast the wait; Start goes on with whatever is left. *)
StopStaleCores ==
  /\ wpc = "sweep"
  /\ LET stale == {c \in live : CoreOf(kind[c]) = CoreOf(kind[wses])}
     IN \E left \in SUBSET stale :
          /\ live' = live \ (stale \ left)
          /\ survivors' = survivors \cup left
  /\ Goto("route")
  /\ UNCHANGED <<session, state_, pref, lastState, watch, routes, proxy,
                 filters, exits, stopped, lost, crashes, overlap, disFailed,
                 leftover>>

(* PrepareTunServerRouting and DecodeRoutes: "exists" when the route is there
   already, "replaced" when a route of another interface was in the way. The
   session may not get to know that it made the route: the route of a further
   address failed, or the answer of the service came too late. The UI process
   then prepares the routes itself and may find the one of the service. *)
PrepareServerRouting ==
  /\ wpc = "route"
  /\ routes' = routes \cup {"server"}
  /\ \/ /\ \E status \in (IF "server" \in routes THEN {"exists"}
                          ELSE {"created", "replaced"}) :
             srv' = [srv EXCEPT ![wses] = status]
        /\ Goto("prepare") /\ UNCHANGED leftover
     \/ /\ "server" \notin routes
        /\ leftover' = leftover \cup {"server"}
        /\ \/ /\ svc[wses]
              /\ srv' = [srv EXCEPT ![wses] = "exists"] /\ Goto("prepare")
           \/ Goto("fail") /\ UNCHANGED srv
  /\ UNCHANGED <<made, kind, svc, phase, stopReq, cleaned, tun, snap, state_,
                 pref, lastState, watch, live, proxy, filters, exits, stopped,
                 lost, crashes, overlap, disFailed, survivors>>

(* Build the config, create the directory, write and validate. *)
PrepareConfig ==
  /\ wpc = "prepare"
  /\ Goto("core")
  /\ UNCHANGED <<session, state_, pref, lastState, watch, os, history>>

AfterCore(k) == IF k = "xrayTun" THEN "tunRoutes"
                ELSE IF k = "xrayProxy" THEN "proxyGet" ELSE "commit"

(* StartCoreDirect, StartCoreViaService: the service runs one core only and
   ends the one it had. The watcher starts with the core. *)
StartCore ==
  /\ wpc = "core"
  /\ live' = {c \in live : ~(svc[wses] /\ svc[c])} \cup {wses}
  /\ watch' = [watch EXCEPT ![wses] = "poll"]
  /\ Goto(AfterCore(kind[wses]))
  /\ UNCHANGED <<session, state_, pref, lastState, routes, proxy, filters,
                 history>>

(* The service started the core, but its answer did not arrive in time. *)
StartCoreAnswerLost ==
  /\ wpc = "core" /\ svc[wses]
  /\ live' = {c \in live : ~svc[c]} \cup {wses}
  /\ Goto("fail")
  /\ UNCHANGED <<session, state_, pref, lastState, watch, routes, proxy,
                 filters, history>>

(* The first route may be installed and the second fail, or the answer of the
   service be late: the session then knows of none. *)
PrepareXrayTunRoutes ==
  /\ wpc = "tunRoutes"
  /\ routes' = routes \cup {"tun"}
  /\ \/ tun' = [tun EXCEPT ![wses] = TRUE] /\ Goto("commit")
        /\ UNCHANGED leftover
     \/ leftover' = leftover \cup {"tun"} /\ Goto("fail") /\ UNCHANGED tun
  /\ UNCHANGED <<made, kind, svc, phase, stopReq, cleaned, srv, snap, state_,
                 pref, lastState, watch, live, proxy, filters, exits, stopped,
                 lost, crashes, overlap, disFailed, survivors>>

CaptureProxy ==
  /\ wpc = "proxyGet"
  /\ snap' = [snap EXCEPT ![wses] = proxy]
  /\ Goto("proxySet")
  /\ UNCHANGED <<made, kind, svc, phase, stopReq, cleaned, srv, tun, state_,
                 pref, lastState, watch, os, history>>

(* SetSystemProxy writes ProxyEnable first: a failure of a later value may
   leave the proxy switched on. *)
SetProxy ==
  /\ wpc = "proxySet"
  /\ \/ proxy' = "core" /\ Goto("commit")
     \/ proxy' \in {proxy, "core"} /\ Goto("fail")
  /\ UNCHANGED <<session, state_, pref, lastState, watch, live, routes,
                 filters, history>>

StartSucceeds ==
  /\ wpc = "commit"
  /\ phase' = [phase EXCEPT ![wses] = "running"]
  /\ Goto("emitRun")
  /\ UNCHANGED <<made, kind, svc, stopReq, cleaned, srv, tun, snap, state_,
                 pref, lastState, watch, os, history>>

(* Mutant: the event would be built from the session Start holds. *)
BugEmitOwnSession ==
  /\ wpc = "emitRun"
  /\ lastState' = phase[wses]
  /\ Goto("idle")
  /\ UNCHANGED <<session, state_, pref, watch, os, history>>

EmitRunning ==
  /\ wpc = "emitRun"
  /\ EmitState
  /\ Goto("idle")
  /\ UNCHANGED <<session, state_, pref, watch, os, history>>

-----------------------------------------------------------------------------
(* The watcher of session s. *)
WatchGoto(s, p) == watch' = [watch EXCEPT ![s] = p]

(* WatchDirectProcess wakes when the process is gone; PollServiceCore asks the
   service and gives up once stop_requested is set. *)
NoticeExit(s) ==
  /\ watch[s] = "poll"
  /\ \/ s \notin live /\ WatchGoto(s, "exited")
     \/ svc[s] /\ stopReq[s] /\ WatchGoto(s, "done")
  /\ UNCHANGED <<session, state_, pref, lastState, worker, os, history>>

TestStopRequested(s) ==
  /\ watch[s] = "exited"
  /\ WatchGoto(s, IF stopReq[s] THEN "done" ELSE "lock")
  /\ UNCHANGED <<session, state_, pref, lastState, worker, os, history>>

(* Mutant: stop_requested alone would decide who ends the session. *)
BugTakeOverUnchecked(s) ==
  /\ watch[s] = "lock"
  /\ state_' = 0
  /\ WatchGoto(s, "clean")
  /\ overlap' = (overlap \/ wpc # "idle")
  /\ UNCHANGED <<session, pref, lastState, worker, os, exits, stopped, lost,
                 crashes, disFailed, survivors, leftover>>

(* Mutant: a core that dies during the start would be ignored. *)
BugTakeOverRunningOnly(s) ==
  /\ watch[s] = "lock"
  /\ IF state_ = s /\ phase[s] = "running"
     THEN /\ state_' = 0
          /\ WatchGoto(s, "clean")
          /\ overlap' = (overlap \/ wpc # "idle")
     ELSE WatchGoto(s, "done") /\ UNCHANGED <<state_, overlap>>
  /\ UNCHANGED <<session, pref, lastState, worker, os, exits, stopped, lost,
                 crashes, disFailed, survivors, leftover>>

(* HandleUnexpectedExit takes the session over if nobody else has. *)
TakeOver(s) ==
  /\ watch[s] = "lock"
  /\ IF state_ = s
     THEN /\ state_' = 0
          /\ WatchGoto(s, "clean")
          /\ overlap' = (overlap \/ wpc # "idle")
     ELSE WatchGoto(s, "done") /\ UNCHANGED <<state_, overlap>>
  /\ UNCHANGED <<session, pref, lastState, worker, os, exits, stopped, lost,
                 crashes, disFailed, survivors, leftover>>

WatchClean(s) ==
  /\ watch[s] = "clean"
  /\ IF cleaned[s]
     THEN WatchGoto(s, "prefTest") /\ UNCHANGED <<cleaned, routes, leftover>>
     ELSE /\ cleaned' = [cleaned EXCEPT ![s] = TRUE]
          /\ RemoveTunRoutes(s)
          /\ WatchGoto(s, "cleanServer")
  /\ UNCHANGED <<made, kind, svc, phase, stopReq, srv, tun, snap, state_, pref,
                 lastState, worker, live, proxy, filters, exits, stopped, lost,
                 crashes, overlap, disFailed, survivors>>

WatchCleanServer(s) ==
  /\ watch[s] = "cleanServer"
  /\ RemoveServerRoute(s)
  /\ WatchGoto(s, "cleanProxy")
  /\ UNCHANGED <<session, state_, pref, lastState, worker, live, proxy,
                 filters, exits, stopped, lost, crashes, overlap, disFailed,
                 survivors>>

WatchCleanProxy(s) ==
  /\ watch[s] = "cleanProxy"
  /\ RestoreProxy(s)
  /\ WatchGoto(s, "prefTest")
  /\ UNCHANGED <<session, state_, pref, lastState, worker, live, routes,
                 filters, exits, stopped, lost, crashes, overlap, disFailed,
                 survivors>>

TestPreference(s) ==
  /\ watch[s] = "prefTest"
  /\ WatchGoto(s, IF pref THEN "engage" ELSE "emitState")
  /\ UNCHANGED <<session, state_, pref, lastState, worker, os, history>>

(* AutoEngageKillswitchLocked: a failure is only logged. *)
Engage(s) ==
  /\ watch[s] = "engage"
  /\ filters' \in {TRUE, filters}
  /\ WatchGoto(s, "emitState")
  /\ UNCHANGED <<session, state_, pref, lastState, worker, live, routes,
                 proxy, history>>

WatchEmitState(s) ==
  /\ watch[s] = "emitState"
  /\ EmitState
  /\ WatchGoto(s, "emitExit")
  /\ UNCHANGED <<session, state_, pref, worker, os, history>>

EmitExit(s) ==
  /\ watch[s] = "emitExit"
  /\ exits' = exits \cup {s}
  /\ WatchGoto(s, "done")
  /\ UNCHANGED <<session, state_, pref, lastState, worker, os, stopped, lost,
                 crashes, overlap, disFailed, survivors, leftover>>

-----------------------------------------------------------------------------
(* The environment. A core may die at any time; the TUN adapter may go with
   it, and its routes with the adapter. *)
CoreDies(s) ==
  /\ s \in live
  /\ live' = live \ {s}
  /\ routes' \in {routes, IF IsTun(kind[s]) THEN routes \ {"tun"} ELSE routes}
  /\ UNCHANGED <<session, state_, pref, lastState, worker, watch, proxy,
                 filters, history>>

(* The UI process dies and is started again: its threads, the current session
   and the preference are gone; cores, routes, proxy and filters stay. *)
UiCrash ==
  /\ crashes < MaxCrashes
  /\ crashes' = crashes + 1
  /\ state_' = 0 /\ pref' = FALSE /\ lastState' = "disconnected"
  /\ wpc' = "idle" /\ wop' = "none" /\ wses' = 0
  /\ watch' = [s \in Sessions |-> "none"]
  /\ lost' = lost \cup live
  /\ UNCHANGED <<session, os, exits, stopped, overlap, disFailed, survivors,
                 leftover>>

-----------------------------------------------------------------------------
Calls == CallStart \/ CallStop \/ CallSetKillswitchPreference

WorkerStep ==
  \/ SetPreference \/ ReadRunning
  \/ TakeState \/ MarkStopping \/ StopCore
  \/ MarkError \/ EmitError \/ StopFailedCore
  \/ WorkerClean \/ WorkerCleanServer \/ WorkerCleanProxy
  \/ ReleaseState \/ EmitEnd \/ Disengage
  \/ InstallState \/ EmitStarting \/ StartFails \/ CheckPrerequisites
  \/ StopStaleCores \/ PrepareServerRouting \/ PrepareConfig
  \/ StartCore \/ StartCoreAnswerLost \/ PrepareXrayTunRoutes
  \/ CaptureProxy \/ SetProxy \/ StartSucceeds \/ EmitRunning

WatcherStep(s) ==
  \/ NoticeExit(s) \/ TestStopRequested(s) \/ TakeOver(s)
  \/ WatchClean(s) \/ WatchCleanServer(s) \/ WatchCleanProxy(s)
  \/ TestPreference(s) \/ Engage(s) \/ WatchEmitState(s) \/ EmitExit(s)

Environment == UiCrash \/ \E s \in Sessions : CoreDies(s)

Next ==
  \/ Calls
  \/ WorkerStep
  \/ \E s \in Sessions : WatcherStep(s)
  \/ Environment

Spec == Init /\ [][Next]_vars

(* The threads run; the user and the operating system owe nothing. *)
Fairness ==
  /\ WF_vars(WorkerStep)
  /\ \A s \in Sessions : WF_vars(WatcherStep(s))

FairSpec == Spec /\ Fairness

-----------------------------------------------------------------------------
(* Properties *)

(* No core is forgotten. One that runs is the core of the current session, or
   the worker is about to end it, or it has outlived an attempt to end it, or
   the UI process that owned it crashed. A watcher that took over a live
   session, or a start that replaced one, would leave a core nobody ever tried
   to stop (Start, StopInternal, HandleUnexpectedExit). *)
LiveCoreIsOwned ==
  \A s \in live \ lost :
    \/ state_ = s
    \/ wses = s /\ wpc \in {"mark", "kill"}
    \/ s \in survivors

(* Two cores never run at the same time, except for those that have outlived
   an attempt to end them or were left by a crash: both would bind the same
   local port. *)
AtMostOneCore ==
  \A s, t \in live \ (lost \cup survivors) : s = t

(* The exit of a core is reported to Dart only if no stop took the session
   first: the user's stop is never answered by "the core died". *)
ExitXorStop == exits \cap stopped = {}

AtRest == wpc = "idle" /\ Handling = {}

(* Whichever threads raced, once they rest the last state event Dart received
   says what Status() would answer: no lost or outdated state event. *)
StateEventFresh == AtRest => lastState = Reported

(* With no session, and if no exit was ever handled during a call, everything
   Start changed in the system is undone, whatever step it failed at: no TUN
   route, the user's own proxy, and the server route only if it replaced one
   of another interface (DecodeRoutes keeps those). The exceptions are the
   failures the code cannot know of or does not look at: a removal that
   failed, and a route whose session was not told of it. *)
CleanAtRest ==
  AtRest /\ state_ = 0 /\ ~overlap /\ crashes = 0 =>
    /\ "tun" \in routes => "tun" \in leftover
    /\ proxy # "user" => "proxy" \in leftover
    /\ "server" \in routes =>
         "server" \in leftover \/ \E s \in Sessions : srv[s] = "replaced"

(* Filters are installed at rest only when a started session ended by itself
   with the preference on, and no call was made since; never while a session
   is up, after a stop, or after the preference was switched off. A new UI
   process may find the filters of a crashed one, until its first call. *)
FiltersOnlyAfterExit ==
  AtRest /\ filters /\ ~overlap /\ ~disFailed =>
    \/ state_ = 0 /\ wop \in {"start", "prefOn"} /\ pref
    \/ crashes > 0 /\ wop = "none"

(* A core started for TUN shares the machine with no older core of the same
   binary that was not told to end, not even with one that a crashed UI
   process left behind: what is still there has survived the sweep or the end
   of its session (StopStaleCores, StopInternal). *)
TunCoreRunsAlone ==
  \A s, t \in live :
    s < t /\ IsTun(kind[t]) /\ CoreOf(kind[s]) = CoreOf(kind[t])
      => s \in survivors

(* A session leaves state_ only to leave it empty: no thread ever replaces a
   session that another thread could still be working for. *)
SlotNeverOverwritten == [][state_ # 0 => state_' \in {state_, 0}]_vars

(* A thread that has seen the death of a core ends the session: the death of
   the core of the current session never goes unnoticed, unless the UI process
   dies. *)
DeathNoticed ==
  \A s \in Sessions :
    (state_ = s /\ watch[s] # "none" /\ s \notin live) ~> (state_ # s)

(* Every call is answered, and every exit that was taken over is reported,
   unless the UI process dies first. *)
CallsFinish == (wpc # "idle") ~> (wpc = "idle")
ExitReported ==
  \A s \in Sessions :
    (s \in Handling) ~> (s \in exits \/ watch[s] = "none")

(* A death is noticed and, once taken over, reported. *)
DeathsReported == DeathNoticed /\ ExitReported

(* The inductive invariant: why the threads never work for each other's
   sessions. *)

(* Sessions beyond the last one made are untouched. *)
FreshSessions ==
  /\ state_ <= made /\ wses <= made
  /\ \A s \in Sessions : s > made =>
       /\ watch[s] = "none" /\ phase[s] = "starting" /\ ~stopReq[s]
       /\ s \notin live \cup exits \cup stopped \cup lost

CleanupSteps == {"clean", "cleanServer", "cleanProxy", "release"}

(* Which call the worker can be in at some steps; a call of start is made only
   while a session is left for it. *)
StepsOfCalls ==
  /\ wpc = "install" => wop = "start"
  /\ wpc \in {"prefSet", "prefRead"} => wop \in {"prefOn", "prefOff"}
  /\ wop = "start" /\ wpc \in {"take", "mark", "kill", "emitEnd", "disengage",
                              "install"} \cup CleanupSteps
       => made < MaxStarts

(* Between the moment StopInternal empties state_ and the moment Start fills
   it again, nobody else fills it. *)
SlotEmpty ==
  /\ wpc \in {"mark", "kill", "install"} => state_ = 0
  /\ wpc \in CleanupSteps /\ wop # "failed" => state_ = 0
  /\ wpc = "emitEnd" => state_ = 0
  /\ wpc = "disengage" /\ wop = "start" => state_ = 0

(* While Start works for a session, state_ holds this one or none; until the
   core is started nobody else knows it. *)
StartOwns ==
  /\ wpc \in StartSteps \cup CleanupSteps
            \cup {"emitRun", "mark", "kill", "fail", "failEmit", "failKill"}
       => wses # 0
  /\ wpc \in StartSteps \cup CleanupSteps
            \cup {"emitRun", "fail", "failEmit", "failKill"}
       => state_ \in {0, wses}
  /\ wpc \in {"failEmit", "failKill"} => wop = "failed"
  /\ wpc \in StartSteps \cup {"fail"} => phase[wses] = "starting"
  /\ wpc \in {"emitStart", "prereq", "sweep", "route", "prepare", "core"}
       => /\ state_ = wses /\ watch[wses] = "none"
          /\ wses \notin live /\ ~stopReq[wses]

(* A watcher acts only once its core is dead. *)
WatchersOfDeadCores ==
  \A s \in Sessions :
    watch[s] \in {"exited", "lock"} \cup HandlingSteps => s \notin live

(* Whoever ended a session took it out of state_ for good. *)
EndedOnce ==
  \A s \in Sessions :
    /\ s \in Handling \cup exits \cup stopped => state_ # s
    /\ s \in stopped => s \notin Handling \cup exits

(* The failure branch and StopInternal go on only after an attempt to end the
   core: what they leave behind is a survivor. *)
CoreGoneAfterKill ==
  wpc \in CleanupSteps => wses \notin live \ (lost \cup survivors)

IInv ==
  /\ TypeOK /\ StepsOfCalls /\ FreshSessions /\ SlotEmpty /\ StartOwns
  /\ WatchersOfDeadCores /\ EndedOnce /\ CoreGoneAfterKill /\ LiveCoreIsOwned

(* The controller implements the lifecycle its user interface relies on:
   whatever the threads do, what Status() shows moves along it, and a start is
   resolved. *)
Lifecycle == INSTANCE TunnelLifecycle
               WITH Ids <- Sessions, session <- state_,
                    status <- Reported, used <- 1 .. made
ImplementsLifecycle == Lifecycle!FairSpec

-----------------------------------------------------------------------------
(* What the comments of the source say, and the code does not do *)

(* "A user-initiated stop always clears killswitch protection": after a stop
   the filters are gone, if their removal did not fail. *)
StopClearsKillswitch ==
  wpc = "idle" /\ wop = "stop" /\ ~disFailed => ~filters
=============================================================================
