--------------------------- MODULE AndroidService ---------------------------
(***************************************************************************)
(* The VPN service of the Android app: EntropyVpnService.kt and the        *)
(* process-wide EntropyVpnRuntimeStore.kt.                                 *)
(*                                                                         *)
(* Three threads matter.  The main thread handles the service's callbacks  *)
(* (onCreate, onStartCommand, onRevoke, onDestroy) one after another.      *)
(* Each instance of the service has an executor of one thread, to which    *)
(* the callbacks and the threads that watch a core dispatch tasks.  The    *)
(* system decides when an instance is made and destroyed: an intent makes  *)
(* one if there is none, stopSelf lets it go, and a VPN interface of the   *)
(* app keeps it, whether or not it is still wanted.                        *)
(*                                                                         *)
(* A task is one action, except that a start and the handling of a failure *)
(* are cut where they wait for a core that they have ended, a start where  *)
(* it calls out of the service (launch of the core, opening of the         *)
(* interface) and a stop before its stopSelf: there onDestroy, which does  *)
(* not wait for the executor, can run in between.  The app and the quick   *)
(* settings tile send intents without waiting for each other.              *)
(*                                                                         *)
(* Bounds: MaxStarts start intents, MaxStops stop intents and revocations, *)
(* MaxToggles changes of the killswitch preference.                        *)
(***************************************************************************)
EXTENDS Integers, Sequences, FiniteSets

CONSTANTS MaxStarts, MaxStops, MaxToggles

ASSUME BoundsAssumption == {MaxStarts, MaxStops, MaxToggles} \subseteq Nat

Sessions  == 1 .. MaxStarts               \* a start intent is a session
Instances == 1 .. (MaxStarts + MaxStops)

VARIABLES
  phase,    \* EntropyVpnRuntimeStore.phase
  pref,     \* the stored killswitch preference
  core,     \* the core each start intent asks for, "none" before it is sent
  svc,      \* the instances of the service
  main,     \* the messages of the main thread
  record,   \* the instance the system has for the service, 0 for none
  wanted,   \* whether it has been started and has not stopped itself
  iface,    \* the VPN interface of the app, and the instance that opened it
  live,     \* the sessions whose core runs
  notices,  \* what the threads that watch the cores have yet to report
  made,     \* instances made
  stops,    \* stop intents and revocations sent
  toggles,  \* changes of the preference made
  odd       \* which of the orders named below have happened

system == <<main, record, wanted, made>>
sent   == <<core, stops, toggles>>
vars   == <<phase, pref, svc, system, iface, live, notices, sent, odd>>

Message(op, i, s) == [op |-> op, to |-> i, session |-> s]
Task(op, s)       == [op |-> op, session |-> s]
Notice(op, i, s)  == [op |-> op, to |-> i, session |-> s]
Iface(kind, i)    == [kind |-> kind, by |-> i]

NoTask  == Task("none", 0)
NoIface == Iface("none", 0)

Reports  == {"exit", "stopped", "closed"}
Tasks    == [op : {"none", "start", "stop", "on", "off"} \cup Reports,
             session : 0 .. MaxStarts]
Messages == [op : {"create", "start", "stop", "revoke", "destroy"},
             to : Instances, session : 0 .. MaxStarts]

Fresh == [state |-> "none", queue |-> <<>>, job |-> NoTask, at |-> "begin",
          expected |-> FALSE, server |-> 0, process |-> 0, bridge |-> FALSE,
          active |-> FALSE, hole |-> FALSE]

(* "stale":       libbox's report about one session ended another.         *)
(* "dropped":     the executor was shut down with a start in its queue.    *)
(* "destroyed":   onDestroy ran while the store said connecting or         *)
(*                connected, or in the middle of a start or of the handling *)
(*                of a failure: a start was delivered before the stopSelf of *)
(*                an earlier task.                                          *)
(* "unprotected": the blackhole could not be installed.                    *)
Orders == {"stale", "dropped", "destroyed", "unprotected"}

TypeOK ==
  /\ phase \in {"disconnected", "connecting", "connected", "error"}
  /\ pref \in BOOLEAN
  /\ core \in [Sessions -> {"none", "xray", "singBox"}]
  /\ svc \in [Instances ->
       [state : {"none", "up", "gone"}, queue : Seq(Tasks), job : Tasks,
        at : {"begin", "reset", "core", "bridge", "mark", "handle", "stopSelf"},
        expected : BOOLEAN, server : 0 .. MaxStarts, process : 0 .. MaxStarts,
        bridge : BOOLEAN, active : BOOLEAN, hole : BOOLEAN]]
  /\ \A i \in Instances :
       /\ svc[i].server = 0 \/ svc[i].process = 0
       /\ svc[i].job = NoTask <=> svc[i].at = "begin"
       /\ svc[i].state = "none" <=> i > made \/ Message("create", i, 0) \in {main[n] : n \in DOMAIN main}
  /\ main \in Seq(Messages)
  /\ record \in 0 .. made /\ wanted \in BOOLEAN
  /\ iface.kind \in {"none", "tun", "hole"} /\ iface.by \in 0 .. made
  /\ live \subseteq {s \in Sessions : core[s] # "none"}
  /\ notices \subseteq [op : Reports, to : Instances, session : Sessions]
  /\ made \in 0 .. (MaxStarts + MaxStops)
  /\ stops \in 0 .. MaxStops /\ toggles \in 0 .. MaxToggles
  /\ odd \subseteq Orders

Init ==
  /\ phase = "disconnected" /\ pref \in BOOLEAN
  /\ core = [s \in Sessions |-> "none"]
  /\ svc = [i \in Instances |-> Fresh]
  /\ main = <<>> /\ record = 0 /\ wanted = FALSE /\ made = 0
  /\ iface = NoIface /\ live = {} /\ notices = {}
  /\ stops = 0 /\ toggles = 0 /\ odd = {}

-----------------------------------------------------------------------------
(* Clients: the app and the tile.                                           *)

Sent == {s \in Sessions : core[s] # "none"}

(* startForegroundService: the intent goes to the instance there is, or to a *)
(* new one.                                                                  *)
SendIntent(op, s) ==
  /\ wanted' = TRUE
  /\ IF record # 0
     THEN /\ main' = Append(main, Message(op, record, s))
          /\ UNCHANGED <<record, made>>
     ELSE /\ made' = made + 1
          /\ record' = made + 1
          /\ main' = main \o <<Message("create", made + 1, 0), Message(op, made + 1, s)>>

ClientStart(c) ==
  LET s == Cardinality(Sent) + 1 IN
  /\ s \in Sessions
  /\ core' = [core EXCEPT ![s] = c]
  /\ SendIntent("start", s)
  /\ UNCHANGED <<phase, pref, svc, iface, live, notices, stops, toggles, odd>>

ClientStop ==
  /\ stops < MaxStops
  /\ stops' = stops + 1
  /\ SendIntent("stop", 0)
  /\ UNCHANGED <<phase, pref, svc, iface, live, notices, core, toggles, odd>>

(* Another VPN app takes over: the system closes the interface and tells the *)
(* instance.                                                                 *)
Revoke ==
  /\ stops < MaxStops /\ iface # NoIface /\ svc[iface.by].state = "up"
  /\ stops' = stops + 1
  /\ iface' = NoIface
  /\ main' = Append(main, Message("revoke", iface.by, 0))
  /\ UNCHANGED <<phase, pref, svc, record, wanted, made, live, notices, core, toggles, odd>>

Dispatched(r, task) ==
  IF r.state = "up" THEN [r EXCEPT !.queue = Append(@, task)] ELSE r

(* writeKillswitchPreference, on the main thread: the listener of every      *)
(* instance that is up runs at once and dispatches.                          *)
ToggleKillswitch ==
  /\ toggles < MaxToggles
  /\ toggles' = toggles + 1
  /\ pref' = ~pref
  /\ svc' = [i \in Instances |-> Dispatched(svc[i], Task(IF pref THEN "off" ELSE "on", 0))]
  /\ UNCHANGED <<phase, system, iface, live, notices, core, stops, odd>>

-----------------------------------------------------------------------------
(* What stopActiveRuntime ends in an instance, and what ending it makes the  *)
(* watching threads report: a killed process exits, a client's stream ends.  *)
Owned(r) == {r.server, r.process} \ {0}

StopActiveRuntime(i) ==
  LET r == svc[i] IN
  /\ live' = live \ Owned(r)
  /\ notices' = notices
       \cup {Notice("exit", i, s) : s \in {r.process} \cap live}
       \cup {Notice("closed", i, s) : s \in {x \in {r.server} : x # 0 /\ r.bridge}}

Idle(r) == [r EXCEPT !.server = 0, !.process = 0, !.bridge = FALSE]

(* The interface after the instance has closed its tun or its blackhole.     *)
Closing(kinds, i) == IF iface.by = i /\ iface.kind \in kinds THEN NoIface ELSE iface

StopSelf(i) == wanted' = (wanted /\ record # i)

(* handleFailure in an instance whose executor works on the task that has  *)
(* failed, r; orders are what the history takes note of.                   *)
HandleFailure(i, r, orders) ==
  /\ phase' = "error"
  /\ StopActiveRuntime(i)
  /\ svc' = [svc EXCEPT ![i] = [Idle(r) EXCEPT !.expected = TRUE, !.at = "handle"]]
  /\ iface' = Closing({"tun"}, i)
  /\ odd' = odd \cup orders

-----------------------------------------------------------------------------
(* The main thread.                                                          *)

Handles(op) == main # <<>> /\ Head(main).op = op /\ main' = Tail(main)

OnCreate ==
  /\ Handles("create")
  /\ svc' = [svc EXCEPT ![Head(main).to].state = "up", ![Head(main).to].active = pref]
  /\ UNCHANGED <<phase, pref, record, wanted, made, iface, live, notices, sent, odd>>

OnStartCommand ==
  /\ Handles("start") \/ Handles("stop")
  /\ LET m == Head(main) IN
       svc' = [svc EXCEPT ![m.to] = Dispatched(@, Task(m.op, m.session))]
  /\ UNCHANGED <<phase, pref, record, wanted, made, iface, live, notices, sent, odd>>

OnRevoke ==
  /\ Handles("revoke")
  /\ svc' = [svc EXCEPT ![Head(main).to] =
               [Dispatched(@, Task("stop", 0)) EXCEPT !.expected = TRUE]]
  /\ UNCHANGED <<phase, pref, record, wanted, made, iface, live, notices, sent, odd>>

(* shutdownNow drops the tasks that wait and lets the one that runs go on,   *)
(* whose waiting for a process it interrupts.                                *)
OnDestroy ==
  /\ Handles("destroy")
  /\ LET i == Head(main).to
         r == svc[i]
     IN /\ StopActiveRuntime(i)
        /\ svc' = [svc EXCEPT ![i] =
             [Idle(r) EXCEPT !.state = "gone", !.expected = TRUE, !.hole = FALSE, !.queue = <<>>]]
        /\ iface' = Closing({"tun", "hole"}, i)
        /\ odd' = odd \cup (IF \E n \in DOMAIN r.queue : r.queue[n].op = "start"
                            THEN {"dropped"} ELSE {})
                      \cup (IF phase \in {"connecting", "connected"} \/ r.at \in {"reset", "handle"}
                            THEN {"destroyed"} ELSE {})
  /\ UNCHANGED <<phase, pref, record, wanted, made, sent>>

(* The system destroys an instance that is neither wanted nor bound by a VPN *)
(* interface of the app.                                                     *)
BringDown ==
  /\ record # 0 /\ ~wanted /\ iface = NoIface
  /\ main' = Append(main, Message("destroy", record, 0))
  /\ record' = 0
  /\ UNCHANGED <<phase, pref, svc, wanted, made, iface, live, notices, sent, odd>>

-----------------------------------------------------------------------------
(* The executor of an instance.                                              *)

Begins(i, op) == svc[i].job = NoTask /\ svc[i].queue # <<>> /\ Head(svc[i].queue).op = op
Session(i)    == Head(svc[i].queue).session
Taken(i)      == [svc[i] EXCEPT !.queue = Tail(@)]
Working(i)    == [Taken(i) EXCEPT !.job = Head(svc[i].queue)]

At(i, place)  == svc[i].at = place
Done(i)       == [svc[i] EXCEPT !.job = NoTask, !.at = "begin"]

(* Mutant: a start would not end the runtime there is. *)
BugStartRuntime(i) ==
  /\ Begins(i, "start")
  /\ svc' = [svc EXCEPT ![i] = [Idle(Taken(i)) EXCEPT
               !.expected = FALSE, !.hole = FALSE,
               !.job = Head(svc[i].queue), !.at = "reset"]]
  /\ iface' = Closing({"hole"}, i)
  /\ UNCHANGED <<phase, pref, system, live, notices, sent, odd>>

StartRuntime(i) ==
  /\ Begins(i, "start")
  /\ StopActiveRuntime(i)
  /\ svc' = [svc EXCEPT ![i] = [Idle(Taken(i)) EXCEPT
               !.expected = FALSE, !.hole = FALSE,
               !.job = Head(svc[i].queue), !.at = "reset"]]
  /\ iface' = Closing({"tun", "hole"}, i)
  /\ UNCHANGED <<phase, pref, system, sent, odd>>

(* The store is told only when the old core has ended. *)
ResetForStart(i) ==
  /\ At(i, "reset")
  /\ phase' = "connecting"
  /\ svc' = [svc EXCEPT ![i].at = "core"]
  /\ UNCHANGED <<pref, system, iface, live, notices, sent, odd>>

StartXrayProcess(i) ==
  LET s == svc[i].job.session IN
  /\ At(i, "core") /\ core[s] = "xray"
  /\ live' = live \cup {s}
  /\ svc' = [svc EXCEPT ![i].process = s, ![i].at = "bridge"]
  /\ UNCHANGED <<phase, pref, system, iface, notices, sent, odd>>

StartHevTunToSocksBridge(i) ==
  /\ At(i, "bridge") /\ core[svc[i].job.session] = "xray"
  /\ svc' = [svc EXCEPT ![i].bridge = TRUE, ![i].at = "mark"]
  /\ iface' = Iface("tun", i)
  /\ UNCHANGED <<phase, pref, system, live, notices, sent, odd>>

(* startOrReloadService, which calls back into openTun. *)
StartLibboxService(i) ==
  LET s == svc[i].job.session IN
  /\ At(i, "core") /\ core[s] = "singBox"
  /\ live' = live \cup {s}
  /\ iface' = Iface("tun", i)
  /\ svc' = [svc EXCEPT ![i].server = s, ![i].at = "bridge"]
  /\ UNCHANGED <<phase, pref, system, notices, sent, odd>>

ConnectCommandClient(i) ==
  /\ At(i, "bridge") /\ core[svc[i].job.session] = "singBox"
  /\ svc' = [svc EXCEPT ![i].bridge = TRUE, ![i].at = "mark"]
  /\ UNCHANGED <<phase, pref, system, iface, live, notices, sent, odd>>

MarkConnected(i) ==
  /\ At(i, "mark")
  /\ phase' = "connected"
  /\ svc' = [svc EXCEPT ![i] = Done(i)]
  /\ UNCHANGED <<pref, system, iface, live, notices, sent, odd>>

(* The core or its bridge does not start.  What startXray and                *)
(* startLibboxService undo themselves is what stopActiveRuntime would end.   *)
StartFails(i) ==
  /\ At(i, "core") \/ At(i, "bridge")
  /\ HandleFailure(i, svc[i], {})
  /\ UNCHANGED <<pref, system, sent>>

(* The core has exited: the blackhole is installed, which may fail; the      *)
(* instance then forgets that the killswitch is on.                          *)
InstallBlackholeTun(i) ==
  /\ At(i, "handle") /\ svc[i].active
  /\ \/ /\ svc' = [svc EXCEPT ![i] = [Done(i) EXCEPT !.hole = TRUE]]
        /\ iface' = Iface("hole", i)
        /\ UNCHANGED odd
     \/ /\ svc' = [svc EXCEPT ![i] = [Done(i) EXCEPT !.active = FALSE]]
        /\ odd' = odd \cup {"unprotected"}
        /\ UNCHANGED iface
  /\ UNCHANGED <<phase, pref, system, live, notices, sent>>

FailureStops(i) ==
  /\ At(i, "handle") /\ ~svc[i].active
  /\ StopSelf(i)
  /\ svc' = [svc EXCEPT ![i] = Done(i)]
  /\ UNCHANGED <<phase, pref, main, record, made, iface, live, notices, sent, odd>>

(* Mutant: a stop would leave the blackhole to onDestroy. *)
BugStopRuntime(i) ==
  /\ Begins(i, "stop")
  /\ StopActiveRuntime(i)
  /\ svc' = [svc EXCEPT ![i] = [Idle(Taken(i)) EXCEPT
               !.expected = TRUE, !.job = Head(svc[i].queue), !.at = "stopSelf"]]
  /\ iface' = Closing({"tun"}, i)
  /\ phase' = "disconnected"
  /\ UNCHANGED <<pref, system, sent, odd>>

(* The phase "disconnecting" lasts for the body of the task and is not seen. *)
StopRuntime(i) ==
  /\ Begins(i, "stop")
  /\ StopActiveRuntime(i)
  /\ svc' = [svc EXCEPT ![i] = [Idle(Taken(i)) EXCEPT
               !.expected = TRUE, !.hole = FALSE,
               !.job = Head(svc[i].queue), !.at = "stopSelf"]]
  /\ iface' = Closing({"tun", "hole"}, i)
  /\ phase' = "disconnected"
  /\ UNCHANGED <<pref, system, sent, odd>>

StopEnds(i) ==
  /\ At(i, "stopSelf")
  /\ StopSelf(i)
  /\ svc' = [svc EXCEPT ![i] = Done(i)]
  /\ UNCHANGED <<phase, pref, main, record, made, iface, live, notices, sent, odd>>

KillswitchOn(i) ==
  /\ Begins(i, "on")
  /\ svc' = [svc EXCEPT ![i] = [Taken(i) EXCEPT !.active = TRUE]]
  /\ UNCHANGED <<phase, pref, system, iface, live, notices, sent, odd>>

(* Mutant: switching the preference off would leave a blackhole standing. *)
BugKillswitchOff(i) ==
  /\ Begins(i, "off")
  /\ svc' = [svc EXCEPT ![i] = [Taken(i) EXCEPT !.active = FALSE]]
  /\ UNCHANGED <<phase, pref, system, iface, live, notices, sent, odd>>

(* applyKillswitchPreference returns early when nothing has changed, as      *)
(* after an installation that failed.                                        *)
KillswitchOff(i) ==
  LET r == svc[i] IN
  /\ Begins(i, "off")
  /\ svc' = [svc EXCEPT ![i] =
               [Taken(i) EXCEPT !.active = FALSE, !.hole = IF r.active THEN FALSE ELSE @]]
  /\ iface' = IF r.active THEN Closing({"hole"}, i) ELSE iface
  /\ IF r.active /\ r.hole /\ Owned(r) = {} /\ ~r.bridge THEN StopSelf(i) ELSE UNCHANGED wanted
  /\ UNCHANGED <<phase, pref, main, record, made, live, notices, sent, odd>>

(* Mutant: the waiter would not ask whose process has exited. *)
BugXrayExitedAnyone(i) ==
  /\ Begins(i, "exit")
  /\ \/ /\ svc[i].expected
        /\ svc' = [svc EXCEPT ![i] = [Taken(i) EXCEPT !.process = 0]]
        /\ UNCHANGED <<phase, iface, live, notices, odd>>
     \/ /\ ~svc[i].expected
        /\ HandleFailure(i, [Working(i) EXCEPT !.process = 0], {})
  /\ UNCHANGED <<pref, system, sent>>

(* The report of the xray-exit-waiter. *)
XrayExited(i) ==
  LET s == Session(i) IN
  /\ Begins(i, "exit")
  /\ \/ /\ svc[i].process # s
        /\ svc' = [svc EXCEPT ![i] = Taken(i)]
        /\ UNCHANGED <<phase, iface, live, notices, odd>>
     \/ /\ svc[i].process = s /\ svc[i].expected
        /\ svc' = [svc EXCEPT ![i] = [Taken(i) EXCEPT !.process = 0]]
        /\ UNCHANGED <<phase, iface, live, notices, odd>>
     \/ /\ svc[i].process = s /\ ~svc[i].expected
        /\ HandleFailure(i, [Working(i) EXCEPT !.process = 0], {})
  /\ UNCHANGED <<pref, system, sent>>

(* What serviceStop and disconnected dispatch: neither names its session.    *)
LibboxReported(i) ==
  /\ \/ Begins(i, "stopped") /\ ~svc[i].expected
     \/ Begins(i, "closed") /\ svc[i].server # 0
  /\ HandleFailure(i, Working(i),
       IF Owned(svc[i]) \subseteq {Session(i)} THEN {} ELSE {"stale"})
  /\ UNCHANGED <<pref, system, sent>>

LibboxIgnored(i) ==
  /\ \/ Begins(i, "stopped") /\ svc[i].expected
     \/ Begins(i, "closed") /\ svc[i].server = 0
  /\ svc' = [svc EXCEPT ![i] = Taken(i)]
  /\ UNCHANGED <<phase, pref, system, iface, live, notices, sent, odd>>

-----------------------------------------------------------------------------
(* The cores, and the threads that watch them.                               *)

(* A core dies.  libbox reports that its service has stopped, and may also   *)
(* close the stream of the command client.                                   *)
CoreDies(i, s) ==
  /\ s \in Owned(svc[i]) \cap live
  /\ live' = live \ {s}
  /\ \/ /\ core[s] = "xray"
        /\ notices' = notices \cup {Notice("exit", i, s)}
     \/ /\ core[s] = "singBox"
        /\ \/ notices' = notices \cup {Notice("stopped", i, s)}
           \/ /\ svc[i].bridge
              /\ notices' = notices \cup {Notice("stopped", i, s), Notice("closed", i, s)}
  /\ UNCHANGED <<phase, pref, svc, system, iface, sent, odd>>

(* xray-exit-waiter and serviceStop dispatch whatever the service is doing.  *)
ReportCore(n) ==
  /\ n \in notices /\ n.op \in {"exit", "stopped"}
  /\ notices' = notices \ {n}
  /\ svc' = [svc EXCEPT ![n.to] = Dispatched(@, Task(n.op, n.session))]
  /\ UNCHANGED <<phase, pref, system, iface, live, sent, odd>>

(* disconnected looks at expectedStop first, on libbox's thread. *)
ReportDisconnected(n) ==
  /\ n \in notices /\ n.op = "closed"
  /\ notices' = notices \ {n}
  /\ svc' = [svc EXCEPT ![n.to] = IF @.expected THEN @ ELSE Dispatched(@, Task("closed", n.session))]
  /\ UNCHANGED <<phase, pref, system, iface, live, sent, odd>>

-----------------------------------------------------------------------------
Main == OnCreate \/ OnStartCommand \/ OnRevoke \/ OnDestroy

Executor(i) ==
  \/ StartRuntime(i) \/ ResetForStart(i)
  \/ StartXrayProcess(i) \/ StartHevTunToSocksBridge(i)
  \/ StartLibboxService(i) \/ ConnectCommandClient(i)
  \/ MarkConnected(i) \/ StartFails(i)
  \/ InstallBlackholeTun(i) \/ FailureStops(i)
  \/ StopRuntime(i) \/ StopEnds(i)
  \/ KillswitchOn(i) \/ KillswitchOff(i)
  \/ XrayExited(i) \/ LibboxReported(i) \/ LibboxIgnored(i)

Client ==
  \/ \E c \in {"xray", "singBox"} : ClientStart(c)
  \/ ClientStop \/ Revoke \/ ToggleKillswitch

Next ==
  \/ Client \/ Main \/ BringDown
  \/ \E i \in Instances : Executor(i)
  \/ \E i \in Instances, s \in Sessions : CoreDies(i, s)
  \/ \E n \in notices : ReportCore(n) \/ ReportDisconnected(n)

(* The main thread, the executors and the system go on, and a core that has  *)
(* ended is reported; clients need not act, cores need not die and the       *)
(* stream of a command client need not be seen to close.                     *)
Fairness ==
  /\ WF_vars(Main) /\ WF_vars(BringDown)
  /\ \A i \in Instances : WF_vars(Executor(i))
  /\ WF_vars(\E n \in notices : ReportCore(n))

Spec == Init /\ [][Next]_vars /\ Fairness

-----------------------------------------------------------------------------
(* Properties.                                                               *)

Up == {i \in Instances : svc[i].state = "up"}

(* No instance was destroyed under a start or the handling of a failure:     *)
(* onDestroy neither waits for the executor nor writes the store, the        *)
(* executor may then open a tun or a blackhole in an instance that is gone,  *)
(* and nothing is claimed of what follows.                                   *)
Undisturbed == "destroyed" \notin odd

(* Nothing is left to do: no message, no task, and every end of a core has   *)
(* been reported.                                                            *)
Settled ==
  /\ main = <<>>
  /\ \A i \in Up : svc[i].queue = <<>> /\ svc[i].job = NoTask
  /\ \A n \in notices : n.op = "closed" \/ n.to \notin Up

(* What the store shows as connected is a core that runs, with its bridge    *)
(* and the interface that captures the traffic.                              *)
ConnectedHasCore ==
  Undisturbed /\ Settled /\ phase = "connected" =>
    \E i \in Up : /\ Owned(svc[i]) \cap live # {}
                  /\ svc[i].bridge
                  /\ iface = Iface("tun", i)

(* A core that runs belongs to an instance that is up and will end it, and   *)
(* no two run at once; a tun is open only for such an instance.              *)
NothingOrphaned ==
  Undisturbed =>
    /\ \A s \in live : \E i \in Up : s \in Owned(svc[i])
    /\ Cardinality(live) <= 1
    /\ iface # NoIface => svc[iface.by].state = "up"

(* What is shown is what runs and what runs has an owner, in every state of  *)
(* the types above.                                                          *)
ShownIsOwned == TypeOK /\ ConnectedHasCore /\ NothingOrphaned

(* An error that has been handled leaves either a blackhole or a service on  *)
(* its way out, never one that stays in the foreground and does neither,     *)
(* unless the blackhole could not be installed.                              *)
ErrorBlocksOrStops ==
  Undisturbed /\ Settled /\ phase = "error" /\ "unprotected" \notin odd =>
    \A i \in Up : record = i => svc[i].hole \/ ~wanted

(* The blackhole is there only while the user wants the killswitch and the   *)
(* connection is in error, whatever the order in which the preference and    *)
(* the failures of the core reach the executor.                              *)
KillswitchFollowsPreference ==
  Undisturbed /\ Settled => \A i \in Up :
    /\ svc[i].hole => pref /\ phase = "error"
    /\ svc[i].active = pref \/ "unprotected" \in odd

(* The killswitch blocks when it has to and only then. *)
KillswitchKept == ErrorBlocksOrStops /\ KillswitchFollowsPreference

(* A connection is never put in error while its core runs: what is reported  *)
(* of an earlier core does not end a newer one.  (libbox's reports, which    *)
(* name no session, can: the order "stale"; so can the orphan of a destroyed *)
(* instance.)                                                                *)
OnlyDeadSessionsFail ==
  [][phase = "connected" /\ phase' = "error" /\ odd' \cap {"stale", "destroyed"} = {} =>
       \E i \in Instances : Owned(svc[i]) # {} /\ Owned(svc[i]) \cap live = {}]_vars

(* A service that has been stopped goes away: once the clients are quiet,    *)
(* either the store shows something the service is up for, or no instance    *)
(* is left.                                                                  *)
StoppedServiceEnds == <>[](Undisturbed /\ phase = "disconnected" => Up = {})
=============================================================================
