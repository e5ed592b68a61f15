----------------------------- MODULE ServiceCore -----------------------------
(***************************************************************************)
(* The privileged Windows service as the keeper of one core process        *)
(* (windows/runner/entropy_vpn_service{,_pipe,_commands}.cpp), and the UI  *)
(* process that asks it to start and stop cores (RunServiceRequest of      *)
(* windows_runtime_channel_controller.cpp).                                *)
(*                                                                         *)
(* PipeServerLoop hands every pipe client to a thread of its own, so the   *)
(* handlers of start_core, stop_core and status_core run concurrently and  *)
(* share g_core_process, g_core_run_id and g_core_exit_code.  g_core_mutex *)
(* is released while a handler ends or creates a process: every section    *)
(* under the mutex is one action and so is every call outside of it.       *)
(* ServiceMain stops the service while handlers may still run.             *)
(*                                                                         *)
(* The worker thread of the UI has one request at a time under way, each   *)
(* with the run id of its session; its watchers only send status_core.     *)
(* A request that fails or is not answered in time is sent once more, by   *)
(* the helper process, with the same run id.                               *)
(*                                                                         *)
(* Bounds: MaxThreads handlers at a time, MaxRuns run ids, and MaxEvents   *)
(* requests the UI gives up waiting for and boots of the service together. *)
(***************************************************************************)
EXTENDS Integers

CONSTANTS MaxThreads, MaxRuns, MaxEvents

ASSUME MaxThreadsAssumption == MaxThreads \in Nat \ {0}
ASSUME MaxRunsAssumption == MaxRuns \in Nat
ASSUME MaxEventsAssumption == MaxEvents \in Nat \ {0}

Threads == 1 .. MaxThreads
Cores == 1 .. 2 * MaxRuns     \* every start_core is sent at most twice

VARIABLES
  (* the globals of the service; 0 is nullptr *)
  g_core,      \* g_core_process; its run id is g_core_run_id
  g_exit,      \* core whose code g_core_exit_code is, 0: no exit code
  (* the handlers: one thread per connected client *)
  pc,          \* next step of the thread, "idle" if there is none
  run,         \* runId of the request
  held,        \* process handle in a local variable
  (* the threads of the service itself *)
  accept,      \* PipeServerLoop
  main,        \* ServiceMain
  stopReq,     \* g_stop_requested
  missed,      \* (history) nudges without effect since it was read last
  (* the worker of the UI *)
  uiCmd,       \* its request, "none" if it has none
  uiTry,       \* how often it was sent
  uiAt,        \* the handler it waits for
  asked,       \* last run id
  (* the operating system *)
  made,        \* number of core processes created
  runOf,       \* the run id each of them was created for
  alive,       \* those that run
  told,        \* those of them TerminateProcess was called for
  (* history *)
  spared,      \* cores beyond the reach of the service for a known reason
  giveUps, boots

globals == <<g_core, g_exit>>
handlers == <<pc, run, held>>
service == <<accept, main, stopReq, missed, boots>>
ui == <<uiCmd, uiTry, uiAt, asked, giveUps>>
os == <<made, runOf, alive, told>>
vars == <<globals, handlers, service, ui, os, spared>>

Init ==
  /\ g_core = 0 /\ g_exit = 0
  /\ pc = [t \in Threads |-> "idle"]
  /\ run = [t \in Threads |-> 0]
  /\ held = [t \in Threads |-> 0]
  /\ accept = "test" /\ main = "wait" /\ stopReq = FALSE /\ missed = 0
  /\ uiCmd = "none" /\ uiTry = 0 /\ uiAt = 0 /\ asked = 0
  /\ made = 0 /\ runOf = [r \in Cores |-> 0]
  /\ alive = {} /\ told = {}
  /\ spared = {} /\ giveUps = 0 /\ boots = 1

-----------------------------------------------------------------------------
(* The worker of the UI: RunServiceRequest *)

(* StartCoreViaService: a new session, a new run id.                       *)
UiStart ==
  /\ uiCmd = "none" /\ asked < MaxRuns
  /\ uiCmd' = "start" /\ asked' = asked + 1
  /\ UNCHANGED <<globals, handlers, service, uiTry, uiAt, giveUps, os, spared>>

(* StopCoreViaService, for the session it started last.                    *)
UiStop ==
  /\ uiCmd = "none" /\ asked > 0
  /\ uiCmd' = "stop"
  /\ UNCHANGED <<globals, handlers, service, uiTry, uiAt, asked, giveUps, os,
                 spared>>

(* An attempt fails: the helper process makes one more, then the worker    *)
(* goes on without an answer.                                              *)
AttemptFails(attempts) ==
  /\ uiAt' = 0
  /\ IF attempts < 2 THEN uiTry' = attempts /\ UNCHANGED uiCmd
                     ELSE uiTry' = 0 /\ uiCmd' = "none"

(* No instance of the pipe waits for a client.                             *)
UiCannotConnect ==
  /\ uiCmd # "none" /\ uiAt = 0 /\ accept # "listen"
  /\ AttemptFails(uiTry + 1)
  /\ UNCHANGED <<globals, handlers, service, asked, giveUps, os, spared>>

(* The deadline of the request passes while its handler works.             *)
UiGivesUp ==
  /\ uiAt # 0 /\ giveUps + boots < MaxEvents
  /\ giveUps' = giveUps + 1
  /\ AttemptFails(uiTry)
  /\ UNCHANGED <<globals, handlers, service, asked, os, spared>>

-----------------------------------------------------------------------------
(* PipeServerLoop *)

(* The loop reads g_stop_requested, ...                                    *)
(* Mutant: the loop would read it once only.                               *)
BugTestStop ==
  /\ accept = "test"
  /\ accept' = "create"
  /\ missed' = 0
  /\ UNCHANGED <<globals, handlers, main, stopReq, boots, ui, os, spared>>
TestStop ==
  /\ accept = "test"
  /\ accept' = IF stopReq THEN "done" ELSE "create"
  /\ missed' = 0
  /\ UNCHANGED <<globals, handlers, main, stopReq, boots, ui, os, spared>>

(* ... creates an instance of the pipe and waits for a client on it, ...   *)
CreatePipe ==
  /\ accept = "create"
  /\ accept' = "listen"
  /\ UNCHANGED <<globals, handlers, main, stopReq, missed, boots, ui, os, spared>>

(* ... whose request gets a thread of its own.                             *)
Connect(t, command, id) ==
  /\ accept = "listen" /\ pc[t] = "idle"
  /\ accept' = "test"
  /\ pc' = [pc EXCEPT ![t] = command]
  /\ run' = [run EXCEPT ![t] = id]
  /\ UNCHANGED <<globals, held, main, stopReq, missed, boots, os, spared>>

UiConnects(t) ==
  /\ uiCmd # "none" /\ uiAt = 0
  /\ Connect(t, uiCmd, asked)
  /\ uiAt' = t /\ uiTry' = uiTry + 1
  /\ UNCHANGED <<uiCmd, asked, giveUps>>

(* PollServiceCore asks for the run of its session, the command line for   *)
(* any; the run id decides about the answer, not about what is done, and   *)
(* is left out.                                                            *)
StatusConnects(t) ==
  /\ Connect(t, "status", 0)
  /\ UNCHANGED ui

-----------------------------------------------------------------------------
(* The handlers *)

(* RefreshCoreExitLocked: the core to work on once a dead one is dropped,  *)
(* and the exit code that is known then.                                   *)
CoreAfterRefresh == IF g_core \in alive THEN g_core ELSE 0
ExitAfterRefresh == IF g_core = 0 \/ g_core \in alive THEN g_exit ELSE g_core
Refreshed == g_core' = CoreAfterRefresh /\ g_exit' = ExitAfterRefresh

Goto(t, step) == pc' = [pc EXCEPT ![t] = step] /\ UNCHANGED run

(* The thread ends; the UI gets the answer if it still waits for it.       *)
Answer(t) ==
  /\ pc' = [pc EXCEPT ![t] = "idle"]
  /\ run' = [run EXCEPT ![t] = 0]
  /\ IF uiAt = t THEN uiCmd' = "none" /\ uiTry' = 0 /\ uiAt' = 0
                 ELSE UNCHANGED <<uiCmd, uiTry, uiAt>>
  /\ UNCHANGED <<asked, giveUps>>

StatusCore(t) ==
  /\ pc[t] = "status"
  /\ Refreshed
  /\ Answer(t)
  /\ UNCHANGED <<held, service, os, spared>>

(* StopCore, first section: nothing to stop or another run is active, ...  *)
OtherRun(t) == \A r \in Cores : r = CoreAfterRefresh => runOf[r] # run[t]

RefuseStop(t) ==
  /\ pc[t] = "stop" /\ OtherRun(t)
  /\ Refreshed
  /\ Answer(t)
  /\ UNCHANGED <<held, service, os, spared>>

(* ... or the handler takes the process over, ...                          *)
TakeToStop(t) ==
  /\ pc[t] = "stop" /\ ~OtherRun(t)
  /\ held' = [held EXCEPT ![t] = CoreAfterRefresh]
  /\ g_core' = 0 /\ g_exit' = ExitAfterRefresh
  /\ Goto(t, "endStopped")
  /\ UNCHANGED <<service, ui, os, spared>>

(* StartCore, first section: the handler takes the old process over.       *)
(* Mutant: a replaced core would be forgotten instead of ended.            *)
BugTakeToReplace(t) ==
  /\ pc[t] = "start"
  /\ g_core' = 0 /\ g_exit' = ExitAfterRefresh
  /\ Goto(t, "create")
  /\ UNCHANGED <<held, service, ui, os, spared>>
TakeToReplace(t) ==
  /\ pc[t] = "start"
  /\ held' = [held EXCEPT ![t] = CoreAfterRefresh]
  /\ g_core' = 0 /\ g_exit' = ExitAfterRefresh
  /\ Goto(t, IF CoreAfterRefresh = 0 THEN "create" ELSE "endReplaced")
  /\ UNCHANGED <<service, ui, os, spared>>

(* TerminateProcess on the handle that was taken over.                     *)
Terminate(t) ==
  /\ pc[t] \in {"endStopped", "endReplaced"}
  /\ told' = told \cup ({held[t]} \cap alive)
  /\ Goto(t, IF pc[t] = "endStopped" THEN "waitStopped" ELSE "waitReplaced")
  /\ UNCHANGED <<globals, held, service, ui, made, runOf, alive, spared>>

(* WaitForSingleObject(process, 5000): the core is gone or 5 s are over.   *)
(* Mutant: the wait would have no limit.                                   *)
BugWaitForExit(t) ==
  /\ pc[t] \in {"waitStopped", "waitReplaced"}
  /\ held[t] \notin alive
  /\ held' = IF pc[t] = "waitReplaced" THEN [held EXCEPT ![t] = 0] ELSE held
  /\ Goto(t, IF pc[t] = "waitStopped" THEN "record" ELSE "create")
  /\ UNCHANGED <<globals, service, ui, os, spared>>
WaitForExit(t) ==
  /\ pc[t] \in {"waitStopped", "waitReplaced"}
  /\ held' = IF pc[t] = "waitReplaced" THEN [held EXCEPT ![t] = 0] ELSE held
  /\ Goto(t, IF pc[t] = "waitStopped" THEN "record" ELSE "create")
  /\ UNCHANGED <<globals, service, ui, os, spared>>

(* StopCore, last section.                                                 *)
RecordExit(t) ==
  /\ pc[t] = "record"
  /\ g_exit' = held[t]
  /\ held' = [held EXCEPT ![t] = 0]
  /\ Answer(t)
  /\ UNCHANGED <<g_core, service, os, spared>>

(* A log file cannot be opened or CreateProcessW fails.                    *)
CreateFails(t) ==
  /\ pc[t] = "create"
  /\ Answer(t)
  /\ UNCHANGED <<globals, held, service, os, spared>>

(* CreateProcessW.  After StopActiveCore nobody will end the new process.  *)
CreateCore(t) ==
  /\ pc[t] = "create"
  /\ made' = made + 1
  /\ runOf' = [runOf EXCEPT ![made + 1] = run[t]]
  /\ alive' = alive \cup {made + 1}
  /\ held' = [held EXCEPT ![t] = made + 1]
  /\ spared' = IF main = "release" THEN spared \cup {made + 1} ELSE spared
  /\ Goto(t, "store")
  /\ UNCHANGED <<globals, service, ui, told>>

(* StartCore, last section.                                                *)
(* Mutant: the exit code of an earlier core would stay.                    *)
BugStoreCore(t) ==
  /\ pc[t] = "store"
  /\ g_core' = held[t] /\ g_exit' = g_exit
  /\ held' = [held EXCEPT ![t] = 0]
  /\ Answer(t)
  /\ UNCHANGED <<service, os, spared>>
StoreCore(t) ==
  /\ pc[t] = "store"
  /\ g_core' = held[t] /\ g_exit' = 0
  /\ held' = [held EXCEPT ![t] = 0]
  /\ Answer(t)
  /\ UNCHANGED <<service, os, spared>>

Handler(t) ==
  \/ StatusCore(t) \/ RefuseStop(t) \/ TakeToStop(t) \/ TakeToReplace(t)
  \/ Terminate(t) \/ WaitForExit(t) \/ RecordExit(t)
  \/ CreateFails(t) \/ CreateCore(t) \/ StoreCore(t)

-----------------------------------------------------------------------------
(* ServiceMain and the end of the service *)

(* NudgePipeServer connects to the pipe if an instance is waiting.  Before *)
(* the next one is created it does nothing.                                *)
Nudge ==
  /\ accept' = IF accept = "listen" THEN "test" ELSE accept
  /\ missed' = IF accept = "create" THEN missed + 1 ELSE missed

(* ServiceControlHandler (stop, shutdown), RequestServiceStop (updater).   *)
RequestStop ==
  /\ main = "wait" /\ ~stopReq
  /\ stopReq' = TRUE
  /\ Nudge
  /\ UNCHANGED <<globals, handlers, main, boots, ui, os, spared>>

StopEvent ==
  /\ main = "wait" /\ stopReq
  /\ main' = "join"
  /\ Nudge
  /\ UNCHANGED <<globals, handlers, stopReq, boots, ui, os, spared>>

(* The process ends and its threads with it; the UI sees a broken pipe.    *)
ProcessEnds ==
  /\ main' = "stopped"
  /\ g_core' = 0 /\ g_exit' = 0
  /\ pc' = [t \in Threads |-> "idle"]
  /\ run' = [t \in Threads |-> 0]
  /\ held' = [t \in Threads |-> 0]
  /\ accept' = "done" /\ missed' = 0
  /\ IF uiAt # 0 THEN AttemptFails(uiTry) ELSE UNCHANGED <<uiCmd, uiTry, uiAt>>
  /\ UNCHANGED <<stopReq, boots, asked, giveUps, os>>

(* The thread of the pipe is joined, StopActiveCore ends the core it       *)
(* finds; it does not find the cores that handlers hold.                   *)
StopActiveCore ==
  /\ main = "join" /\ accept = "done"
  /\ told' = told \cup ({g_core} \cap alive)
  /\ g_core' = 0
  /\ spared' = spared \cup {held[t] : t \in Threads}
  /\ main' = "release"
  /\ UNCHANGED <<g_exit, handlers, accept, stopReq, missed, boots, ui, made,
                 runOf, alive>>

(* ReleasePrewarmTunAdapter, ShutdownUpdater, SERVICE_STOPPED.             *)
Stopped ==
  /\ main = "release"
  /\ ProcessEnds
  /\ UNCHANGED spared

(* The service process dies; the cores it started do not die with it.      *)
ServiceCrash ==
  /\ main # "stopped" /\ giveUps + boots < MaxEvents
  /\ ProcessEnds
  /\ spared' = spared \cup alive

Boot ==
  /\ main = "stopped" /\ giveUps + boots < MaxEvents
  /\ boots' = boots + 1
  /\ main' = "wait" /\ accept' = "test" /\ stopReq' = FALSE
  /\ UNCHANGED <<globals, handlers, missed, ui, os, spared>>

(* A core exits by itself or because it was told to.                       *)
CoreDies(r) ==
  /\ r \in alive
  /\ alive' = alive \ {r} /\ told' = told \ {r}
  /\ UNCHANGED <<globals, handlers, service, ui, made, runOf, spared>>

-----------------------------------------------------------------------------
Accept == TestStop \/ CreatePipe
Main == StopEvent \/ StopActiveCore \/ Stopped

Next ==
  \/ UiStart \/ UiStop \/ UiCannotConnect \/ UiGivesUp
  \/ TestStop \/ CreatePipe
  \/ RequestStop \/ StopEvent \/ StopActiveCore \/ Stopped
  \/ ServiceCrash \/ Boot
  \/ \E t \in Threads : UiConnects(t) \/ StatusConnects(t) \/ Handler(t)
  \/ \E r \in Cores : CoreDies(r)

(* The threads of the service are scheduled; the UI, the operator and the  *)
(* cores do as they please: a core need not obey TerminateProcess.         *)
Fairness ==
  /\ WF_vars(Accept) /\ WF_vars(Main)
  /\ \A t \in Threads : WF_vars(Handler(t))

Spec == Init /\ [][Next]_vars
FairSpec == Spec /\ Fairness

-----------------------------------------------------------------------------
Steps == {"idle", "start", "stop", "status", "endStopped", "endReplaced",
          "waitStopped", "waitReplaced", "record", "create", "store"}

(* Type invariant. *)
TypeOK ==
  /\ g_core \in {0} \cup Cores /\ g_exit \in {0} \cup Cores
  /\ pc \in [Threads -> Steps]
  /\ run \in [Threads -> 0 .. MaxRuns]
  /\ held \in [Threads -> {0} \cup Cores]
  /\ accept \in {"test", "create", "listen", "done"}
  /\ main \in {"wait", "join", "release", "stopped"}
  /\ stopReq \in BOOLEAN /\ missed \in 0 .. 2
  /\ uiCmd \in {"none", "start", "stop"} /\ uiTry \in 0 .. 2
  /\ uiAt \in {0} \cup Threads
  /\ asked \in 0 .. MaxRuns
  /\ made \in {0} \cup Cores /\ runOf \in [Cores -> 0 .. MaxRuns]
  /\ alive \subseteq 1 .. made /\ told \subseteq alive
  /\ spared \subseteq 0 .. made
  /\ giveUps \in Nat /\ boots \in Nat \ {0} /\ giveUps + boots <= MaxEvents

(* The cores nobody has told to end.                                       *)
Kept == (alive \ told) \ spared

(* What the comment in PipeServerLoop says of the handlers, "already       *)
(* thread-safe": no core is lost.  A core that runs and was not told to    *)
(* end can still be ended: the service keeps its handle, or a handler is   *)
(* about to end or to store it.  Only a crash of the service, or a handler *)
(* at work while StopActiveCore runs, may leave a core behind.             *)
HandlersThreadSafe ==
  \A r \in Kept : r = g_core \/ \E t \in Threads : held[t] = r

(* In every state of these types the code keeps that promise, and never    *)
(* lets two cores compete for the TUN adapter and the proxy port (a start  *)
(* replaces the core it finds before it creates its own), as long as no    *)
(* request is sent again because its answer is late (StartCore, StopCore,  *)
(* StopActiveCore).                                                        *)
OneCoreReachable ==
  /\ TypeOK
  /\ giveUps = 0 => HandlersThreadSafe /\ \A r, s \in Kept : r = s

(* While a core is kept no exit code of an earlier one is (StartCore       *)
(* resets it, RefreshCoreExitLocked and StopCore drop the core first):     *)
(* status_core never pairs a run with the end of another one.              *)
NoStaleExitCode == giveUps = 0 /\ g_core # 0 => g_exit = 0

(* Every handler answers, even if the core it has to end does not exit:    *)
(* the waits of StartCore and StopCore are bounded.                        *)
RequestsAnswered == \A t \in Threads : pc[t] # "idle" ~> pc[t] = "idle"

(* A requested stop of the service completes, unless both nudges come      *)
(* while PipeServerLoop is between reading g_stop_requested and creating   *)
(* the pipe: only then it waits on the new pipe, and ServiceMain for it,   *)
(* for as long as no client connects (ServiceControlHandler, ServiceMain). *)
StopCompletes ==
  stopReq ~> main = "stopped" \/ (missed = 2 /\ main = "join" /\ accept = "listen")
=============================================================================
