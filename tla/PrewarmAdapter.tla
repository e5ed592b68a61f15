--------------------------- MODULE PrewarmAdapter ---------------------------
(***************************************************************************)
(* The wintun adapter the service holds for the app                        *)
(* (windows/runner/entropy_vpn_service_tun.cpp, from line 643).            *)
(*                                                                         *)
(* Every launch of the app sends prewarm_tun_adapter with its process id.  *)
(* The handler that creates the adapter leaves a detached thread behind,   *)
(* WatchAppProcessThenRelease, which waits for that process to exit and    *)
(* then releases the adapter.  Handlers, watchers and release_tun_adapter  *)
(* are serialised by g_prewarm_mutex.  Launches follow one another (the    *)
(* app is single-instance), and are numbered; 0 stands for nullptr.        *)
(*                                                                         *)
(* Bounds: MaxApps launches, MaxBoots boots of the service.                *)
(***************************************************************************)
EXTENDS Integers

CONSTANTS MaxApps, MaxBoots

ASSUME MaxAppsAssumption == MaxApps \in Nat
ASSUME MaxBootsAssumption == MaxBoots \in Nat \ {0}

Apps == 1 .. MaxApps

VARIABLES
  launched,    \* number of launches of the app so far
  appUp,       \* the last of them is running
  request,     \* prewarm_tun_adapter of each launch
  adapter,     \* g_prewarmed_adapter: the launch it was created for
  watcher,     \* the thread left behind for each launch
  boots        \* number of boots of the service

vars == <<launched, appUp, request, adapter, watcher, boots>>

Init ==
  /\ launched = 0 /\ appUp = FALSE
  /\ request = [a \in Apps |-> "none"]
  /\ adapter = 0
  /\ watcher = [a \in Apps |-> "none"]
  /\ boots = 1

(* The app starts and asks for its adapter.                                *)
Launch ==
  /\ ~appUp /\ launched < MaxApps
  /\ launched' = launched + 1 /\ appUp' = TRUE
  /\ request' = [request EXCEPT ![launched + 1] = "sent"]
  /\ UNCHANGED <<adapter, watcher, boots>>

AppExits ==
  /\ appUp
  /\ appUp' = FALSE
  /\ UNCHANGED <<launched, request, adapter, watcher, boots>>

(* PrewarmTunAdapterNative: the adapter is there already, ...              *)
AlreadyWarm(a) ==
  /\ request[a] = "sent" /\ adapter # 0
  /\ request' = [request EXCEPT ![a] = "done"]
  /\ UNCHANGED <<launched, appUp, adapter, watcher, boots>>

(* ... it is created, and the app is watched, ...                          *)
CreateAdapter(a) ==
  /\ request[a] = "sent" /\ adapter = 0
  /\ adapter' = a
  /\ request' = [request EXCEPT ![a] = "done"]
  /\ watcher' = [watcher EXCEPT ![a] = "waiting"]
  /\ UNCHANGED <<launched, appUp, boots>>

(* ... or wintun.dll or the adapter is not to be had, or the service is    *)
(* not running when the request is sent.                                   *)
PrewarmFails(a) ==
  /\ request[a] = "sent"
  /\ request' = [request EXCEPT ![a] = "done"]
  /\ UNCHANGED <<launched, appUp, adapter, watcher, boots>>

(* WatchAppProcessThenRelease: the process has exited, or OpenProcess      *)
(* finds it gone, ...                                                      *)
WatcherWakes(a) ==
  /\ watcher[a] = "waiting" /\ ~(appUp /\ a = launched)
  /\ watcher' = [watcher EXCEPT ![a] = "release"]
  /\ UNCHANGED <<launched, appUp, request, adapter, boots>>

(* ... and then the adapter is released.                                   *)
(* Mutant: the thread would release the adapter of its own app only.       *)
BugWatcherReleases(a) ==
  /\ watcher[a] = "release"
  /\ adapter' = IF adapter = launched THEN 0 ELSE adapter
  /\ watcher' = [watcher EXCEPT ![a] = "none"]
  /\ UNCHANGED <<launched, appUp, request, boots>>
WatcherReleases(a) ==
  /\ watcher[a] = "release"
  /\ adapter' = 0
  /\ watcher' = [watcher EXCEPT ![a] = "none"]
  /\ UNCHANGED <<launched, appUp, request, boots>>

(* ReleaseTunAdapterNative, a command of the service nothing in the app    *)
(* sends: the command line does.                                           *)
ReleaseTunAdapter ==
  /\ adapter # 0
  /\ adapter' = 0
  /\ UNCHANGED <<launched, appUp, request, watcher, boots>>

(* The service stops or dies, with its handles and threads, and starts     *)
(* again.                                                                  *)
ServiceRestarts ==
  /\ boots < MaxBoots
  /\ boots' = boots + 1
  /\ adapter' = 0
  /\ watcher' = [a \in Apps |-> "none"]
  /\ UNCHANGED <<launched, appUp, request>>

Watcher(a) == WatcherWakes(a) \/ WatcherReleases(a)

Next ==
  \/ Launch \/ AppExits \/ ReleaseTunAdapter \/ ServiceRestarts
  \/ \E a \in Apps : \/ AlreadyWarm(a) \/ CreateAdapter(a) \/ PrewarmFails(a)
                     \/ WatcherWakes(a) \/ WatcherReleases(a)

-----------------------------------------------------------------------------
(* "So none lingers once the app is closed": when no app runs the adapter  *)
(* is released, unless the app is launched again (WatchAppProcess-         *)
(* ThenRelease), also when a request is handled after its app has exited.  *)
AdapterReleased == ~appUp /\ adapter # 0 ~> adapter = 0 \/ appUp
=============================================================================
