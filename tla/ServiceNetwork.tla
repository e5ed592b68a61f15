--------------------------- MODULE ServiceNetwork ---------------------------
(***************************************************************************)
(* The three things the Windows service holds in the network stack of the  *)
(* machine: the prewarmed adapter, the routes of a connection and the      *)
(* filters of the killswitch.  They share no state (each has its own mutex *)
(* or transaction and its own objects in the system), so that a behaviour  *)
(* of the service is an interleaving of one behaviour of each; part names  *)
(* the one whose steps are looked at.                                      *)
(***************************************************************************)
EXTENDS PrewarmAdapter, TunRoutes, Killswitch

VARIABLE part

netVars == <<vars, tunVars, ksVars, part>>

NetInit ==
  /\ Init /\ TunInit /\ KsInit
  /\ part \in {"adapter", "routes", "filters"}
  /\ part # "routes" => table = {}

NetNext ==
  /\ UNCHANGED part
  /\ \/ part = "adapter" /\ Next /\ UNCHANGED <<tunVars, ksVars>>
     \/ part = "routes" /\ TunNext /\ UNCHANGED <<vars, ksVars>>
     \/ part = "filters" /\ KsNext /\ UNCHANGED <<vars, tunVars>>

NetSpec ==
  /\ NetInit /\ [][NetNext]_netVars
  /\ TunFairness
  /\ \A a \in Apps : WF_vars(Watcher(a))
=============================================================================
