-------------------------- MODULE MCWindowsRuntime --------------------------
(* The instances of WindowsRuntime that TLC checks. *)
EXTENDS WindowsRuntime

XrayKinds == {"xrayTun", "xrayProxy"}
PlainOnly == {"plain"}
ProxyOnly == {"xrayProxy"}

(* A UI process that crashes is followed only where every session is a TUN *)
(* session, and routes, proxy and filters never left by a failure: the     *)
(* invariants about them claim nothing then.                               *)
CrashInTun ==
  crashes > 0 => /\ \A s \in Sessions : kind[s] \in {"none", "xrayTun"}
                 /\ leftover = {} /\ ~disFailed

(* Of the failures that nobody looks at, one happens in a behaviour. *)
OneFailure ==
  Cardinality(survivors) + Cardinality(leftover)
    + (IF disFailed THEN 1 ELSE 0) <= 1
=============================================================================
