-------------------------- MODULE TunnelLifecycle --------------------------
(***************************************************************************)
(* What a native runtime promises its user interface: one tunnel session   *)
(* at a time, each with an identity of its own that is never used again,   *)
(* and a status that only moves along                                      *)
(*                                                                         *)
(*   disconnected -> starting -> running -> disconnected                   *)
(*                      |`-> error -----------^                            *)
(*                      `---------------------^                            *)
(*                                                                         *)
(* WindowsRuntime implements this with state_ and the phase that Status()  *)
(* and the state events show.                                              *)
(***************************************************************************)
CONSTANT Ids                   \* identities of sessions, positive numbers

VARIABLES session,             \* the session that is up, None if there is none
          status,              \* its phase
          used                 \* every identity used so far

vars == <<session, status, used>>

None == 0

Init == session = None /\ status = "disconnected" /\ used = {}

Begin(i) ==
  /\ session = None /\ i \notin used
  /\ session' = i /\ status' = "starting" /\ used' = used \cup {i}

Up ==
  /\ status = "starting"
  /\ status' = "running" /\ UNCHANGED <<session, used>>

Fail ==
  /\ status = "starting"
  /\ status' = "error" /\ UNCHANGED <<session, used>>

(* A stop, the death of the core, or the end of the user interface. *)
End ==
  /\ session # None
  /\ session' = None /\ status' = "disconnected" /\ UNCHANGED used

Next == (\E i \in Ids : Begin(i)) \/ Up \/ Fail \/ End

Spec == Init /\ [][Next]_vars

(* A start is resolved one way or the other; a session that is up may stay. *)
Resolve == status \in {"starting", "error"} /\ (Up \/ Fail \/ End)

FairSpec == Spec /\ WF_vars(Resolve)
=============================================================================
