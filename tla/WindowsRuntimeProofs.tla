----------------------- MODULE WindowsRuntimeProofs -----------------------
(***************************************************************************)
(* Theorems about WindowsRuntime for every number of starts and crashes    *)
(* and every set of kinds, checked by TLAPS.                               *)
(***************************************************************************)
EXTENDS WindowsRuntime, TLAPS

LEMMA TypeInit == Init => TypeOK
<1> SUFFICES ASSUME Init PROVE TypeOK
  OBVIOUS
<1> USE MaxStartsAssumption, MaxCrashesAssumption DEF Init
<1>1. phase \in [Sessions -> Phases]
  BY DEF Phases
<1>2. watch \in [Sessions -> WatchSteps]
  BY DEF WatchSteps
<1>3. wpc \in WorkerSteps
  BY DEF WorkerSteps
<1>4. /\ kind \in [Sessions -> Kinds \cup {"none"}]
      /\ svc \in [Sessions -> BOOLEAN] /\ stopReq \in [Sessions -> BOOLEAN]
      /\ cleaned \in [Sessions -> BOOLEAN] /\ tun \in [Sessions -> BOOLEAN]
  OBVIOUS
<1>5. /\ srv \in [Sessions -> {"none", "created", "replaced", "exists"}]
      /\ snap \in [Sessions -> {"none", "user", "core"}]
  OBVIOUS
<1>6. /\ made \in 0 .. MaxStarts /\ state_ \in 0 .. MaxStarts
      /\ wses \in 0 .. MaxStarts /\ crashes \in 0 .. MaxCrashes
  OBVIOUS
<1>7. /\ live \subseteq Sessions /\ routes \subseteq {"server", "tun"}
      /\ exits \subseteq Sessions /\ stopped \subseteq Sessions
      /\ lost \subseteq Sessions
  OBVIOUS
<1>8. /\ lastState \in Phases \cup {"disconnected"} /\ proxy \in {"user", "core"}
      /\ wop \in {"none", "start", "failed", "stop", "prefOn", "prefOff"}
      /\ pref \in BOOLEAN /\ filters \in BOOLEAN
      /\ overlap \in BOOLEAN /\ disFailed \in BOOLEAN
  OBVIOUS
<1>9. survivors \subseteq Sessions /\ leftover \subseteq {"server", "tun", "proxy"}
  OBVIOUS
<1> QED
  BY <1>1, <1>2, <1>3, <1>4, <1>5, <1>6, <1>7, <1>8, <1>9 DEF TypeOK

(* TypeOK is not inductive by itself: that a core started has a session, and
   that a session is left for Start, comes from the rest of IInv. *)
LEMMA TypeStep == IInv /\ [Next]_vars => TypeOK'
<1> SUFFICES ASSUME TypeOK, StepsOfCalls, StartOwns, Next \/ UNCHANGED vars
             PROVE TypeOK'
  BY DEF IInv
<1> USE MaxStartsAssumption, MaxCrashesAssumption
<1>1. CASE CallStart
  <2>1. wpc' \in WorkerSteps
    BY <1>1 DEF CallStart, BeginCall, TypeOK, WorkerSteps, StartSteps,
       EndSteps
  <2>2. wop' \in {"none", "start", "failed", "stop", "prefOn", "prefOff"}
    BY <1>1 DEF CallStart, BeginCall, TypeOK
  <2>3. wses' \in 0 .. MaxStarts
    BY <1>1 DEF CallStart, BeginCall, TypeOK, Sessions
  <2>4. overlap' \in BOOLEAN
    BY <1>1 DEF CallStart, BeginCall, TypeOK
  <2> QED
    BY <1>1, <2>1, <2>2, <2>3, <2>4 DEF TypeOK, CallStart, BeginCall, session,
       os
<1>2. CASE CallStop
  <2>1. wpc' \in WorkerSteps
    BY <1>2 DEF CallStop, BeginCall, TypeOK, WorkerSteps, StartSteps, EndSteps
  <2>2. wop' \in {"none", "start", "failed", "stop", "prefOn", "prefOff"}
    BY <1>2 DEF CallStop, BeginCall, TypeOK
  <2>3. wses' \in 0 .. MaxStarts
    BY <1>2 DEF CallStop, BeginCall, TypeOK, Sessions
  <2>4. overlap' \in BOOLEAN
    BY <1>2 DEF CallStop, BeginCall, TypeOK
  <2> QED
    BY <1>2, <2>1, <2>2, <2>3, <2>4 DEF TypeOK, CallStop, BeginCall, session,
       os
<1>3. CASE CallSetKillswitchPreference
  <2>1. wpc' \in WorkerSteps
    BY <1>3 DEF CallSetKillswitchPreference, BeginCall, TypeOK, WorkerSteps,
       StartSteps, EndSteps
  <2>2. wop' \in {"none", "start", "failed", "stop", "prefOn", "prefOff"}
    BY <1>3 DEF CallSetKillswitchPreference, BeginCall, TypeOK
  <2>3. wses' \in 0 .. MaxStarts
    BY <1>3 DEF CallSetKillswitchPreference, BeginCall, TypeOK, Sessions
  <2>4. overlap' \in BOOLEAN
    BY <1>3 DEF CallSetKillswitchPreference, BeginCall, TypeOK
  <2> QED
    BY <1>3, <2>1, <2>2, <2>3, <2>4 DEF TypeOK, CallSetKillswitchPreference,
       BeginCall, session, os
<1>4. CASE SetPreference
  <2>1. pref' \in BOOLEAN
    BY <1>4 DEF SetPreference, Goto, TypeOK
  <2>2. wpc' \in WorkerSteps
    BY <1>4 DEF SetPreference, Goto, TypeOK, WorkerSteps, StartSteps, EndSteps
  <2> QED
    BY <1>4, <2>1, <2>2 DEF TypeOK, SetPreference, Goto, session, os, history
<1>5. CASE ReadRunning
  <2>1. wpc' \in WorkerSteps
    BY <1>5 DEF ReadRunning, Goto, TypeOK, WorkerSteps, StartSteps, EndSteps
  <2> QED
    BY <1>5, <2>1 DEF TypeOK, ReadRunning, Goto, session, os, history
<1>6. CASE TakeState
  <2>1. state_' \in 0 .. MaxStarts
    BY <1>6 DEF TakeState, TypeOK, Sessions
  <2>2. wses' \in 0 .. MaxStarts
    BY <1>6 DEF TakeState, TypeOK, Sessions
  <2>3. wop' \in {"none", "start", "failed", "stop", "prefOn", "prefOff"}
    BY <1>6 DEF TakeState, TypeOK
  <2>4. wpc' \in WorkerSteps
    BY <1>6 DEF TakeState, TypeOK, WorkerSteps, StartSteps, EndSteps
  <2>5. stopped' \in SUBSET Sessions
    BY <1>6 DEF TakeState, TypeOK, Sessions
  <2> QED
    BY <1>6, <2>1, <2>2, <2>3, <2>4, <2>5 DEF TypeOK, TakeState, session, os
<1>7. CASE MarkStopping
  <2>1. phase' \in [Sessions -> Phases]
    BY <1>7 DEF MarkStopping, Goto, EmitState, TypeOK, Phases
  <2>2. stopReq' \in [Sessions -> BOOLEAN]
    BY <1>7 DEF MarkStopping, Goto, EmitState, TypeOK
  <2>3. wpc' \in WorkerSteps
    BY <1>7 DEF MarkStopping, Goto, EmitState, TypeOK, WorkerSteps,
       StartSteps, EndSteps
  <2>4. lastState' \in Phases \cup {"disconnected"}
    BY <1>7 DEF MarkStopping, Goto, EmitState, TypeOK, Reported, Sessions
  <2> QED
    BY <1>7, <2>1, <2>2, <2>3, <2>4 DEF TypeOK, MarkStopping, Goto, EmitState,
       os, history
<1>8. CASE StopCore
  <2>1. wpc' \in WorkerSteps
    BY <1>8 DEF StopCore, Goto, EndCore, TypeOK, WorkerSteps, StartSteps,
       EndSteps
  <2>2. live' \in SUBSET Sessions
    BY <1>8 DEF StopCore, Goto, EndCore, TypeOK, Sessions
  <2>3. survivors' \in SUBSET Sessions
    BY <1>8 DEF StopCore, EndCore, TypeOK
  <2> QED
    BY <1>8, <2>1, <2>2, <2>3 DEF TypeOK, StopCore, Goto, EndCore, session, history
<1>9. CASE MarkError
  <2>1. phase' \in [Sessions -> Phases]
    BY <1>9 DEF MarkError, TypeOK, Phases
  <2>2. wpc' \in WorkerSteps
    BY <1>9 DEF MarkError, TypeOK, WorkerSteps, StartSteps, EndSteps
  <2>3. wop' \in {"none", "start", "failed", "stop", "prefOn", "prefOff"}
    BY <1>9 DEF MarkError, TypeOK
  <2> QED
    BY <1>9, <2>1, <2>2, <2>3 DEF TypeOK, MarkError, os, history
<1>10. CASE EmitError
  <2>1. wpc' \in WorkerSteps
    BY <1>10 DEF EmitError, Goto, EmitState, TypeOK, WorkerSteps, StartSteps,
       EndSteps
  <2>2. lastState' \in Phases \cup {"disconnected"}
    BY <1>10 DEF EmitError, Goto, EmitState, TypeOK, Reported, Sessions
  <2> QED
    BY <1>10, <2>1, <2>2 DEF TypeOK, EmitError, Goto, EmitState, session, os,
       history
<1>11. CASE StopFailedCore
  <2>1. stopReq' \in [Sessions -> BOOLEAN]
    BY <1>11 DEF StopFailedCore, Goto, EndCore, TypeOK
  <2>2. wpc' \in WorkerSteps
    BY <1>11 DEF StopFailedCore, Goto, EndCore, TypeOK, WorkerSteps,
       StartSteps, EndSteps
  <2>3. live' \in SUBSET Sessions
    BY <1>11 DEF StopFailedCore, Goto, EndCore, TypeOK, Sessions
  <2>4. survivors' \in SUBSET Sessions
    BY <1>11 DEF StopFailedCore, EndCore, TypeOK
  <2> QED
    BY <1>11, <2>1, <2>2, <2>3, <2>4 DEF TypeOK, StopFailedCore, Goto, EndCore,
       history
<1>12. CASE WorkerClean
  <2>1. cleaned' \in [Sessions -> BOOLEAN]
    BY <1>12 DEF WorkerClean, Goto, RemoveTunRoutes, Undo, TypeOK
  <2>2. wpc' \in WorkerSteps
    BY <1>12 DEF WorkerClean, Goto, RemoveTunRoutes, Undo, TypeOK, WorkerSteps,
       StartSteps, EndSteps
  <2>3. routes' \in SUBSET {"server", "tun"}
    BY <1>12 DEF WorkerClean, Goto, RemoveTunRoutes, Undo, TypeOK
  <2>4. leftover' \in SUBSET {"server", "tun", "proxy"}
    BY <1>12 DEF WorkerClean, RemoveTunRoutes, Undo, TypeOK
  <2> QED
    BY <1>12, <2>1, <2>2, <2>3, <2>4 DEF TypeOK, WorkerClean, Goto, RemoveTunRoutes, Undo,
       history
<1>13. CASE WorkerCleanServer
  <2>1. wpc' \in WorkerSteps
    BY <1>13 DEF WorkerCleanServer, Goto, RemoveServerRoute, Undo, TypeOK,
       WorkerSteps, StartSteps, EndSteps
  <2>2. routes' \in SUBSET {"server", "tun"}
    BY <1>13 DEF WorkerCleanServer, Goto, RemoveServerRoute, Undo, TypeOK
  <2>3. leftover' \in SUBSET {"server", "tun", "proxy"}
    BY <1>13 DEF WorkerCleanServer, RemoveServerRoute, Undo, TypeOK
  <2> QED
    BY <1>13, <2>1, <2>2, <2>3 DEF TypeOK, WorkerCleanServer, Goto,
       RemoveServerRoute, Undo, session, history
<1>14. CASE WorkerCleanProxy
  <2>1. wses \in Sessions
    BY <1>14 DEF WorkerCleanProxy, TypeOK, StartOwns, StartSteps,
       CleanupSteps, Sessions
  <2>2. wpc' \in WorkerSteps
    BY <1>14, <2>1 DEF WorkerCleanProxy, Goto, RestoreProxy, Undo, TypeOK,
       WorkerSteps, StartSteps, EndSteps
  <2>3. proxy' \in {"user", "core"}
    BY <1>14, <2>1 DEF WorkerCleanProxy, Goto, RestoreProxy, Undo, TypeOK
  <2>4. leftover' \in SUBSET {"server", "tun", "proxy"}
    BY <1>14 DEF WorkerCleanProxy, RestoreProxy, Undo, TypeOK
  <2> QED
    BY <1>14, <2>2, <2>3, <2>4 DEF TypeOK, WorkerCleanProxy, Goto, RestoreProxy, Undo,
       session, history
<1>15. CASE ReleaseState
  <2>1. state_' \in 0 .. MaxStarts
    BY <1>15 DEF ReleaseState, Goto, TypeOK, Sessions
  <2>2. wpc' \in WorkerSteps
    BY <1>15 DEF ReleaseState, Goto, TypeOK, WorkerSteps, StartSteps, EndSteps
  <2> QED
    BY <1>15, <2>1, <2>2 DEF TypeOK, ReleaseState, Goto, session, os, history
<1>16. CASE EmitEnd
  <2>1. wpc' \in WorkerSteps
    BY <1>16 DEF EmitEnd, Goto, EmitState, TypeOK, WorkerSteps, StartSteps,
       EndSteps
  <2>2. lastState' \in Phases \cup {"disconnected"}
    BY <1>16 DEF EmitEnd, Goto, EmitState, TypeOK, Reported, Sessions
  <2> QED
    BY <1>16, <2>1, <2>2 DEF TypeOK, EmitEnd, Goto, EmitState, session, os,
       history
<1>17. CASE Disengage
  <2>1. filters' \in BOOLEAN
    BY <1>17 DEF Disengage, Goto, TypeOK
  <2>2. disFailed' \in BOOLEAN
    BY <1>17 DEF Disengage, Goto, TypeOK
  <2>3. wpc' \in WorkerSteps
    BY <1>17 DEF Disengage, Goto, TypeOK, WorkerSteps, StartSteps, EndSteps
  <2> QED
    BY <1>17, <2>1, <2>2, <2>3 DEF TypeOK, Disengage, Goto, session
<1>18. CASE InstallState
  <2>1. made + 1 \in Sessions
    BY <1>18 DEF InstallState, TypeOK, StepsOfCalls, Sessions
  <2>2. made' \in 0 .. MaxStarts
    BY <1>18, <2>1 DEF InstallState, TypeOK, Sessions
  <2>3. state_' \in 0 .. MaxStarts
    BY <1>18, <2>1 DEF InstallState, TypeOK, Sessions
  <2>4. kind' \in [Sessions -> Kinds \cup {"none"}]
    BY <1>18, <2>1 DEF InstallState, TypeOK
  <2>5. wses' \in 0 .. MaxStarts
    BY <1>18, <2>1 DEF InstallState, TypeOK, Sessions
  <2>6. wpc' \in WorkerSteps
    BY <1>18, <2>1 DEF InstallState, TypeOK, WorkerSteps, StartSteps, EndSteps
  <2>7. wop' \in {"none", "start", "failed", "stop", "prefOn", "prefOff"}
    BY <1>18, <2>1 DEF InstallState, TypeOK
  <2> QED
    BY <1>18, <2>2, <2>3, <2>4, <2>5, <2>6, <2>7 DEF TypeOK, InstallState, os,
       history
<1>19. CASE EmitStarting
  <2>1. wpc' \in WorkerSteps
    BY <1>19 DEF EmitStarting, Goto, EmitState, TypeOK, WorkerSteps,
       StartSteps, EndSteps
  <2>2. lastState' \in Phases \cup {"disconnected"}
    BY <1>19 DEF EmitStarting, Goto, EmitState, TypeOK, Reported, Sessions
  <2> QED
    BY <1>19, <2>1, <2>2 DEF TypeOK, EmitStarting, Goto, EmitState, session,
       os, history
<1>20. CASE StartFails
  <2>1. wpc' \in WorkerSteps
    BY <1>20 DEF StartFails, Goto, TypeOK, WorkerSteps, StartSteps, EndSteps
  <2> QED
    BY <1>20, <2>1 DEF TypeOK, StartFails, Goto, session, os, history
<1>21. CASE CheckPrerequisites
  <2>1. svc' \in [Sessions -> BOOLEAN]
    BY <1>21 DEF CheckPrerequisites, Goto, TypeOK
  <2>2. wpc' \in WorkerSteps
    BY <1>21 DEF CheckPrerequisites, Goto, TypeOK, WorkerSteps, StartSteps,
       EndSteps
  <2> QED
    BY <1>21, <2>1, <2>2 DEF TypeOK, CheckPrerequisites, Goto, os, history
<1>22. CASE StopStaleCores
  <2>1. live' \in SUBSET Sessions
    BY <1>22 DEF StopStaleCores, Goto, TypeOK, Sessions
  <2>2. wpc' \in WorkerSteps
    BY <1>22 DEF StopStaleCores, Goto, TypeOK, WorkerSteps, StartSteps,
       EndSteps
  <2>3. survivors' \in SUBSET Sessions
    BY <1>22 DEF StopStaleCores, TypeOK
  <2> QED
    BY <1>22, <2>1, <2>2, <2>3 DEF TypeOK, StopStaleCores, Goto, session, history
<1>23. CASE PrepareServerRouting
  <2>1. srv' \in [Sessions -> {"none", "created", "replaced", "exists"}]
    BY <1>23 DEF PrepareServerRouting, Goto, TypeOK
  <2>2. routes' \in SUBSET {"server", "tun"}
    BY <1>23 DEF PrepareServerRouting, Goto, TypeOK
  <2>3. wpc' \in WorkerSteps
    BY <1>23 DEF PrepareServerRouting, Goto, TypeOK, WorkerSteps, StartSteps,
       EndSteps
  <2>4. leftover' \in SUBSET {"server", "tun", "proxy"}
    BY <1>23 DEF PrepareServerRouting, TypeOK
  <2> QED
    BY <1>23, <2>1, <2>2, <2>3, <2>4 DEF TypeOK, PrepareServerRouting, Goto, history
<1>24. CASE PrepareConfig
  <2>1. wpc' \in WorkerSteps
    BY <1>24 DEF PrepareConfig, Goto, TypeOK, WorkerSteps, StartSteps,
       EndSteps
  <2> QED
    BY <1>24, <2>1 DEF TypeOK, PrepareConfig, Goto, session, os, history
<1>25. CASE StartCore
  <2>1. wses \in Sessions
    BY <1>25 DEF StartCore, TypeOK, StartOwns, StartSteps, CleanupSteps,
       Sessions
  <2>2. live' \in SUBSET Sessions
    BY <1>25, <2>1 DEF StartCore, Goto, AfterCore, TypeOK, Sessions
  <2>3. watch' \in [Sessions -> WatchSteps]
    BY <1>25, <2>1 DEF StartCore, Goto, AfterCore, TypeOK, WatchSteps,
       HandlingSteps
  <2>4. wpc' \in WorkerSteps
    BY <1>25, <2>1 DEF StartCore, Goto, AfterCore, TypeOK, WorkerSteps,
       StartSteps, EndSteps
  <2> QED
    BY <1>25, <2>2, <2>3, <2>4 DEF TypeOK, StartCore, Goto, AfterCore,
       session, history
<1>26. CASE StartCoreAnswerLost
  <2>1. wses \in Sessions
    BY <1>26 DEF StartCoreAnswerLost, TypeOK, StartOwns, StartSteps,
       CleanupSteps, Sessions
  <2>2. live' \in SUBSET Sessions
    BY <1>26, <2>1 DEF StartCoreAnswerLost, Goto, TypeOK, Sessions
  <2>3. wpc' \in WorkerSteps
    BY <1>26, <2>1 DEF StartCoreAnswerLost, Goto, TypeOK, WorkerSteps,
       StartSteps, EndSteps
  <2> QED
    BY <1>26, <2>2, <2>3 DEF TypeOK, StartCoreAnswerLost, Goto, session,
       history
<1>27. CASE PrepareXrayTunRoutes
  <2>1. tun' \in [Sessions -> BOOLEAN]
    BY <1>27 DEF PrepareXrayTunRoutes, Goto, TypeOK
  <2>2. routes' \in SUBSET {"server", "tun"}
    BY <1>27 DEF PrepareXrayTunRoutes, Goto, TypeOK
  <2>3. wpc' \in WorkerSteps
    BY <1>27 DEF PrepareXrayTunRoutes, Goto, TypeOK, WorkerSteps, StartSteps,
       EndSteps
  <2>4. leftover' \in SUBSET {"server", "tun", "proxy"}
    BY <1>27 DEF PrepareXrayTunRoutes, TypeOK
  <2> QED
    BY <1>27, <2>1, <2>2, <2>3, <2>4 DEF TypeOK, PrepareXrayTunRoutes, Goto, history
<1>28. CASE CaptureProxy
  <2>1. snap' \in [Sessions -> {"none", "user", "core"}]
    BY <1>28 DEF CaptureProxy, Goto, TypeOK
  <2>2. wpc' \in WorkerSteps
    BY <1>28 DEF CaptureProxy, Goto, TypeOK, WorkerSteps, StartSteps, EndSteps
  <2> QED
    BY <1>28, <2>1, <2>2 DEF TypeOK, CaptureProxy, Goto, os, history
<1>29. CASE SetProxy
  <2>1. proxy' \in {"user", "core"}
    BY <1>29 DEF SetProxy, Goto, TypeOK
  <2>2. wpc' \in WorkerSteps
    BY <1>29 DEF SetProxy, Goto, TypeOK, WorkerSteps, StartSteps, EndSteps
  <2> QED
    BY <1>29, <2>1, <2>2 DEF TypeOK, SetProxy, Goto, session, history
<1>30. CASE StartSucceeds
  <2>1. phase' \in [Sessions -> Phases]
    BY <1>30 DEF StartSucceeds, Goto, TypeOK, Phases
  <2>2. wpc' \in WorkerSteps
    BY <1>30 DEF StartSucceeds, Goto, TypeOK, WorkerSteps, StartSteps,
       EndSteps
  <2> QED
    BY <1>30, <2>1, <2>2 DEF TypeOK, StartSucceeds, Goto, os, history
<1>31. CASE EmitRunning
  <2>1. wpc' \in WorkerSteps
    BY <1>31 DEF EmitRunning, Goto, EmitState, TypeOK, WorkerSteps,
       StartSteps, EndSteps
  <2>2. lastState' \in Phases \cup {"disconnected"}
    BY <1>31 DEF EmitRunning, Goto, EmitState, TypeOK, Reported, Sessions
  <2> QED
    BY <1>31, <2>1, <2>2 DEF TypeOK, EmitRunning, Goto, EmitState, session,
       os, history
<1>32. ASSUME NEW s \in Sessions, NoticeExit(s) PROVE TypeOK'
  <2>1. watch' \in [Sessions -> WatchSteps]
    BY <1>32 DEF NoticeExit, WatchGoto, TypeOK, WatchSteps, HandlingSteps
  <2> QED
    BY <1>32, <2>1 DEF TypeOK, NoticeExit, WatchGoto, session, os, history,
       worker
<1>33. ASSUME NEW s \in Sessions, TestStopRequested(s) PROVE TypeOK'
  <2>1. watch' \in [Sessions -> WatchSteps]
    BY <1>33 DEF TestStopRequested, WatchGoto, TypeOK, WatchSteps,
       HandlingSteps
  <2> QED
    BY <1>33, <2>1 DEF TypeOK, TestStopRequested, WatchGoto, session, os,
       history, worker
<1>34. ASSUME NEW s \in Sessions, TakeOver(s) PROVE TypeOK'
  <2>1. state_' \in 0 .. MaxStarts
    BY <1>34 DEF TakeOver, WatchGoto, TypeOK, Sessions
  <2>2. overlap' \in BOOLEAN
    BY <1>34 DEF TakeOver, WatchGoto, TypeOK
  <2>3. watch' \in [Sessions -> WatchSteps]
    BY <1>34 DEF TakeOver, WatchGoto, TypeOK, WatchSteps, HandlingSteps
  <2> QED
    BY <1>34, <2>1, <2>2, <2>3 DEF TypeOK, TakeOver, WatchGoto, session, os,
       worker
<1>35. ASSUME NEW s \in Sessions, WatchClean(s) PROVE TypeOK'
  <2>1. cleaned' \in [Sessions -> BOOLEAN]
    BY <1>35 DEF WatchClean, WatchGoto, RemoveTunRoutes, Undo, TypeOK
  <2>2. watch' \in [Sessions -> WatchSteps]
    BY <1>35 DEF WatchClean, WatchGoto, RemoveTunRoutes, Undo, TypeOK, WatchSteps,
       HandlingSteps
  <2>3. routes' \in SUBSET {"server", "tun"}
    BY <1>35 DEF WatchClean, WatchGoto, RemoveTunRoutes, Undo, TypeOK
  <2>4. leftover' \in SUBSET {"server", "tun", "proxy"}
    BY <1>35 DEF WatchClean, RemoveTunRoutes, Undo, TypeOK
  <2> QED
    BY <1>35, <2>1, <2>2, <2>3, <2>4 DEF TypeOK, WatchClean, WatchGoto,
       RemoveTunRoutes, Undo, history, worker
<1>36. ASSUME NEW s \in Sessions, WatchCleanServer(s) PROVE TypeOK'
  <2>1. watch' \in [Sessions -> WatchSteps]
    BY <1>36 DEF WatchCleanServer, WatchGoto, RemoveServerRoute, Undo, TypeOK,
       WatchSteps, HandlingSteps
  <2>2. routes' \in SUBSET {"server", "tun"}
    BY <1>36 DEF WatchCleanServer, WatchGoto, RemoveServerRoute, Undo, TypeOK
  <2>3. leftover' \in SUBSET {"server", "tun", "proxy"}
    BY <1>36 DEF WatchCleanServer, RemoveServerRoute, Undo, TypeOK
  <2> QED
    BY <1>36, <2>1, <2>2, <2>3 DEF TypeOK, WatchCleanServer, WatchGoto,
       RemoveServerRoute, Undo, session, history, worker
<1>37. ASSUME NEW s \in Sessions, WatchCleanProxy(s) PROVE TypeOK'
  <2>1. watch' \in [Sessions -> WatchSteps]
    BY <1>37 DEF WatchCleanProxy, WatchGoto, RestoreProxy, Undo, TypeOK, WatchSteps,
       HandlingSteps
  <2>2. proxy' \in {"user", "core"}
    BY <1>37 DEF WatchCleanProxy, WatchGoto, RestoreProxy, Undo, TypeOK
  <2>3. leftover' \in SUBSET {"server", "tun", "proxy"}
    BY <1>37 DEF WatchCleanProxy, RestoreProxy, Undo, TypeOK
  <2> QED
    BY <1>37, <2>1, <2>2, <2>3 DEF TypeOK, WatchCleanProxy, WatchGoto, RestoreProxy, Undo,
       session, history, worker
<1>38. ASSUME NEW s \in Sessions, TestPreference(s) PROVE TypeOK'
  <2>1. watch' \in [Sessions -> WatchSteps]
    BY <1>38 DEF TestPreference, WatchGoto, TypeOK, WatchSteps, HandlingSteps
  <2> QED
    BY <1>38, <2>1 DEF TypeOK, TestPreference, WatchGoto, session, os,
       history, worker
<1>39. ASSUME NEW s \in Sessions, Engage(s) PROVE TypeOK'
  <2>1. filters' \in BOOLEAN
    BY <1>39 DEF Engage, WatchGoto, TypeOK
  <2>2. watch' \in [Sessions -> WatchSteps]
    BY <1>39 DEF Engage, WatchGoto, TypeOK, WatchSteps, HandlingSteps
  <2> QED
    BY <1>39, <2>1, <2>2 DEF TypeOK, Engage, WatchGoto, session, history,
       worker
<1>40. ASSUME NEW s \in Sessions, WatchEmitState(s) PROVE TypeOK'
  <2>1. watch' \in [Sessions -> WatchSteps]
    BY <1>40 DEF WatchEmitState, WatchGoto, EmitState, TypeOK, WatchSteps,
       HandlingSteps
  <2>2. lastState' \in Phases \cup {"disconnected"}
    BY <1>40 DEF WatchEmitState, WatchGoto, EmitState, TypeOK, Reported,
       Sessions
  <2> QED
    BY <1>40, <2>1, <2>2 DEF TypeOK, WatchEmitState, WatchGoto, EmitState,
       session, os, history, worker
<1>41. ASSUME NEW s \in Sessions, EmitExit(s) PROVE TypeOK'
  <2>1. exits' \in SUBSET Sessions
    BY <1>41 DEF EmitExit, WatchGoto, TypeOK, Sessions
  <2>2. watch' \in [Sessions -> WatchSteps]
    BY <1>41 DEF EmitExit, WatchGoto, TypeOK, WatchSteps, HandlingSteps
  <2> QED
    BY <1>41, <2>1, <2>2 DEF TypeOK, EmitExit, WatchGoto, session, os, worker
<1>42. ASSUME NEW s \in Sessions, CoreDies(s) PROVE TypeOK'
  <2>1. live' \in SUBSET Sessions
    BY <1>42 DEF CoreDies, TypeOK, Sessions
  <2>2. routes' \in SUBSET {"server", "tun"}
    BY <1>42 DEF CoreDies, TypeOK
  <2> QED
    BY <1>42, <2>1, <2>2 DEF TypeOK, CoreDies, session, history, worker
<1>43. CASE UiCrash
  <2>1. crashes' \in 0 .. MaxCrashes
    BY <1>43 DEF UiCrash, TypeOK
  <2>2. state_' \in 0 .. MaxStarts
    BY <1>43 DEF UiCrash, TypeOK, Sessions
  <2>3. pref' \in BOOLEAN
    BY <1>43 DEF UiCrash, TypeOK
  <2>4. lastState' \in Phases \cup {"disconnected"}
    BY <1>43 DEF UiCrash, TypeOK, EmitState, Reported, Phases, Sessions
  <2>5. wpc' \in WorkerSteps
    BY <1>43 DEF UiCrash, TypeOK, WorkerSteps, StartSteps, EndSteps
  <2>6. wop' \in {"none", "start", "failed", "stop", "prefOn", "prefOff"}
    BY <1>43 DEF UiCrash, TypeOK
  <2>7. wses' \in 0 .. MaxStarts
    BY <1>43 DEF UiCrash, TypeOK, Sessions
  <2>8. watch' \in [Sessions -> WatchSteps]
    BY <1>43 DEF UiCrash, TypeOK, WatchSteps, HandlingSteps
  <2>9. lost' \in SUBSET Sessions
    BY <1>43 DEF UiCrash, TypeOK
  <2> QED
    BY <1>43, <2>1, <2>2, <2>3, <2>4, <2>5, <2>6, <2>7, <2>8, <2>9 DEF TypeOK,
       UiCrash, session, os
<1>44. CASE UNCHANGED vars
  BY <1>44 DEF vars, session, worker, os, history, TypeOK
<1> QED
  BY <1>1, <1>2, <1>3, <1>4, <1>5, <1>6, <1>7, <1>8, <1>9, <1>10, <1>11,
     <1>12, <1>13, <1>14, <1>15, <1>16, <1>17, <1>18, <1>19, <1>20, <1>21,
     <1>22, <1>23, <1>24, <1>25, <1>26, <1>27, <1>28, <1>29, <1>30, <1>31,
     <1>32, <1>33, <1>34, <1>35, <1>36, <1>37, <1>38, <1>39, <1>40, <1>41,
     <1>42, <1>43, <1>44 DEF Next, Calls, WorkerStep, WatcherStep, Environment

(* The worker steps through a call in the order of the code. *)
LEMMA StepsOfCallsStep == IInv /\ [Next]_vars => StepsOfCalls'
<1> SUFFICES ASSUME StepsOfCalls, StartOwns,
                    Next \/ UNCHANGED vars
             PROVE StepsOfCalls'
  BY DEF IInv
<1> USE MaxStartsAssumption DEF StepsOfCalls, Sessions, StartSteps, EndSteps,
   CleanupSteps, HandlingSteps, Handling
<1>1. CASE CallStart
  BY <1>1 DEF CallStart, BeginCall, session, os, StartOwns
<1>2. CASE CallStop
  BY <1>2 DEF CallStop, BeginCall, session, os, StartOwns
<1>3. CASE CallSetKillswitchPreference
  BY <1>3 DEF CallSetKillswitchPreference, BeginCall, session, os, StartOwns
<1>4. CASE SetPreference
  BY <1>4 DEF SetPreference, Goto, session, os, history, StartOwns
<1>5. CASE ReadRunning
  BY <1>5 DEF ReadRunning, Goto, session, os, history, Reported, StartOwns
<1>6. CASE TakeState
  BY <1>6 DEF TakeState, session, os, StartOwns
<1>7. CASE MarkStopping
  BY <1>7 DEF MarkStopping, Goto, EmitState, os, history, StartOwns
<1>8. CASE StopCore
  BY <1>8 DEF StopCore, Goto, EndCore, session, history, StartOwns
<1>9. CASE MarkError
  BY <1>9 DEF MarkError, os, history, StartOwns
<1>10. CASE EmitError
  BY <1>10 DEF EmitError, Goto, EmitState, session, os, history, StartOwns
<1>11. CASE StopFailedCore
  BY <1>11 DEF StopFailedCore, Goto, EndCore, history, StartOwns
<1>12. CASE WorkerClean
  BY <1>12 DEF WorkerClean, Goto, RemoveTunRoutes, Undo, history, StartOwns
<1>13. CASE WorkerCleanServer
  BY <1>13 DEF WorkerCleanServer, Goto, RemoveServerRoute, Undo, session, history,
     StartOwns
<1>14. CASE WorkerCleanProxy
  BY <1>14 DEF WorkerCleanProxy, Goto, RestoreProxy, Undo, session, history,
     StartOwns
<1>15. CASE ReleaseState
  BY <1>15 DEF ReleaseState, Goto, session, os, history, StartOwns
<1>16. CASE EmitEnd
  BY <1>16 DEF EmitEnd, Goto, EmitState, session, os, history, StartOwns
<1>17. CASE Disengage
  BY <1>17 DEF Disengage, Goto, session, StartOwns
<1>18. CASE InstallState
  BY <1>18 DEF InstallState, os, history, StartOwns
<1>19. CASE EmitStarting
  BY <1>19 DEF EmitStarting, Goto, EmitState, session, os, history, StartOwns
<1>20. CASE StartFails
  BY <1>20 DEF StartFails, Goto, session, os, history, StartOwns
<1>21. CASE CheckPrerequisites
  BY <1>21 DEF CheckPrerequisites, Goto, os, history, StartOwns
<1>22. CASE StopStaleCores
  BY <1>22 DEF StopStaleCores, Goto, session, history, StartOwns
<1>23. CASE PrepareServerRouting
  BY <1>23 DEF PrepareServerRouting, Goto, history, StartOwns
<1>24. CASE PrepareConfig
  BY <1>24 DEF PrepareConfig, Goto, session, os, history, StartOwns
<1>25. CASE StartCore
  BY <1>25 DEF StartCore, Goto, AfterCore, session, history, StartOwns
<1>26. CASE StartCoreAnswerLost
  BY <1>26 DEF StartCoreAnswerLost, Goto, session, history, StartOwns
<1>27. CASE PrepareXrayTunRoutes
  BY <1>27 DEF PrepareXrayTunRoutes, Goto, history, StartOwns
<1>28. CASE CaptureProxy
  BY <1>28 DEF CaptureProxy, Goto, os, history, StartOwns
<1>29. CASE SetProxy
  BY <1>29 DEF SetProxy, Goto, session, history, StartOwns
<1>30. CASE StartSucceeds
  BY <1>30 DEF StartSucceeds, Goto, os, history, StartOwns
<1>31. CASE EmitRunning
  BY <1>31 DEF EmitRunning, Goto, EmitState, session, os, history, StartOwns
<1>32. CASE UiCrash
  BY <1>32 DEF UiCrash, session, os, StartOwns
<1>33. CASE (\E s \in Sessions : NoticeExit(s) \/ TestStopRequested(s) \/
   TakeOver(s) \/ WatchClean(s) \/ WatchCleanServer(s) \/ WatchCleanProxy(s)
   \/ TestPreference(s) \/ Engage(s) \/ WatchEmitState(s) \/ EmitExit(s) \/
   CoreDies(s))
  BY <1>33 DEF NoticeExit, WatchGoto, TestStopRequested, TakeOver, WatchClean,
     RemoveTunRoutes, Undo, WatchCleanServer, RemoveServerRoute, WatchCleanProxy,
     RestoreProxy, TestPreference, Engage, WatchEmitState, EmitState,
     EmitExit, CoreDies, session, os, history, worker
<1>34. CASE UNCHANGED vars
  BY <1>34 DEF vars, session, worker, os, history
<1> QED
  BY <1>1, <1>2, <1>3, <1>4, <1>5, <1>6, <1>7, <1>8, <1>9, <1>10, <1>11,
     <1>12, <1>13, <1>14, <1>15, <1>16, <1>17, <1>18, <1>19, <1>20, <1>21,
     <1>22, <1>23, <1>24, <1>25, <1>26, <1>27, <1>28, <1>29, <1>30, <1>31,
     <1>32, <1>33, <1>34 DEF Next, Calls, WorkerStep, WatcherStep, Environment

(* Start numbers its sessions; nothing happens to a number not yet used. *)
LEMMA FreshSessionsStep == IInv /\ [Next]_vars => FreshSessions'
<1> SUFFICES ASSUME FreshSessions, TypeOK, StartOwns,
                    Next \/ UNCHANGED vars
             PROVE FreshSessions'
  BY DEF IInv
<1> USE MaxStartsAssumption DEF FreshSessions, Sessions, StartSteps, EndSteps,
   CleanupSteps, HandlingSteps, Handling
<1>1. CASE CallStart
  BY <1>1 DEF CallStart, BeginCall, session, os, TypeOK, StartOwns
<1>2. CASE CallStop
  BY <1>2 DEF CallStop, BeginCall, session, os, TypeOK, StartOwns
<1>3. CASE CallSetKillswitchPreference
  BY <1>3 DEF CallSetKillswitchPreference, BeginCall, session, os, TypeOK,
     StartOwns
<1>4. CASE TakeState
  BY <1>4 DEF TakeState, session, os, TypeOK, StartOwns
<1>5. CASE MarkStopping
  BY <1>5 DEF MarkStopping, Goto, EmitState, os, history, TypeOK, StartOwns
<1>6. CASE StopCore
  BY <1>6 DEF StopCore, Goto, EndCore, session, history, TypeOK, StartOwns
<1>7. CASE MarkError
  BY <1>7 DEF MarkError, os, history, TypeOK, StartOwns
<1>8. CASE StopFailedCore
  <2>1. live' \subseteq live
    BY <1>8 DEF StopFailedCore, EndCore
  <2>2. \A s \in Sessions : s > made => s # wses
    BY DEF TypeOK
  <2>3. \A s \in Sessions : s > made => stopReq'[s] = stopReq[s]
    BY <1>8, <2>2 DEF StopFailedCore, TypeOK
  <2> QED
    BY <1>8, <2>1, <2>3 DEF StopFailedCore, Goto, history
<1>9. CASE ReleaseState
  BY <1>9 DEF ReleaseState, Goto, session, os, history, TypeOK, StartOwns
<1>10. CASE InstallState
  BY <1>10 DEF InstallState, os, history, TypeOK, StartOwns
<1>11. CASE StopStaleCores
  BY <1>11 DEF StopStaleCores, Goto, session, history, TypeOK, StartOwns
<1>12. CASE StartCore
  BY <1>12 DEF StartCore, Goto, AfterCore, session, history, TypeOK, StartOwns
<1>13. CASE StartCoreAnswerLost
  BY <1>13 DEF StartCoreAnswerLost, Goto, session, history, TypeOK, StartOwns
<1>14. CASE StartSucceeds
  BY <1>14 DEF StartSucceeds, Goto, os, history, TypeOK, StartOwns
<1>15. ASSUME NEW s \in Sessions, NoticeExit(s) PROVE FreshSessions'
  BY <1>15 DEF NoticeExit, WatchGoto, session, os, history, worker, TypeOK,
     StartOwns
<1>16. ASSUME NEW s \in Sessions, TestStopRequested(s) PROVE FreshSessions'
  BY <1>16 DEF TestStopRequested, WatchGoto, session, os, history, worker,
     TypeOK, StartOwns
<1>17. ASSUME NEW s \in Sessions, TakeOver(s) PROVE FreshSessions'
  BY <1>17 DEF TakeOver, WatchGoto, session, os, worker, TypeOK, StartOwns
<1>18. ASSUME NEW s \in Sessions, WatchClean(s) PROVE FreshSessions'
  BY <1>18 DEF WatchClean, WatchGoto, RemoveTunRoutes, Undo, history, worker,
     TypeOK, StartOwns
<1>19. ASSUME NEW s \in Sessions, WatchCleanServer(s) PROVE FreshSessions'
  BY <1>19 DEF WatchCleanServer, WatchGoto, RemoveServerRoute, Undo, session,
     history, worker, TypeOK, StartOwns
<1>20. ASSUME NEW s \in Sessions, WatchCleanProxy(s) PROVE FreshSessions'
  BY <1>20 DEF WatchCleanProxy, WatchGoto, RestoreProxy, Undo, session, history,
     worker, TypeOK, StartOwns
<1>21. ASSUME NEW s \in Sessions, TestPreference(s) PROVE FreshSessions'
  BY <1>21 DEF TestPreference, WatchGoto, session, os, history, worker,
     TypeOK, StartOwns
<1>22. ASSUME NEW s \in Sessions, Engage(s) PROVE FreshSessions'
  BY <1>22 DEF Engage, WatchGoto, session, history, worker, TypeOK, StartOwns
<1>23. ASSUME NEW s \in Sessions, WatchEmitState(s) PROVE FreshSessions'
  BY <1>23 DEF WatchEmitState, WatchGoto, EmitState, session, os, history,
     worker, TypeOK, StartOwns
<1>24. ASSUME NEW s \in Sessions, EmitExit(s) PROVE FreshSessions'
  BY <1>24 DEF EmitExit, WatchGoto, session, os, worker, TypeOK, StartOwns
<1>25. ASSUME NEW s \in Sessions, CoreDies(s) PROVE FreshSessions'
  BY <1>25 DEF CoreDies, session, history, worker, TypeOK, StartOwns
<1>26. CASE UiCrash
  BY <1>26 DEF UiCrash, session, os, TypeOK, StartOwns
<1>27. CASE SetPreference \/ ReadRunning \/ EmitError \/ WorkerClean \/
   WorkerCleanServer \/ WorkerCleanProxy \/ EmitEnd \/ Disengage \/
   EmitStarting \/ StartFails \/ CheckPrerequisites \/ PrepareServerRouting \/
   PrepareConfig \/ PrepareXrayTunRoutes \/ CaptureProxy \/ SetProxy \/
   EmitRunning
  BY <1>27 DEF SetPreference, Goto, ReadRunning, EmitError, EmitState,
     WorkerClean, RemoveTunRoutes, Undo, WorkerCleanServer, RemoveServerRoute,
     WorkerCleanProxy, RestoreProxy, EmitEnd, Disengage, EmitStarting,
     StartFails, CheckPrerequisites, PrepareServerRouting, PrepareConfig,
     PrepareXrayTunRoutes, CaptureProxy, SetProxy, EmitRunning, session, os,
     history, worker
<1>28. CASE UNCHANGED vars
  BY <1>28 DEF vars, session, worker, os, history
<1> QED
  BY <1>1, <1>2, <1>3, <1>4, <1>5, <1>6, <1>7, <1>8, <1>9, <1>10, <1>11,
     <1>12, <1>13, <1>14, <1>15, <1>16, <1>17, <1>18, <1>19, <1>20, <1>21,
     <1>22, <1>23, <1>24, <1>25, <1>26, <1>27, <1>28 DEF Next, Calls,
     WorkerStep, WatcherStep, Environment

(* Once StopInternal has emptied state_, only Start fills it. *)
LEMMA SlotEmptyStep == IInv /\ [Next]_vars => SlotEmpty'
<1> SUFFICES ASSUME SlotEmpty, StartOwns, StepsOfCalls,
                    Next \/ UNCHANGED vars
             PROVE SlotEmpty'
  BY DEF IInv
<1> USE MaxStartsAssumption DEF SlotEmpty, Sessions, StartSteps, EndSteps,
   CleanupSteps, HandlingSteps, Handling
<1>1. CASE CallStart
  BY <1>1 DEF CallStart, BeginCall, session, os, StartOwns, StepsOfCalls
<1>2. CASE CallStop
  BY <1>2 DEF CallStop, BeginCall, session, os, StartOwns, StepsOfCalls
<1>3. CASE CallSetKillswitchPreference
  BY <1>3 DEF CallSetKillswitchPreference, BeginCall, session, os, StartOwns,
     StepsOfCalls
<1>4. CASE SetPreference
  BY <1>4 DEF SetPreference, Goto, session, os, history, StartOwns,
     StepsOfCalls
<1>5. CASE ReadRunning
  BY <1>5 DEF ReadRunning, Goto, session, os, history, Reported, StartOwns,
     StepsOfCalls
<1>6. CASE TakeState
  BY <1>6 DEF TakeState, session, os, StartOwns, StepsOfCalls
<1>7. CASE MarkStopping
  BY <1>7 DEF MarkStopping, Goto, EmitState, os, history, StartOwns,
     StepsOfCalls
<1>8. CASE StopCore
  BY <1>8 DEF StopCore, Goto, EndCore, session, history, StartOwns,
     StepsOfCalls
<1>9. CASE MarkError
  BY <1>9 DEF MarkError, os, history, StartOwns, StepsOfCalls
<1>10. CASE EmitError
  BY <1>10 DEF EmitError, Goto, EmitState, session, os, history, StartOwns,
     StepsOfCalls
<1>11. CASE StopFailedCore
  BY <1>11 DEF StopFailedCore, Goto, EndCore, history, StartOwns, StepsOfCalls
<1>12. CASE WorkerClean
  BY <1>12 DEF WorkerClean, Goto, RemoveTunRoutes, Undo, history, StartOwns,
     StepsOfCalls
<1>13. CASE WorkerCleanServer
  BY <1>13 DEF WorkerCleanServer, Goto, RemoveServerRoute, Undo, session, history,
     StartOwns, StepsOfCalls
<1>14. CASE WorkerCleanProxy
  BY <1>14 DEF WorkerCleanProxy, Goto, RestoreProxy, Undo, session, history,
     StartOwns, StepsOfCalls
<1>15. CASE ReleaseState
  BY <1>15 DEF ReleaseState, Goto, session, os, history, StartOwns,
     StepsOfCalls
<1>16. CASE EmitEnd
  BY <1>16 DEF EmitEnd, Goto, EmitState, session, os, history, StartOwns,
     StepsOfCalls
<1>17. CASE Disengage
  BY <1>17 DEF Disengage, Goto, session, StartOwns, StepsOfCalls
<1>18. CASE InstallState
  BY <1>18 DEF InstallState, os, history, StartOwns, StepsOfCalls
<1>19. CASE EmitStarting
  BY <1>19 DEF EmitStarting, Goto, EmitState, session, os, history, StartOwns,
     StepsOfCalls
<1>20. CASE StartFails
  BY <1>20 DEF StartFails, Goto, session, os, history, StartOwns, StepsOfCalls
<1>21. CASE CheckPrerequisites
  BY <1>21 DEF CheckPrerequisites, Goto, os, history, StartOwns, StepsOfCalls
<1>22. CASE StopStaleCores
  BY <1>22 DEF StopStaleCores, Goto, session, history, StartOwns, StepsOfCalls
<1>23. CASE PrepareServerRouting
  BY <1>23 DEF PrepareServerRouting, Goto, history, StartOwns, StepsOfCalls
<1>24. CASE PrepareConfig
  BY <1>24 DEF PrepareConfig, Goto, session, os, history, StartOwns,
     StepsOfCalls
<1>25. CASE StartCore
  BY <1>25 DEF StartCore, Goto, AfterCore, session, history, StartOwns,
     StepsOfCalls
<1>26. CASE StartCoreAnswerLost
  BY <1>26 DEF StartCoreAnswerLost, Goto, session, history, StartOwns,
     StepsOfCalls
<1>27. CASE PrepareXrayTunRoutes
  BY <1>27 DEF PrepareXrayTunRoutes, Goto, history, StartOwns, StepsOfCalls
<1>28. CASE CaptureProxy
  BY <1>28 DEF CaptureProxy, Goto, os, history, StartOwns, StepsOfCalls
<1>29. CASE SetProxy
  BY <1>29 DEF SetProxy, Goto, session, history, StartOwns, StepsOfCalls
<1>30. CASE StartSucceeds
  BY <1>30 DEF StartSucceeds, Goto, os, history, StartOwns, StepsOfCalls
<1>31. CASE EmitRunning
  BY <1>31 DEF EmitRunning, Goto, EmitState, session, os, history, StartOwns,
     StepsOfCalls
<1>32. ASSUME NEW s \in Sessions, TakeOver(s) PROVE SlotEmpty'
  BY <1>32 DEF TakeOver, WatchGoto, session, os, worker, StartOwns,
     StepsOfCalls
<1>33. CASE UiCrash
  BY <1>33 DEF UiCrash, session, os, StartOwns, StepsOfCalls
<1>34. CASE (\E s \in Sessions : NoticeExit(s) \/ TestStopRequested(s) \/
   WatchClean(s) \/ WatchCleanServer(s) \/ WatchCleanProxy(s) \/
   TestPreference(s) \/ Engage(s) \/ WatchEmitState(s) \/ EmitExit(s) \/
   CoreDies(s))
  BY <1>34 DEF NoticeExit, WatchGoto, TestStopRequested, WatchClean,
     RemoveTunRoutes, Undo, WatchCleanServer, RemoveServerRoute, WatchCleanProxy,
     RestoreProxy, TestPreference, Engage, WatchEmitState, EmitState,
     EmitExit, CoreDies, session, os, history, worker
<1>35. CASE UNCHANGED vars
  BY <1>35 DEF vars, session, worker, os, history
<1> QED
  BY <1>1, <1>2, <1>3, <1>4, <1>5, <1>6, <1>7, <1>8, <1>9, <1>10, <1>11,
     <1>12, <1>13, <1>14, <1>15, <1>16, <1>17, <1>18, <1>19, <1>20, <1>21,
     <1>22, <1>23, <1>24, <1>25, <1>26, <1>27, <1>28, <1>29, <1>30, <1>31,
     <1>32, <1>33, <1>34, <1>35 DEF Next, Calls, WorkerStep, WatcherStep,
     Environment

(* A session being started is replaced by nobody, only taken away. *)
LEMMA StartOwnsStep == IInv /\ [Next]_vars => StartOwns'
<1> SUFFICES ASSUME StartOwns, SlotEmpty, FreshSessions, StepsOfCalls, TypeOK,
                    Next \/ UNCHANGED vars
             PROVE StartOwns'
  BY DEF IInv
<1> USE MaxStartsAssumption DEF StartOwns, Sessions, StartSteps, EndSteps,
   CleanupSteps, HandlingSteps, Handling
<1>1. CASE CallStart
  BY <1>1 DEF CallStart, BeginCall, session, os, SlotEmpty, FreshSessions,
     StepsOfCalls, TypeOK
<1>2. CASE CallStop
  BY <1>2 DEF CallStop, BeginCall, session, os, SlotEmpty, FreshSessions,
     StepsOfCalls, TypeOK
<1>3. CASE CallSetKillswitchPreference
  BY <1>3 DEF CallSetKillswitchPreference, BeginCall, session, os, SlotEmpty,
     FreshSessions, StepsOfCalls, TypeOK
<1>4. CASE SetPreference
  BY <1>4 DEF SetPreference, Goto, session, os, history, SlotEmpty,
     FreshSessions, StepsOfCalls, TypeOK
<1>5. CASE ReadRunning
  BY <1>5 DEF ReadRunning, Goto, session, os, history, Reported, SlotEmpty,
     FreshSessions, StepsOfCalls, TypeOK
<1>6. CASE TakeState
  BY <1>6 DEF TakeState, session, os, SlotEmpty, FreshSessions, StepsOfCalls,
     TypeOK
<1>7. CASE MarkStopping
  BY <1>7 DEF MarkStopping, Goto, EmitState, os, history, SlotEmpty,
     FreshSessions, StepsOfCalls, TypeOK
<1>8. CASE StopCore
  BY <1>8 DEF StopCore, Goto, EndCore, session, history, SlotEmpty,
     FreshSessions, StepsOfCalls, TypeOK
<1>9. CASE MarkError
  BY <1>9 DEF MarkError, os, history, SlotEmpty, FreshSessions, StepsOfCalls,
     TypeOK
<1>10. CASE EmitError
  BY <1>10 DEF EmitError, Goto, EmitState, session, os, history, SlotEmpty,
     FreshSessions, StepsOfCalls, TypeOK
<1>11. CASE StopFailedCore
  BY <1>11 DEF StopFailedCore, Goto, EndCore, history, SlotEmpty,
     FreshSessions, StepsOfCalls, TypeOK
<1>12. CASE WorkerClean
  BY <1>12 DEF WorkerClean, Goto, RemoveTunRoutes, Undo, history, SlotEmpty,
     FreshSessions, StepsOfCalls, TypeOK
<1>13. CASE WorkerCleanServer
  BY <1>13 DEF WorkerCleanServer, Goto, RemoveServerRoute, Undo, session, history,
     SlotEmpty, FreshSessions, StepsOfCalls, TypeOK
<1>14. CASE WorkerCleanProxy
  BY <1>14 DEF WorkerCleanProxy, Goto, RestoreProxy, Undo, session, history,
     SlotEmpty, FreshSessions, StepsOfCalls, TypeOK
<1>15. CASE ReleaseState
  BY <1>15 DEF ReleaseState, Goto, session, os, history, SlotEmpty,
     FreshSessions, StepsOfCalls, TypeOK
<1>16. CASE EmitEnd
  BY <1>16 DEF EmitEnd, Goto, EmitState, session, os, history, SlotEmpty,
     FreshSessions, StepsOfCalls, TypeOK
<1>17. CASE Disengage
  BY <1>17 DEF Disengage, Goto, session, SlotEmpty, FreshSessions,
     StepsOfCalls, TypeOK
<1>18. CASE InstallState
  <2>1. made + 1 \in Sessions
    BY <1>18 DEF InstallState, TypeOK, StepsOfCalls
  <2>2. /\ watch[made + 1] = "none" /\ made + 1 \notin live
        /\ ~stopReq[made + 1] /\ phase[made + 1] = "starting"
    BY <2>1 DEF FreshSessions, TypeOK
  <2>3. /\ wpc' = "emitStart" /\ wses' = made + 1 /\ state_' = made + 1
        /\ wop' = "start"
        /\ UNCHANGED <<watch, live, stopReq, phase>>
    BY <1>18 DEF InstallState, os, StepsOfCalls
  <2> QED
    BY <2>1, <2>2, <2>3
<1>19. CASE EmitStarting
  BY <1>19 DEF EmitStarting, Goto, EmitState, session, os, history, SlotEmpty,
     FreshSessions, StepsOfCalls, TypeOK
<1>20. CASE StartFails
  BY <1>20 DEF StartFails, Goto, session, os, history, SlotEmpty,
     FreshSessions, StepsOfCalls, TypeOK
<1>21. CASE CheckPrerequisites
  BY <1>21 DEF CheckPrerequisites, Goto, os, history, SlotEmpty,
     FreshSessions, StepsOfCalls, TypeOK
<1>22. CASE StopStaleCores
  BY <1>22 DEF StopStaleCores, Goto, session, history, SlotEmpty,
     FreshSessions, StepsOfCalls, TypeOK
<1>23. CASE PrepareServerRouting
  BY <1>23 DEF PrepareServerRouting, Goto, history, SlotEmpty, FreshSessions,
     StepsOfCalls, TypeOK
<1>24. CASE PrepareConfig
  BY <1>24 DEF PrepareConfig, Goto, session, os, history, SlotEmpty,
     FreshSessions, StepsOfCalls, TypeOK
<1>25. CASE StartCore
  BY <1>25 DEF StartCore, Goto, AfterCore, session, history, SlotEmpty,
     FreshSessions, StepsOfCalls, TypeOK
<1>26. CASE StartCoreAnswerLost
  BY <1>26 DEF StartCoreAnswerLost, Goto, session, history, SlotEmpty,
     FreshSessions, StepsOfCalls, TypeOK
<1>27. CASE PrepareXrayTunRoutes
  BY <1>27 DEF PrepareXrayTunRoutes, Goto, history, SlotEmpty, FreshSessions,
     StepsOfCalls, TypeOK
<1>28. CASE CaptureProxy
  BY <1>28 DEF CaptureProxy, Goto, os, history, SlotEmpty, FreshSessions,
     StepsOfCalls, TypeOK
<1>29. CASE SetProxy
  BY <1>29 DEF SetProxy, Goto, session, history, SlotEmpty, FreshSessions,
     StepsOfCalls, TypeOK
<1>30. CASE StartSucceeds
  BY <1>30 DEF StartSucceeds, Goto, os, history, SlotEmpty, FreshSessions,
     StepsOfCalls, TypeOK
<1>31. CASE EmitRunning
  BY <1>31 DEF EmitRunning, Goto, EmitState, session, os, history, SlotEmpty,
     FreshSessions, StepsOfCalls, TypeOK
<1>32. ASSUME NEW s \in Sessions, NoticeExit(s) PROVE StartOwns'
  BY <1>32 DEF NoticeExit, WatchGoto, session, os, history, worker, SlotEmpty,
     FreshSessions, StepsOfCalls, TypeOK
<1>33. ASSUME NEW s \in Sessions, TestStopRequested(s) PROVE StartOwns'
  BY <1>33 DEF TestStopRequested, WatchGoto, session, os, history, worker,
     SlotEmpty, FreshSessions, StepsOfCalls, TypeOK
<1>34. ASSUME NEW s \in Sessions, TakeOver(s) PROVE StartOwns'
  BY <1>34 DEF TakeOver, WatchGoto, session, os, worker, SlotEmpty,
     FreshSessions, StepsOfCalls, TypeOK
<1>35. ASSUME NEW s \in Sessions, WatchClean(s) PROVE StartOwns'
  BY <1>35 DEF WatchClean, WatchGoto, RemoveTunRoutes, Undo, history, worker,
     SlotEmpty, FreshSessions, StepsOfCalls, TypeOK
<1>36. ASSUME NEW s \in Sessions, WatchCleanServer(s) PROVE StartOwns'
  BY <1>36 DEF WatchCleanServer, WatchGoto, RemoveServerRoute, Undo, session,
     history, worker, SlotEmpty, FreshSessions, StepsOfCalls, TypeOK
<1>37. ASSUME NEW s \in Sessions, WatchCleanProxy(s) PROVE StartOwns'
  BY <1>37 DEF WatchCleanProxy, WatchGoto, RestoreProxy, Undo, session, history,
     worker, SlotEmpty, FreshSessions, StepsOfCalls, TypeOK
<1>38. ASSUME NEW s \in Sessions, TestPreference(s) PROVE StartOwns'
  BY <1>38 DEF TestPreference, WatchGoto, session, os, history, worker,
     SlotEmpty, FreshSessions, StepsOfCalls, TypeOK
<1>39. ASSUME NEW s \in Sessions, Engage(s) PROVE StartOwns'
  BY <1>39 DEF Engage, WatchGoto, session, history, worker, SlotEmpty,
     FreshSessions, StepsOfCalls, TypeOK
<1>40. ASSUME NEW s \in Sessions, WatchEmitState(s) PROVE StartOwns'
  BY <1>40 DEF WatchEmitState, WatchGoto, EmitState, session, os, history,
     worker, SlotEmpty, FreshSessions, StepsOfCalls, TypeOK
<1>41. ASSUME NEW s \in Sessions, EmitExit(s) PROVE StartOwns'
  BY <1>41 DEF EmitExit, WatchGoto, session, os, worker, SlotEmpty,
     FreshSessions, StepsOfCalls, TypeOK
<1>42. ASSUME NEW s \in Sessions, CoreDies(s) PROVE StartOwns'
  BY <1>42 DEF CoreDies, session, history, worker, SlotEmpty, FreshSessions,
     StepsOfCalls, TypeOK
<1>43. CASE UiCrash
  BY <1>43 DEF UiCrash, session, os, SlotEmpty, FreshSessions, StepsOfCalls,
     TypeOK
<1>44. CASE UNCHANGED vars
  BY <1>44 DEF vars, session, worker, os, history
<1> QED
  BY <1>1, <1>2, <1>3, <1>4, <1>5, <1>6, <1>7, <1>8, <1>9, <1>10, <1>11,
     <1>12, <1>13, <1>14, <1>15, <1>16, <1>17, <1>18, <1>19, <1>20, <1>21,
     <1>22, <1>23, <1>24, <1>25, <1>26, <1>27, <1>28, <1>29, <1>30, <1>31,
     <1>32, <1>33, <1>34, <1>35, <1>36, <1>37, <1>38, <1>39, <1>40, <1>41,
     <1>42, <1>43, <1>44 DEF Next, Calls, WorkerStep, WatcherStep, Environment

(* No watcher acts on a core that runs. *)
LEMMA WatchersOfDeadCoresStep == IInv /\ [Next]_vars => WatchersOfDeadCores'
<1> SUFFICES ASSUME WatchersOfDeadCores, StartOwns, TypeOK,
                    Next \/ UNCHANGED vars
             PROVE WatchersOfDeadCores'
  BY DEF IInv
<1> USE MaxStartsAssumption DEF WatchersOfDeadCores, Sessions, StartSteps,
   EndSteps, CleanupSteps, HandlingSteps, Handling
<1>1. CASE StopCore
  BY <1>1 DEF StopCore, Goto, EndCore, session, history, StartOwns, TypeOK
<1>2. CASE StopFailedCore
  BY <1>2 DEF StopFailedCore, Goto, EndCore, history, StartOwns, TypeOK
<1>3. CASE StopStaleCores
  BY <1>3 DEF StopStaleCores, Goto, session, history, StartOwns, TypeOK
<1>4. CASE StartCore
  BY <1>4 DEF StartCore, Goto, AfterCore, session, history, StartOwns, TypeOK
<1>5. CASE StartCoreAnswerLost
  BY <1>5 DEF StartCoreAnswerLost, Goto, session, history, StartOwns, TypeOK
<1>6. ASSUME NEW s \in Sessions, NoticeExit(s) PROVE WatchersOfDeadCores'
  BY <1>6 DEF NoticeExit, WatchGoto, session, os, history, worker, StartOwns,
     TypeOK
<1>7. ASSUME NEW s \in Sessions, TestStopRequested(s) PROVE WatchersOfDeadCores'
  BY <1>7 DEF TestStopRequested, WatchGoto, session, os, history, worker,
     StartOwns, TypeOK
<1>8. ASSUME NEW s \in Sessions, TakeOver(s) PROVE WatchersOfDeadCores'
  BY <1>8 DEF TakeOver, WatchGoto, session, os, worker, StartOwns, TypeOK
<1>9. ASSUME NEW s \in Sessions, WatchClean(s) PROVE WatchersOfDeadCores'
  BY <1>9 DEF WatchClean, WatchGoto, RemoveTunRoutes, Undo, history, worker,
     StartOwns, TypeOK
<1>10. ASSUME NEW s \in Sessions, WatchCleanServer(s) PROVE WatchersOfDeadCores'
  BY <1>10 DEF WatchCleanServer, WatchGoto, RemoveServerRoute, Undo, session,
     history, worker, StartOwns, TypeOK
<1>11. ASSUME NEW s \in Sessions, WatchCleanProxy(s) PROVE WatchersOfDeadCores'
  BY <1>11 DEF WatchCleanProxy, WatchGoto, RestoreProxy, Undo, session, history,
     worker, StartOwns, TypeOK
<1>12. ASSUME NEW s \in Sessions, TestPreference(s) PROVE WatchersOfDeadCores'
  BY <1>12 DEF TestPreference, WatchGoto, session, os, history, worker,
     StartOwns, TypeOK
<1>13. ASSUME NEW s \in Sessions, Engage(s) PROVE WatchersOfDeadCores'
  BY <1>13 DEF Engage, WatchGoto, session, history, worker, StartOwns, TypeOK
<1>14. ASSUME NEW s \in Sessions, WatchEmitState(s) PROVE WatchersOfDeadCores'
  BY <1>14 DEF WatchEmitState, WatchGoto, EmitState, session, os, history,
     worker, StartOwns, TypeOK
<1>15. ASSUME NEW s \in Sessions, EmitExit(s) PROVE WatchersOfDeadCores'
  BY <1>15 DEF EmitExit, WatchGoto, session, os, worker, StartOwns, TypeOK
<1>16. ASSUME NEW s \in Sessions, CoreDies(s) PROVE WatchersOfDeadCores'
  BY <1>16 DEF CoreDies, session, history, worker, StartOwns, TypeOK
<1>17. CASE UiCrash
  BY <1>17 DEF UiCrash, session, os, StartOwns, TypeOK
<1>18. CASE CallStart \/ CallStop \/ CallSetKillswitchPreference \/
   SetPreference \/ ReadRunning \/ TakeState \/ MarkStopping \/ MarkError \/
   EmitError \/ WorkerClean \/ WorkerCleanServer \/ WorkerCleanProxy \/
   ReleaseState \/ EmitEnd \/ Disengage \/ InstallState \/ EmitStarting \/
   StartFails \/ CheckPrerequisites \/ PrepareServerRouting \/ PrepareConfig
   \/ PrepareXrayTunRoutes \/ CaptureProxy \/ SetProxy \/ StartSucceeds \/
   EmitRunning
  BY <1>18 DEF CallStart, BeginCall, CallStop, CallSetKillswitchPreference,
     SetPreference, Goto, ReadRunning, TakeState, MarkStopping, EmitState,
     MarkError, EmitError, WorkerClean, RemoveTunRoutes, Undo, WorkerCleanServer,
     RemoveServerRoute, WorkerCleanProxy, RestoreProxy, ReleaseState, EmitEnd,
     Disengage, InstallState, EmitStarting, StartFails, CheckPrerequisites,
     PrepareServerRouting, PrepareConfig, PrepareXrayTunRoutes, CaptureProxy,
     SetProxy, StartSucceeds, EmitRunning, session, os, history, worker
<1>19. CASE UNCHANGED vars
  BY <1>19 DEF vars, session, worker, os, history
<1> QED
  BY <1>1, <1>2, <1>3, <1>4, <1>5, <1>6, <1>7, <1>8, <1>9, <1>10, <1>11,
     <1>12, <1>13, <1>14, <1>15, <1>16, <1>17, <1>18, <1>19 DEF Next, Calls,
     WorkerStep, WatcherStep, Environment

(* A session is ended by StopInternal or by its watcher, once. *)
LEMMA EndedOnceStep == IInv /\ [Next]_vars => EndedOnce'
<1> SUFFICES ASSUME EndedOnce, FreshSessions, TypeOK,
                    Next \/ UNCHANGED vars
             PROVE EndedOnce'
  BY DEF IInv
<1> USE MaxStartsAssumption DEF EndedOnce, Sessions, StartSteps, EndSteps,
   CleanupSteps, HandlingSteps, Handling
<1>1. CASE TakeState
  BY <1>1 DEF TakeState, session, os, FreshSessions, TypeOK
<1>2. CASE ReleaseState
  BY <1>2 DEF ReleaseState, Goto, session, os, history, FreshSessions, TypeOK
<1>3. CASE InstallState
  BY <1>3 DEF InstallState, os, history, FreshSessions, TypeOK
<1>4. CASE StartCore
  BY <1>4 DEF StartCore, Goto, AfterCore, session, history, FreshSessions,
     TypeOK
<1>5. ASSUME NEW s \in Sessions, NoticeExit(s) PROVE EndedOnce'
  BY <1>5 DEF NoticeExit, WatchGoto, session, os, history, worker,
     FreshSessions, TypeOK
<1>6. ASSUME NEW s \in Sessions, TestStopRequested(s) PROVE EndedOnce'
  BY <1>6 DEF TestStopRequested, WatchGoto, session, os, history, worker,
     FreshSessions, TypeOK
<1>7. ASSUME NEW s \in Sessions, TakeOver(s) PROVE EndedOnce'
  BY <1>7 DEF TakeOver, WatchGoto, session, os, worker, FreshSessions, TypeOK
<1>8. ASSUME NEW s \in Sessions, WatchClean(s) PROVE EndedOnce'
  BY <1>8 DEF WatchClean, WatchGoto, RemoveTunRoutes, Undo, history, worker,
     FreshSessions, TypeOK
<1>9. ASSUME NEW s \in Sessions, WatchCleanServer(s) PROVE EndedOnce'
  BY <1>9 DEF WatchCleanServer, WatchGoto, RemoveServerRoute, Undo, session,
     history, worker, FreshSessions, TypeOK
<1>10. ASSUME NEW s \in Sessions, WatchCleanProxy(s) PROVE EndedOnce'
  BY <1>10 DEF WatchCleanProxy, WatchGoto, RestoreProxy, Undo, session, history,
     worker, FreshSessions, TypeOK
<1>11. ASSUME NEW s \in Sessions, TestPreference(s) PROVE EndedOnce'
  BY <1>11 DEF TestPreference, WatchGoto, session, os, history, worker,
     FreshSessions, TypeOK
<1>12. ASSUME NEW s \in Sessions, Engage(s) PROVE EndedOnce'
  BY <1>12 DEF Engage, WatchGoto, session, history, worker, FreshSessions,
     TypeOK
<1>13. ASSUME NEW s \in Sessions, WatchEmitState(s) PROVE EndedOnce'
  BY <1>13 DEF WatchEmitState, WatchGoto, EmitState, session, os, history,
     worker, FreshSessions, TypeOK
<1>14. ASSUME NEW s \in Sessions, EmitExit(s) PROVE EndedOnce'
  BY <1>14 DEF EmitExit, WatchGoto, session, os, worker, FreshSessions, TypeOK
<1>15. CASE UiCrash
  BY <1>15 DEF UiCrash, session, os, FreshSessions, TypeOK
<1>16. CASE CallStart \/ CallStop \/ CallSetKillswitchPreference \/
   SetPreference \/ ReadRunning \/ MarkStopping \/ StopCore \/ MarkError \/
   EmitError \/ StopFailedCore \/ WorkerClean \/ WorkerCleanServer \/
   WorkerCleanProxy \/ EmitEnd \/ Disengage \/ EmitStarting \/ StartFails \/
   CheckPrerequisites \/ StopStaleCores \/ PrepareServerRouting \/
   PrepareConfig \/ StartCoreAnswerLost \/ PrepareXrayTunRoutes \/
   CaptureProxy \/ SetProxy \/ StartSucceeds \/ EmitRunning \/ (\E s \in
   Sessions : CoreDies(s))
  BY <1>16 DEF CallStart, BeginCall, CallStop, CallSetKillswitchPreference,
     SetPreference, Goto, ReadRunning, MarkStopping, EmitState, StopCore,
     EndCore, MarkError, EmitError, StopFailedCore, WorkerClean,
     RemoveTunRoutes, Undo, WorkerCleanServer, RemoveServerRoute, WorkerCleanProxy,
     RestoreProxy, EmitEnd, Disengage, EmitStarting, StartFails,
     CheckPrerequisites, StopStaleCores, PrepareServerRouting, PrepareConfig,
     StartCoreAnswerLost, PrepareXrayTunRoutes, CaptureProxy, SetProxy,
     StartSucceeds, EmitRunning, CoreDies, session, os, history, worker
<1>17. CASE UNCHANGED vars
  BY <1>17 DEF vars, session, worker, os, history
<1> QED
  BY <1>1, <1>2, <1>3, <1>4, <1>5, <1>6, <1>7, <1>8, <1>9, <1>10, <1>11,
     <1>12, <1>13, <1>14, <1>15, <1>16, <1>17 DEF Next, Calls, WorkerStep,
     WatcherStep, Environment

(* After the worker terminated a core of its own it is gone. *)
LEMMA CoreGoneAfterKillStep == IInv /\ [Next]_vars => CoreGoneAfterKill'
<1> SUFFICES ASSUME CoreGoneAfterKill, LiveCoreIsOwned, SlotEmpty, StartOwns, TypeOK,
                    Next \/ UNCHANGED vars
             PROVE CoreGoneAfterKill'
  BY DEF IInv
<1> USE MaxStartsAssumption DEF CoreGoneAfterKill, Sessions, StartSteps,
   EndSteps, CleanupSteps, HandlingSteps, Handling
<1>1. CASE CallStart
  BY <1>1 DEF CallStart, BeginCall, session, os, LiveCoreIsOwned, SlotEmpty,
     StartOwns, TypeOK
<1>2. CASE CallStop
  BY <1>2 DEF CallStop, BeginCall, session, os, LiveCoreIsOwned, SlotEmpty,
     StartOwns, TypeOK
<1>3. CASE CallSetKillswitchPreference
  BY <1>3 DEF CallSetKillswitchPreference, BeginCall, session, os,
     LiveCoreIsOwned, SlotEmpty, StartOwns, TypeOK
<1>4. CASE SetPreference
  BY <1>4 DEF SetPreference, Goto, session, os, history, LiveCoreIsOwned,
     SlotEmpty, StartOwns, TypeOK
<1>5. CASE ReadRunning
  BY <1>5 DEF ReadRunning, Goto, session, os, history, Reported,
     LiveCoreIsOwned, SlotEmpty, StartOwns, TypeOK
<1>6. CASE TakeState
  BY <1>6 DEF TakeState, session, os, LiveCoreIsOwned, SlotEmpty, StartOwns,
     TypeOK
<1>7. CASE MarkStopping
  BY <1>7 DEF MarkStopping, Goto, EmitState, os, history, LiveCoreIsOwned,
     SlotEmpty, StartOwns, TypeOK
<1>8. CASE StopCore
  BY <1>8 DEF StopCore, Goto, EndCore, session, history, LiveCoreIsOwned,
     SlotEmpty, StartOwns, TypeOK
<1>9. CASE MarkError
  BY <1>9 DEF MarkError, os, history, LiveCoreIsOwned, SlotEmpty, StartOwns,
     TypeOK
<1>10. CASE EmitError
  BY <1>10 DEF EmitError, Goto, EmitState, session, os, history,
     LiveCoreIsOwned, SlotEmpty, StartOwns, TypeOK
<1>11. CASE StopFailedCore
  BY <1>11 DEF StopFailedCore, Goto, EndCore, history, LiveCoreIsOwned,
     SlotEmpty, StartOwns, TypeOK
<1>12. CASE WorkerClean
  BY <1>12 DEF WorkerClean, Goto, RemoveTunRoutes, Undo, history, LiveCoreIsOwned,
     SlotEmpty, StartOwns, TypeOK
<1>13. CASE WorkerCleanServer
  BY <1>13 DEF WorkerCleanServer, Goto, RemoveServerRoute, Undo, session, history,
     LiveCoreIsOwned, SlotEmpty, StartOwns, TypeOK
<1>14. CASE WorkerCleanProxy
  BY <1>14 DEF WorkerCleanProxy, Goto, RestoreProxy, Undo, session, history,
     LiveCoreIsOwned, SlotEmpty, StartOwns, TypeOK
<1>15. CASE ReleaseState
  BY <1>15 DEF ReleaseState, Goto, session, os, history, LiveCoreIsOwned,
     SlotEmpty, StartOwns, TypeOK
<1>16. CASE EmitEnd
  BY <1>16 DEF EmitEnd, Goto, EmitState, session, os, history,
     LiveCoreIsOwned, SlotEmpty, StartOwns, TypeOK
<1>17. CASE Disengage
  BY <1>17 DEF Disengage, Goto, session, LiveCoreIsOwned, SlotEmpty,
     StartOwns, TypeOK
<1>18. CASE InstallState
  BY <1>18 DEF InstallState, os, history, LiveCoreIsOwned, SlotEmpty,
     StartOwns, TypeOK
<1>19. CASE EmitStarting
  BY <1>19 DEF EmitStarting, Goto, EmitState, session, os, history,
     LiveCoreIsOwned, SlotEmpty, StartOwns, TypeOK
<1>20. CASE StartFails
  BY <1>20 DEF StartFails, Goto, session, os, history, LiveCoreIsOwned,
     SlotEmpty, StartOwns, TypeOK
<1>21. CASE CheckPrerequisites
  BY <1>21 DEF CheckPrerequisites, Goto, os, history, LiveCoreIsOwned,
     SlotEmpty, StartOwns, TypeOK
<1>22. CASE StopStaleCores
  BY <1>22 DEF StopStaleCores, Goto, session, history, LiveCoreIsOwned,
     SlotEmpty, StartOwns, TypeOK
<1>23. CASE PrepareServerRouting
  BY <1>23 DEF PrepareServerRouting, Goto, history, LiveCoreIsOwned,
     SlotEmpty, StartOwns, TypeOK
<1>24. CASE PrepareConfig
  BY <1>24 DEF PrepareConfig, Goto, session, os, history, LiveCoreIsOwned,
     SlotEmpty, StartOwns, TypeOK
<1>25. CASE StartCore
  BY <1>25 DEF StartCore, Goto, AfterCore, session, history, LiveCoreIsOwned,
     SlotEmpty, StartOwns, TypeOK
<1>26. CASE StartCoreAnswerLost
  BY <1>26 DEF StartCoreAnswerLost, Goto, session, history, LiveCoreIsOwned,
     SlotEmpty, StartOwns, TypeOK
<1>27. CASE PrepareXrayTunRoutes
  BY <1>27 DEF PrepareXrayTunRoutes, Goto, history, LiveCoreIsOwned,
     SlotEmpty, StartOwns, TypeOK
<1>28. CASE CaptureProxy
  BY <1>28 DEF CaptureProxy, Goto, os, history, LiveCoreIsOwned, SlotEmpty,
     StartOwns, TypeOK
<1>29. CASE SetProxy
  BY <1>29 DEF SetProxy, Goto, session, history, LiveCoreIsOwned, SlotEmpty,
     StartOwns, TypeOK
<1>30. CASE StartSucceeds
  BY <1>30 DEF StartSucceeds, Goto, os, history, LiveCoreIsOwned, SlotEmpty,
     StartOwns, TypeOK
<1>31. CASE EmitRunning
  BY <1>31 DEF EmitRunning, Goto, EmitState, session, os, history,
     LiveCoreIsOwned, SlotEmpty, StartOwns, TypeOK
<1>32. ASSUME NEW s \in Sessions, CoreDies(s) PROVE CoreGoneAfterKill'
  BY <1>32 DEF CoreDies, session, history, worker, LiveCoreIsOwned, SlotEmpty,
     StartOwns, TypeOK
<1>33. CASE UiCrash
  BY <1>33 DEF UiCrash, session, os, LiveCoreIsOwned, SlotEmpty, StartOwns,
     TypeOK
<1>34. CASE (\E s \in Sessions : NoticeExit(s) \/ TestStopRequested(s) \/
   TakeOver(s) \/ WatchClean(s) \/ WatchCleanServer(s) \/ WatchCleanProxy(s)
   \/ TestPreference(s) \/ Engage(s) \/ WatchEmitState(s) \/ EmitExit(s))
  BY <1>34 DEF NoticeExit, WatchGoto, TestStopRequested, TakeOver, WatchClean,
     RemoveTunRoutes, Undo, WatchCleanServer, RemoveServerRoute, WatchCleanProxy,
     RestoreProxy, TestPreference, Engage, WatchEmitState, EmitState,
     EmitExit, session, os, history, worker
<1>35. CASE UNCHANGED vars
  BY <1>35 DEF vars, session, worker, os, history
<1> QED
  BY <1>1, <1>2, <1>3, <1>4, <1>5, <1>6, <1>7, <1>8, <1>9, <1>10, <1>11,
     <1>12, <1>13, <1>14, <1>15, <1>16, <1>17, <1>18, <1>19, <1>20, <1>21,
     <1>22, <1>23, <1>24, <1>25, <1>26, <1>27, <1>28, <1>29, <1>30, <1>31,
     <1>32, <1>33, <1>34, <1>35 DEF Next, Calls, WorkerStep, WatcherStep,
     Environment

(* No core of the UI process runs without an owner. *)
LEMMA LiveCoreIsOwnedStep == IInv /\ [Next]_vars => LiveCoreIsOwned'
<1> SUFFICES ASSUME LiveCoreIsOwned, SlotEmpty, StartOwns, WatchersOfDeadCores, CoreGoneAfterKill, FreshSessions, TypeOK,
                    Next \/ UNCHANGED vars
             PROVE LiveCoreIsOwned'
  BY DEF IInv
<1> USE MaxStartsAssumption DEF LiveCoreIsOwned, Sessions, StartSteps,
   EndSteps, CleanupSteps, HandlingSteps, Handling
<1>1. CASE CallStart
  BY <1>1 DEF CallStart, BeginCall, session, os, SlotEmpty, StartOwns,
     WatchersOfDeadCores, CoreGoneAfterKill, FreshSessions, TypeOK
<1>2. CASE CallStop
  BY <1>2 DEF CallStop, BeginCall, session, os, SlotEmpty, StartOwns,
     WatchersOfDeadCores, CoreGoneAfterKill, FreshSessions, TypeOK
<1>3. CASE CallSetKillswitchPreference
  BY <1>3 DEF CallSetKillswitchPreference, BeginCall, session, os, SlotEmpty,
     StartOwns, WatchersOfDeadCores, CoreGoneAfterKill, FreshSessions, TypeOK
<1>4. CASE SetPreference
  BY <1>4 DEF SetPreference, Goto, session, os, history, SlotEmpty, StartOwns,
     WatchersOfDeadCores, CoreGoneAfterKill, FreshSessions, TypeOK
<1>5. CASE ReadRunning
  BY <1>5 DEF ReadRunning, Goto, session, os, history, Reported, SlotEmpty,
     StartOwns, WatchersOfDeadCores, CoreGoneAfterKill, FreshSessions, TypeOK
<1>6. CASE TakeState
  BY <1>6 DEF TakeState, session, os, SlotEmpty, StartOwns,
     WatchersOfDeadCores, CoreGoneAfterKill, FreshSessions, TypeOK
<1>7. CASE MarkStopping
  BY <1>7 DEF MarkStopping, Goto, EmitState, os, history, SlotEmpty,
     StartOwns, WatchersOfDeadCores, CoreGoneAfterKill, FreshSessions, TypeOK
<1>8. CASE StopCore
  <2>1. state_ = 0 /\ wses # 0
    BY <1>8 DEF StopCore, SlotEmpty, StartOwns
  <2>2. \A s \in live \ lost : s = wses \/ s \in survivors
    BY <2>1, <1>8 DEF StopCore, TypeOK
  <2>3. wses \notin live' \/ wses \in survivors'
    BY <1>8 DEF StopCore, EndCore
  <2>4. live' \subseteq live /\ survivors \subseteq survivors' /\ lost' = lost
    BY <1>8 DEF StopCore, EndCore
  <2> QED
    BY <2>2, <2>3, <2>4
<1>9. CASE MarkError
  BY <1>9 DEF MarkError, os, history, SlotEmpty, StartOwns,
     WatchersOfDeadCores, CoreGoneAfterKill, FreshSessions, TypeOK
<1>10. CASE EmitError
  BY <1>10 DEF EmitError, Goto, EmitState, session, os, history, SlotEmpty,
     StartOwns, WatchersOfDeadCores, CoreGoneAfterKill, FreshSessions, TypeOK
<1>11. CASE StopFailedCore
  BY <1>11 DEF StopFailedCore, Goto, EndCore, history, SlotEmpty, StartOwns,
     WatchersOfDeadCores, CoreGoneAfterKill, FreshSessions, TypeOK
<1>12. CASE WorkerClean
  BY <1>12 DEF WorkerClean, Goto, RemoveTunRoutes, Undo, history, SlotEmpty,
     StartOwns, WatchersOfDeadCores, CoreGoneAfterKill, FreshSessions, TypeOK
<1>13. CASE WorkerCleanServer
  BY <1>13 DEF WorkerCleanServer, Goto, RemoveServerRoute, Undo, session, history,
     SlotEmpty, StartOwns, WatchersOfDeadCores, CoreGoneAfterKill,
     FreshSessions, TypeOK
<1>14. CASE WorkerCleanProxy
  BY <1>14 DEF WorkerCleanProxy, Goto, RestoreProxy, Undo, session, history,
     SlotEmpty, StartOwns, WatchersOfDeadCores, CoreGoneAfterKill,
     FreshSessions, TypeOK
<1>15. CASE ReleaseState
  BY <1>15 DEF ReleaseState, Goto, session, os, history, SlotEmpty, StartOwns,
     WatchersOfDeadCores, CoreGoneAfterKill, FreshSessions, TypeOK
<1>16. CASE EmitEnd
  BY <1>16 DEF EmitEnd, Goto, EmitState, session, os, history, SlotEmpty,
     StartOwns, WatchersOfDeadCores, CoreGoneAfterKill, FreshSessions, TypeOK
<1>17. CASE Disengage
  BY <1>17 DEF Disengage, Goto, session, SlotEmpty, StartOwns,
     WatchersOfDeadCores, CoreGoneAfterKill, FreshSessions, TypeOK
<1>18. CASE InstallState
  BY <1>18 DEF InstallState, os, history, SlotEmpty, StartOwns,
     WatchersOfDeadCores, CoreGoneAfterKill, FreshSessions, TypeOK
<1>19. CASE EmitStarting
  BY <1>19 DEF EmitStarting, Goto, EmitState, session, os, history, SlotEmpty,
     StartOwns, WatchersOfDeadCores, CoreGoneAfterKill, FreshSessions, TypeOK
<1>20. CASE StartFails
  BY <1>20 DEF StartFails, Goto, session, os, history, SlotEmpty, StartOwns,
     WatchersOfDeadCores, CoreGoneAfterKill, FreshSessions, TypeOK
<1>21. CASE CheckPrerequisites
  BY <1>21 DEF CheckPrerequisites, Goto, os, history, SlotEmpty, StartOwns,
     WatchersOfDeadCores, CoreGoneAfterKill, FreshSessions, TypeOK
<1>22. CASE StopStaleCores
  BY <1>22 DEF StopStaleCores, Goto, session, history, SlotEmpty, StartOwns,
     WatchersOfDeadCores, CoreGoneAfterKill, FreshSessions, TypeOK
<1>23. CASE PrepareServerRouting
  BY <1>23 DEF PrepareServerRouting, Goto, history, SlotEmpty, StartOwns,
     WatchersOfDeadCores, CoreGoneAfterKill, FreshSessions, TypeOK
<1>24. CASE PrepareConfig
  BY <1>24 DEF PrepareConfig, Goto, session, os, history, SlotEmpty,
     StartOwns, WatchersOfDeadCores, CoreGoneAfterKill, FreshSessions, TypeOK
<1>25. CASE StartCore
  BY <1>25 DEF StartCore, Goto, AfterCore, session, history, SlotEmpty,
     StartOwns, WatchersOfDeadCores, CoreGoneAfterKill, FreshSessions, TypeOK
<1>26. CASE StartCoreAnswerLost
  BY <1>26 DEF StartCoreAnswerLost, Goto, session, history, SlotEmpty,
     StartOwns, WatchersOfDeadCores, CoreGoneAfterKill, FreshSessions, TypeOK
<1>27. CASE PrepareXrayTunRoutes
  BY <1>27 DEF PrepareXrayTunRoutes, Goto, history, SlotEmpty, StartOwns,
     WatchersOfDeadCores, CoreGoneAfterKill, FreshSessions, TypeOK
<1>28. CASE CaptureProxy
  BY <1>28 DEF CaptureProxy, Goto, os, history, SlotEmpty, StartOwns,
     WatchersOfDeadCores, CoreGoneAfterKill, FreshSessions, TypeOK
<1>29. CASE SetProxy
  BY <1>29 DEF SetProxy, Goto, session, history, SlotEmpty, StartOwns,
     WatchersOfDeadCores, CoreGoneAfterKill, FreshSessions, TypeOK
<1>30. CASE StartSucceeds
  BY <1>30 DEF StartSucceeds, Goto, os, history, SlotEmpty, StartOwns,
     WatchersOfDeadCores, CoreGoneAfterKill, FreshSessions, TypeOK
<1>31. CASE EmitRunning
  BY <1>31 DEF EmitRunning, Goto, EmitState, session, os, history, SlotEmpty,
     StartOwns, WatchersOfDeadCores, CoreGoneAfterKill, FreshSessions, TypeOK
<1>32. ASSUME NEW s \in Sessions, TakeOver(s) PROVE LiveCoreIsOwned'
  BY <1>32 DEF TakeOver, WatchGoto, session, os, worker, SlotEmpty, StartOwns,
     WatchersOfDeadCores, CoreGoneAfterKill, FreshSessions, TypeOK
<1>33. ASSUME NEW s \in Sessions, CoreDies(s) PROVE LiveCoreIsOwned'
  BY <1>33 DEF CoreDies, session, history, worker, SlotEmpty, StartOwns,
     WatchersOfDeadCores, CoreGoneAfterKill, FreshSessions, TypeOK
<1>34. CASE UiCrash
  BY <1>34 DEF UiCrash, session, os, SlotEmpty, StartOwns,
     WatchersOfDeadCores, CoreGoneAfterKill, FreshSessions, TypeOK
<1>35. CASE (\E s \in Sessions : NoticeExit(s) \/ TestStopRequested(s) \/
   WatchClean(s) \/ WatchCleanServer(s) \/ WatchCleanProxy(s) \/
   TestPreference(s) \/ Engage(s) \/ WatchEmitState(s) \/ EmitExit(s))
  BY <1>35 DEF NoticeExit, WatchGoto, TestStopRequested, WatchClean,
     RemoveTunRoutes, Undo, WatchCleanServer, RemoveServerRoute, WatchCleanProxy,
     RestoreProxy, TestPreference, Engage, WatchEmitState, EmitState,
     EmitExit, session, os, history, worker
<1>36. CASE UNCHANGED vars
  BY <1>36 DEF vars, session, worker, os, history
<1> QED
  BY <1>1, <1>2, <1>3, <1>4, <1>5, <1>6, <1>7, <1>8, <1>9, <1>10, <1>11,
     <1>12, <1>13, <1>14, <1>15, <1>16, <1>17, <1>18, <1>19, <1>20, <1>21,
     <1>22, <1>23, <1>24, <1>25, <1>26, <1>27, <1>28, <1>29, <1>30, <1>31,
     <1>32, <1>33, <1>34, <1>35, <1>36 DEF Next, Calls, WorkerStep,
     WatcherStep, Environment

THEOREM InvInit == Init => IInv
<1> SUFFICES ASSUME Init PROVE IInv
  OBVIOUS
<1>1. TypeOK
  BY TypeInit
<1>2. StepsOfCalls /\ SlotEmpty /\ StartOwns /\ CoreGoneAfterKill
  BY DEF Init, StepsOfCalls, SlotEmpty, StartOwns, CoreGoneAfterKill,
         StartSteps, CleanupSteps
<1>3. FreshSessions
  BY DEF Init, FreshSessions
<1>4. WatchersOfDeadCores /\ EndedOnce /\ LiveCoreIsOwned
  BY DEF Init, WatchersOfDeadCores, EndedOnce, LiveCoreIsOwned, Handling,
         HandlingSteps
<1> QED
  BY <1>1, <1>2, <1>3, <1>4 DEF IInv

THEOREM InvStep == IInv /\ [Next]_vars => IInv'
  BY TypeStep, StepsOfCallsStep, FreshSessionsStep, SlotEmptyStep,
     StartOwnsStep, WatchersOfDeadCoresStep, EndedOnceStep,
     CoreGoneAfterKillStep, LiveCoreIsOwnedStep DEF IInv

(* The inductive invariant holds in every reachable state, whatever the
   interleaving of the worker, the watchers and the deaths of cores. *)
THEOREM Invariant == Spec => []IInv
<1>1. Init => IInv
  BY InvInit
<1>2. IInv /\ [Next]_vars => IInv'
  BY InvStep
<1> QED
  BY <1>1, <1>2, PTL DEF Spec

(* No core is forgotten: one without an owner was left by a crash of the UI
   process or has outlived an attempt to end it (Start, StopInternal,
   HandleUnexpectedExit). *)
THEOREM CoresOwned == Spec => []LiveCoreIsOwned
<1>1. IInv => LiveCoreIsOwned
  BY DEF IInv
<1> QED
  BY <1>1, Invariant, PTL

(* Two cores never run at the same time, of either kind, but for those that
   have outlived an attempt to end them or a crash of the UI process. *)
THEOREM OneCore == Spec => []AtMostOneCore
<1>1. IInv => AtMostOneCore
  <2> SUFFICES ASSUME IInv, NEW s \in live \ (lost \cup survivors),
                      NEW t \in live \ (lost \cup survivors)
               PROVE s = t
    BY DEF AtMostOneCore
  <2>1. s # 0 /\ t # 0
    BY MaxStartsAssumption DEF IInv, TypeOK, Sessions
  <2>2. /\ state_ = s \/ (wses = s /\ wpc \in {"mark", "kill"})
        /\ state_ = t \/ (wses = t /\ wpc \in {"mark", "kill"})
    BY DEF IInv, LiveCoreIsOwned
  <2>3. wpc \in {"mark", "kill"} => state_ = 0
    BY DEF IInv, SlotEmpty
  <2> QED
    BY <2>1, <2>2, <2>3
<1> QED
  BY <1>1, Invariant, PTL

(* The exit of a core is never reported for a session that a stop or a later
   start has taken over: stop_requested alone could not guarantee it, the test
   of state_ under state_mutex_ does. *)
THEOREM NeverExitAndStop == Spec => []ExitXorStop
<1>1. IInv => ExitXorStop
  BY DEF IInv, EndedOnce, ExitXorStop, TypeOK
<1> QED
  BY <1>1, Invariant, PTL

(* state_ is only ever emptied by the thread that ends the session, and only
   filled when it is empty. *)
THEOREM SlotKept == Spec => SlotNeverOverwritten
<1>1. IInv /\ [Next]_vars => [state_ # 0 => state_' \in {state_, 0}]_vars
  <2> SUFFICES ASSUME SlotEmpty, Next
               PROVE state_ # 0 => state_' \in {state_, 0}
    BY DEF IInv
  <2>1. CASE InstallState
    BY <2>1 DEF InstallState, SlotEmpty
  <2>2. CASE ~InstallState /\ WorkerStep
    BY <2>2 DEF WorkerStep, SetPreference, ReadRunning, TakeState,
       MarkStopping, StopCore, MarkError, EmitError, StopFailedCore,
       WorkerClean, WorkerCleanServer, WorkerCleanProxy, ReleaseState,
       EmitEnd, Disengage, EmitStarting, StartFails, CheckPrerequisites,
       StopStaleCores, PrepareServerRouting, PrepareConfig, StartCore,
       StartCoreAnswerLost, PrepareXrayTunRoutes, CaptureProxy, SetProxy,
       StartSucceeds, EmitRunning
  <2>3. CASE Calls
    BY <2>3 DEF Calls, CallStart, CallStop, CallSetKillswitchPreference,
       BeginCall
  <2>4. ASSUME NEW s \in Sessions, WatcherStep(s)
        PROVE state_' \in {state_, 0}
    BY <2>4 DEF WatcherStep, NoticeExit, TestStopRequested, TakeOver,
       WatchClean, WatchCleanServer, WatchCleanProxy, TestPreference, Engage,
       WatchEmitState, EmitExit
  <2>5. CASE Environment
    BY <2>5 DEF Environment, UiCrash, CoreDies
  <2> QED
    BY <2>1, <2>2, <2>3, <2>4, <2>5 DEF Next
<1> QED
  BY <1>1, Invariant, PTL DEF Spec, SlotNeverOverwritten
-----------------------------------------------------------------------------
(***************************************************************************)
(* What the threads leave behind when they rest: state events, routes,     *)
(* proxy, filters and cores (StateEventFresh, CleanAtRest,                 *)
(* FiltersOnlyAfterExit, TunCoreRunsAlone), and the safety of the          *)
(* refinement of TunnelLifecycle.  The ownership of sessions and cores     *)
(* that all of it rests on is IInv, proved above.                          *)
(***************************************************************************)

(* Which call the worker is in at every step, what the last call was while *)
(* it rests, and what the preference is after a call that sets it.         *)
CallOfStep ==
  /\ wpc \in StartSteps \cup {"fail", "emitRun"} => wop = "start"
  /\ wpc \in {"take", "mark", "kill"} => wop \in {"start", "stop"}
  /\ wpc \in CleanupSteps \cup {"emitEnd"} => wop \in {"start", "stop", "failed"}
  /\ wpc = "disengage" =>
       \/ wop \in {"start", "prefOn", "prefOff"}
       \/ wop = "stop" /\ state_ = 0
  /\ wpc = "idle" /\ state_ # 0 => wop \in {"start", "prefOn", "prefOff"}
  /\ wop \in {"prefOn", "prefOff"} /\ wpc # "prefSet" => pref = (wop = "prefOn")

(* If no exit was handled during a call, a watcher that handles one is     *)
(* alone: no session is up and the worker rests.                           *)
HandlerAlone ==
  ~overlap =>
    /\ \A s \in Handling : /\ wpc = "idle" /\ state_ = 0
                           /\ wop \in {"start", "prefOn", "prefOff"}
                           /\ watch[s] = "engage" => pref
    /\ \A s, t \in Handling : s = t
    /\ wpc \in StartSteps \cup {"fail", "failEmit", "failKill", "emitRun"}
         => state_ = wses

(* The state event is outdated only while some thread is still to send one.*)
EventPending ==
  \/ lastState = Reported
  \/ wpc \in StartSteps \cup EndSteps \cup {"install", "emitRun"}
  \/ \E s \in Sessions : watch[s] \in HandlingSteps \ {"emitExit"}

(* Filters are there only while no session is up: after an exit with the   *)
(* preference on, after a crash, or until the next call removes them.      *)
FiltersOK ==
  filters /\ ~overlap /\ ~disFailed =>
    /\ state_ = 0
    /\ \/ wpc = "idle" /\ wop \in {"start", "prefOn"} /\ pref
       \/ wpc = "idle" /\ wop = "none" /\ crashes > 0
       \/ /\ wpc \in {"take", "emitEnd", "disengage", "prefSet", "prefRead"}
          /\ wop # "failed"

(* Start works for the last session, and from the sweep on no older core   *)
(* of its binary runs, except one that an attempt to end it has left.      *)
Swept ==
  /\ wpc \in StartSteps => wses = made
  /\ wpc \in {"route", "prepare", "core"} /\ IsTun(kind[wses]) =>
       \A c \in live : CoreOf(kind[c]) = CoreOf(kind[wses]) => c \in survivors
  /\ TunCoreRunsAlone

(* The session whose changes to the system nobody has begun to undo.       *)
Holds(o) ==
  \/ /\ state_ = o
     /\ ~(wop = "failed" /\ wpc \in {"cleanServer", "cleanProxy", "release"})
  \/ wses = o /\ wpc \in {"mark", "kill", "clean"}
  \/ watch[o] = "clean"
Busy(o) ==
  \/ state_ = o
  \/ wses = o /\ wpc \in {"mark", "kill"} \cup CleanupSteps
  \/ o \in Handling
Undoing(o, steps) == (wses = o /\ wpc \in steps) \/ watch[o] \in steps

(* Nothing of a session to come is set, and cleaned not before the cleanup.*)
Untouched ==
  /\ \A s \in Sessions : s > made =>
       ~cleaned[s] /\ ~tun[s] /\ srv[s] = "none" /\ snap[s] = "none"
  /\ ~overlap => \A s \in Sessions : Holds(s) => ~cleaned[s]
  /\ wpc \in {"emitStart", "prereq", "sweep", "route"} => srv[wses] = "none"
  /\ wpc \in StartSteps \ {"proxySet", "commit"} => snap[wses] = "none"

(* What was changed in the system belongs to a session that is still to    *)
(* undo it, unless a failure has left it; and without such a failure, what *)
(* was captured is the setting of the user.                                *)
TunOwned ==
  "tun" \in routes =>
    "tun" \in leftover \/ \E o \in Sessions : tun[o] /\ Holds(o)
ServerOwned ==
  "server" \in routes =>
    \/ "server" \in leftover
    \/ \E o \in Sessions :
         \/ srv[o] = "replaced"
         \/ srv[o] = "created" /\ (Holds(o) \/ Undoing(o, {"cleanServer"}))
ProxyOwned ==
  \/ "proxy" \in leftover
  \/ /\ proxy = "core" =>
           \E o \in Sessions :
             /\ snap[o] = "user"
             /\ Holds(o) \/ Undoing(o, {"cleanServer", "cleanProxy"})
     /\ \A s \in Sessions : snap[s] # "core"
     /\ wpc = "proxySet" => snap[wses] = "user"
ChangesOwned ==
  ~overlap /\ crashes = 0 => TunOwned /\ ServerOwned /\ ProxyOwned

RestInv ==
  /\ CallOfStep /\ HandlerAlone /\ EventPending /\ FiltersOK /\ Swept
  /\ Untouched /\ ChangesOwned

(* What has outlived an attempt to end or undo it stays recorded. *)
LEMMA FailuresKept ==
  ASSUME [Next]_vars
  PROVE  survivors \subseteq survivors' /\ leftover \subseteq leftover'
<1>1. CASE Calls
  BY <1>1 DEF Calls, CallStart, CallStop, CallSetKillswitchPreference,
     BeginCall
<1>2. CASE WorkerStep
  BY <1>2 DEF WorkerStep, SetPreference, ReadRunning, TakeState,
     MarkStopping, StopCore, MarkError, EmitError, StopFailedCore,
     WorkerClean, WorkerCleanServer, WorkerCleanProxy, ReleaseState,
     EmitEnd, Disengage, InstallState, EmitStarting, StartFails,
     CheckPrerequisites, StopStaleCores, PrepareServerRouting,
     PrepareConfig, StartCore, StartCoreAnswerLost, PrepareXrayTunRoutes,
     CaptureProxy, SetProxy, StartSucceeds, EmitRunning, Goto, EmitState,
     EndCore, RemoveTunRoutes, Undo, RemoveServerRoute, RestoreProxy,
     AfterCore, session, os, history
<1>3. ASSUME NEW s \in Sessions, WatcherStep(s)
      PROVE  survivors \subseteq survivors' /\ leftover \subseteq leftover'
  BY <1>3 DEF WatcherStep, NoticeExit, TestStopRequested, TakeOver, WatchClean,
     WatchCleanServer, WatchCleanProxy, TestPreference, Engage,
     WatchEmitState, EmitExit, WatchGoto, EmitState, RemoveTunRoutes, Undo,
     RemoveServerRoute, RestoreProxy, history
<1>4. CASE Environment \/ UNCHANGED vars
  BY <1>4 DEF Environment, UiCrash, CoreDies, vars, history
<1> QED
  BY <1>1, <1>2, <1>3, <1>4 DEF Next

(* What the steps of a watcher leave alone. *)
LEMMA WatcherFrame ==
  ASSUME TypeOK, NEW s \in Sessions, WatcherStep(s)
  PROVE  /\ UNCHANGED <<worker, pref, made, kind, svc, phase, stopReq, srv, tun, snap,
                       live, disFailed, crashes>>
         /\ \A t \in Sessions \ {s} : watch'[t] = watch[t]
<1>1. UNCHANGED <<worker, pref, made, kind, svc, phase, stopReq, srv, tun, snap,
                  live, disFailed, crashes>>
  BY DEF WatcherStep, NoticeExit, TestStopRequested, TakeOver, WatchClean,
     WatchCleanServer, WatchCleanProxy, TestPreference, Engage,
     WatchEmitState, EmitExit, WatchGoto, EmitState, RemoveTunRoutes, Undo,
     RemoveServerRoute, RestoreProxy, session, worker, os, history
<1>2. \E p : watch' = [watch EXCEPT ![s] = p]
  BY DEF WatcherStep, NoticeExit, TestStopRequested, TakeOver, WatchClean,
     WatchCleanServer, WatchCleanProxy, TestPreference, Engage,
     WatchEmitState, EmitExit, WatchGoto, EmitState, RemoveTunRoutes, Undo,
     RemoveServerRoute, RestoreProxy, session, worker, os, history
<1> QED
  BY <1>1, <1>2 DEF TypeOK

LEMMA CallOfStepStep ==
  ASSUME CallOfStep, IInv, [Next]_vars
  PROVE  CallOfStep'
<1>1. StartOwns /\ SlotEmpty /\ StepsOfCalls /\ TypeOK
  BY DEF IInv
<1> USE <1>1 DEF CallOfStep, StartSteps, EndSteps, CleanupSteps
<1>2. CASE Calls
  BY <1>2 DEF Calls, CallStart, CallStop, CallSetKillswitchPreference,
     BeginCall, session, os
<1>3. CASE WorkerStep
  BY <1>3 DEF WorkerStep, SetPreference, ReadRunning, TakeState, MarkStopping,
     StopCore, MarkError, EmitError, StopFailedCore, WorkerClean,
     WorkerCleanServer, WorkerCleanProxy, ReleaseState, EmitEnd, Disengage,
     InstallState, EmitStarting, StartFails, CheckPrerequisites,
     StopStaleCores, PrepareServerRouting, PrepareConfig, StartCore,
     StartCoreAnswerLost, PrepareXrayTunRoutes, CaptureProxy, SetProxy,
     StartSucceeds, EmitRunning, Goto, EmitState, EndCore, RemoveTunRoutes, Undo,
     RemoveServerRoute, RestoreProxy, AfterCore, session, os, history,
     StartOwns, SlotEmpty, StepsOfCalls
<1>4. ASSUME NEW s \in Sessions, WatcherStep(s)
      PROVE  CallOfStep'
  BY <1>4 DEF WatcherStep, NoticeExit, TestStopRequested, TakeOver,
     WatchClean, WatchCleanServer, WatchCleanProxy, TestPreference, Engage,
     WatchEmitState, EmitExit, WatchGoto, EmitState, RemoveTunRoutes, Undo,
     RemoveServerRoute, RestoreProxy, session, worker, os, history, SlotEmpty
<1>5. CASE Environment
  BY <1>5 DEF Environment, UiCrash, CoreDies, session, worker, history
<1>6. CASE UNCHANGED vars
  BY <1>6 DEF vars, worker
<1> QED
  BY <1>2, <1>3, <1>4, <1>5, <1>6 DEF Next

LEMMA HandlerAloneStep ==
  ASSUME HandlerAlone, CallOfStep, IInv, [Next]_vars
  PROVE  HandlerAlone'
<1>1. StartOwns /\ SlotEmpty /\ TypeOK
  BY DEF IInv
<1> USE <1>1 DEF HandlerAlone, Handling, HandlingSteps, StartSteps
<1>2. CASE Calls
  BY <1>2 DEF Calls, CallStart, CallStop, CallSetKillswitchPreference,
     BeginCall, session, os
<1>3. CASE WorkerStep
  <2>1. CASE StartCore
    <3>1. /\ wses \in Sessions /\ wpc = "core" /\ overlap' = overlap
          /\ wpc' # "idle" /\ wpc' \in StartSteps /\ state_' = state_ /\ wses' = wses
          /\ pref' = pref /\ watch' = [watch EXCEPT ![wses] = "poll"]
      BY <2>1 DEF StartCore, AfterCore, Goto, session, history, StartOwns, TypeOK, Sessions
    <3>2. \A s \in Sessions : watch'[s] \in HandlingSteps => watch[s] \in HandlingSteps
      BY <3>1 DEF TypeOK
    <3> QED
      BY <3>1, <3>2
  <2>2. CASE WorkerStep /\ ~StartCore
    <3>1. watch' = watch /\ overlap' = overlap /\ wpc # "idle"
      BY <2>2 DEF WorkerStep, SetPreference, ReadRunning, TakeState,
         MarkStopping, StopCore, MarkError, EmitError, StopFailedCore,
         WorkerClean, WorkerCleanServer, WorkerCleanProxy, ReleaseState,
         EmitEnd, Disengage, InstallState, EmitStarting, StartFails,
         CheckPrerequisites, StopStaleCores, PrepareServerRouting,
         PrepareConfig, StartCoreAnswerLost, PrepareXrayTunRoutes,
         CaptureProxy, SetProxy, StartSucceeds, EmitRunning, Goto, EmitState,
         EndCore, RemoveTunRoutes, Undo, RemoveServerRoute, RestoreProxy, session,
         os, history
    <3>2. wpc' \in StartSteps \cup {"fail", "failEmit", "failKill", "emitRun"} /\ ~overlap
            => state_' = wses'
      BY <2>2 DEF WorkerStep, SetPreference, ReadRunning, TakeState,
         MarkStopping, StopCore, MarkError, EmitError, StopFailedCore,
         WorkerClean, WorkerCleanServer, WorkerCleanProxy, ReleaseState,
         EmitEnd, Disengage, InstallState, EmitStarting, StartFails,
         CheckPrerequisites, StopStaleCores, PrepareServerRouting,
         PrepareConfig, StartCoreAnswerLost, PrepareXrayTunRoutes,
         CaptureProxy, SetProxy, StartSucceeds, EmitRunning, Goto, EmitState,
         EndCore, RemoveTunRoutes, Undo, RemoveServerRoute, RestoreProxy, session,
         os, history, StartOwns
    <3> QED
      BY <3>1, <3>2
  <2> QED
    BY <1>3, <2>1, <2>2
<1>4. ASSUME NEW s \in Sessions, WatcherStep(s)
      PROVE  HandlerAlone'
  <2>1. /\ \A t \in Sessions \ {s} : watch'[t] = watch[t]
        /\ UNCHANGED <<worker, pref>>
    BY <1>4, WatcherFrame
  <2>2. CASE TakeOver(s)
    <3>1. watch[s] = "lock" /\ watch'[s] = IF state_ = s THEN "clean" ELSE "done"
      BY <2>2 DEF TakeOver, WatchGoto, TypeOK
    <3>2. s # 0
      BY MaxStartsAssumption DEF Sessions
    <3>3. CASE state_ = s
      <4>1. state_' = 0 /\ overlap' = (overlap \/ wpc # "idle")
        BY <2>2, <3>3 DEF TakeOver
      <4>2. ~overlap' => ~overlap /\ wpc = "idle"
        BY <4>1
      <4>3. ~overlap' => \A t \in Sessions : watch'[t] \in HandlingSteps => t = s
        BY <2>1, <3>2, <3>1, <3>3, <4>2
      <4>4. ~overlap' => wpc = "idle" /\ wop \in {"start", "prefOn", "prefOff"}
        BY <3>2, <3>3, <4>2 DEF CallOfStep
      <4> QED
        BY <2>1, <3>1, <3>3, <4>1, <4>3, <4>4 DEF worker
    <3>4. CASE state_ # s
      <4>1. UNCHANGED <<state_, overlap>>
        BY <2>2, <3>4 DEF TakeOver
      <4>2. \A t \in Sessions : watch'[t] \in HandlingSteps => watch'[t] = watch[t]
        BY <2>1, <3>1, <3>4
      <4> QED
        BY <2>1, <4>1, <4>2 DEF worker
    <3> QED
      BY <3>3, <3>4
  <2>3. CASE WatcherStep(s) /\ ~TakeOver(s)
    <3>1. /\ UNCHANGED <<state_, overlap>>
          /\ watch'[s] \in HandlingSteps => watch[s] \in HandlingSteps
          /\ watch'[s] = "engage" => pref
      BY <2>3 DEF WatcherStep, NoticeExit, TestStopRequested, WatchClean,
         WatchCleanServer, WatchCleanProxy, TestPreference, Engage,
         WatchEmitState, EmitExit, WatchGoto, EmitState, RemoveTunRoutes, Undo,
         RemoveServerRoute, RestoreProxy, session, worker, os, history, TypeOK
    <3>2. \A t \in Sessions : /\ watch'[t] \in HandlingSteps => watch[t] \in HandlingSteps
                             /\ watch'[t] = "engage" => watch[t] = "engage" \/ pref
      BY <2>1, <3>1
    <3> QED
      BY <2>1, <3>1, <3>2 DEF worker
  <2> QED
    BY <1>4, <2>2, <2>3
<1>5. CASE Environment
  BY <1>5 DEF Environment, UiCrash, CoreDies, session, worker, history
<1>6. CASE UNCHANGED vars
  BY <1>6 DEF vars, worker, history
<1> QED
  BY <1>2, <1>3, <1>4, <1>5, <1>6 DEF Next

LEMMA EventPendingStep ==
  ASSUME EventPending, IInv, [Next]_vars
  PROVE  EventPending'
<1>1. StartOwns /\ SlotEmpty /\ TypeOK
  BY DEF IInv
<1> USE <1>1 DEF EventPending, HandlingSteps, StartSteps, EndSteps, Reported
<1>2. CASE Calls
  BY <1>2 DEF Calls, CallStart, CallStop, CallSetKillswitchPreference,
     BeginCall, session, os
<1>3. CASE WorkerStep
  BY <1>3 DEF WorkerStep, SetPreference, ReadRunning, TakeState, MarkStopping,
     StopCore, MarkError, EmitError, StopFailedCore, WorkerClean,
     WorkerCleanServer, WorkerCleanProxy, ReleaseState, EmitEnd, Disengage,
     InstallState, EmitStarting, StartFails, CheckPrerequisites,
     StopStaleCores, PrepareServerRouting, PrepareConfig, StartCore,
     StartCoreAnswerLost, PrepareXrayTunRoutes, CaptureProxy, SetProxy,
     StartSucceeds, EmitRunning, Goto, EmitState, EndCore, RemoveTunRoutes, Undo,
     RemoveServerRoute, RestoreProxy, AfterCore, session, os, history,
     StartOwns, SlotEmpty, CleanupSteps
<1>4. ASSUME NEW s \in Sessions, WatcherStep(s)
      PROVE  EventPending'
  <2>1. CASE WatchEmitState(s)
    BY <2>1 DEF WatchEmitState, WatchGoto, EmitState, session
  <2>2. CASE TakeOver(s) /\ state_ = s
    BY <2>2 DEF TakeOver, WatchGoto, TypeOK
  <2>3. CASE WatcherStep(s) /\ ~WatchEmitState(s) /\ ~(TakeOver(s) /\ state_ = s)
    <3>1. UNCHANGED <<lastState, state_, phase, wpc>>
      BY <2>3 DEF WatcherStep, NoticeExit, TestStopRequested, TakeOver,
         WatchClean, WatchCleanServer, WatchCleanProxy, TestPreference,
         Engage, EmitExit, WatchGoto, RemoveTunRoutes, Undo, RemoveServerRoute,
         RestoreProxy, session, worker, os, history
    <3>2. \A t \in Sessions : watch[t] \in HandlingSteps \ {"emitExit"}
                               => watch'[t] \in HandlingSteps \ {"emitExit"}
      <4>1. /\ watch[s] \in HandlingSteps \ {"emitExit"}
                 => watch'[s] \in HandlingSteps \ {"emitExit"}
            /\ \A t \in Sessions \ {s} : watch'[t] = watch[t]
        <5>1. \A t \in Sessions \ {s} : watch'[t] = watch[t]
          BY <1>4, WatcherFrame
        <5> QED
          BY <2>3, <5>1 DEF WatcherStep, NoticeExit, TestStopRequested,
             TakeOver, WatchClean, WatchCleanServer, WatchCleanProxy,
             TestPreference, Engage, EmitExit, WatchGoto, RemoveTunRoutes, Undo,
             RemoveServerRoute, RestoreProxy, session, worker, os, history,
             TypeOK
      <4> QED
        BY <4>1
    <3> QED
      BY <3>1, <3>2
  <2> QED
    BY <1>4, <2>1, <2>2, <2>3
<1>5. CASE Environment
  BY <1>5 DEF Environment, UiCrash, CoreDies, session, worker, history
<1>6. CASE UNCHANGED vars
  BY <1>6 DEF vars, worker, session
<1> QED
  BY <1>2, <1>3, <1>4, <1>5, <1>6 DEF Next

LEMMA FiltersOKStep ==
  ASSUME FiltersOK, CallOfStep, HandlerAlone, IInv, [Next]_vars
  PROVE  FiltersOK'
<1>1. StartOwns /\ SlotEmpty /\ TypeOK
  BY DEF IInv
<1> USE <1>1 DEF FiltersOK
<1>2. CASE Calls
  BY <1>2 DEF Calls, CallStart, CallStop, CallSetKillswitchPreference,
     BeginCall, session, os
<1>3. CASE WorkerStep
  BY <1>3 DEF WorkerStep, SetPreference, ReadRunning, TakeState, MarkStopping,
     StopCore, MarkError, EmitError, StopFailedCore, WorkerClean,
     WorkerCleanServer, WorkerCleanProxy, ReleaseState, EmitEnd, Disengage,
     InstallState, EmitStarting, StartFails, CheckPrerequisites,
     StopStaleCores, PrepareServerRouting, PrepareConfig, StartCore,
     StartCoreAnswerLost, PrepareXrayTunRoutes, CaptureProxy, SetProxy,
     StartSucceeds, EmitRunning, Goto, EmitState, EndCore, RemoveTunRoutes, Undo,
     RemoveServerRoute, RestoreProxy, AfterCore, session, os, history, TypeOK,
     CallOfStep, CleanupSteps, StartSteps, Reported
<1>4. ASSUME NEW s \in Sessions, WatcherStep(s)
      PROVE  FiltersOK'
  <2>1. CASE Engage(s)
    BY <2>1 DEF Engage, WatchGoto, session, worker, history, HandlerAlone, Handling,
       HandlingSteps, CallOfStep
  <2>2. CASE WatcherStep(s) /\ ~Engage(s)
    <3>1. /\ UNCHANGED <<filters, worker, pref, disFailed, crashes>>
          /\ overlap' = overlap \/ overlap' = (overlap \/ wpc # "idle")
          /\ state_' = state_ \/ state_' = 0
      BY <2>2 DEF WatcherStep, NoticeExit, TestStopRequested, TakeOver,
         WatchClean, WatchCleanServer, WatchCleanProxy, TestPreference,
         WatchEmitState, EmitExit, WatchGoto, EmitState, RemoveTunRoutes, Undo,
         RemoveServerRoute, RestoreProxy, session, worker, os, history
    <3>2. ~overlap' => ~overlap
      BY <3>1
    <3>3. /\ ~disFailed' => ~disFailed
          /\ filters' => filters
          /\ state_ = 0 => state_' = 0
      BY <3>1
    <3> QED
      BY <3>1, <3>2, <3>3 DEF worker
  <2> QED
    BY <1>4, <2>1, <2>2
<1>5. CASE UiCrash
  <2>1. crashes' > 0
    BY <1>5, MaxCrashesAssumption DEF UiCrash, TypeOK
  <2>2. state_' = 0 /\ wpc' = "idle" /\ wop' = "none"
    BY <1>5 DEF UiCrash
  <2> QED
    BY <2>1, <2>2
<1>6. CASE \E s \in Sessions : CoreDies(s)
  BY <1>6 DEF CoreDies, session, worker, history
<1>7. CASE UNCHANGED vars
  BY <1>7 DEF vars, worker, history, os
<1> QED
  BY <1>2, <1>3, <1>4, <1>5, <1>7, <1>6 DEF Next, Environment
LEMMA SweptStep ==
  ASSUME Swept, IInv, [Next]_vars
  PROVE  Swept'
<1>1. StartOwns /\ TypeOK /\ FreshSessions /\ StepsOfCalls
  BY DEF IInv
<1>2. \A c \in live : c \in Sessions /\ c <= made
  BY <1>1 DEF FreshSessions, TypeOK, Sessions
<1> USE <1>1, FailuresKept
<1>3. (wpc \in StartSteps => wses = made)'
  <2>1. CASE InstallState
    BY <2>1 DEF InstallState
  <2>2. CASE WorkerStep /\ ~InstallState
    BY <2>2 DEF WorkerStep, SetPreference, ReadRunning, TakeState,
       MarkStopping, StopCore, MarkError, EmitError, StopFailedCore,
       WorkerClean, WorkerCleanServer, WorkerCleanProxy, ReleaseState,
       EmitEnd, Disengage, EmitStarting, StartFails, CheckPrerequisites,
       StopStaleCores, PrepareServerRouting, PrepareConfig, StartCore,
       StartCoreAnswerLost, PrepareXrayTunRoutes, CaptureProxy, SetProxy,
       StartSucceeds, EmitRunning, Goto, EmitState, EndCore, RemoveTunRoutes, Undo,
       RemoveServerRoute, RestoreProxy, AfterCore, session, os, history,
       Swept, StartSteps
  <2>3. CASE Calls
    BY <2>3 DEF Calls, CallStart, CallStop, CallSetKillswitchPreference,
       BeginCall, session, os, StartSteps
  <2>4. ASSUME NEW s \in Sessions, WatcherStep(s)
        PROVE  (wpc \in StartSteps => wses = made)'
    BY <2>4, WatcherFrame DEF Swept, worker
  <2>5. CASE Environment \/ UNCHANGED vars
    BY <2>5 DEF Environment, UiCrash, CoreDies, vars, session, worker, Swept, StartSteps
  <2> QED
    BY <2>1, <2>2, <2>3, <2>4, <2>5 DEF Next
<1>4. CASE StartCore \/ StartCoreAnswerLost
  <2>1. /\ wpc = "core" /\ wses \in Sessions /\ wses = made
        /\ live' \subseteq live \cup {wses}
        /\ UNCHANGED <<kind, svc>>
        /\ wpc' \notin {"route", "prepare", "core"}
    BY <1>4 DEF StartCore, StartCoreAnswerLost, AfterCore, Goto, session, StartOwns,
       StartSteps, Swept, TypeOK, Sessions
  <2>2. \A c \in live : IsTun(kind[wses]) /\ CoreOf(kind[c]) = CoreOf(kind[wses]) => c \in survivors
    BY <2>1 DEF Swept
  <2>3. ASSUME NEW s \in live', NEW t \in live', s < t, IsTun(kind[t]),
               CoreOf(kind[s]) = CoreOf(kind[t])
        PROVE  s \in survivors
    <3>1. CASE t = wses
      BY <3>1, <2>1, <2>2, <2>3, <1>2 DEF Sessions
    <3>2. CASE t # wses
      <4>1. t \in live /\ s # wses
        BY <3>2, <2>1, <2>3, <1>2 DEF Sessions, TypeOK
      <4> QED
        BY <4>1, <2>1, <2>3 DEF Swept, TunCoreRunsAlone
    <3> QED
      BY <3>1, <3>2
  <2> QED
    BY <1>3, <2>1, <2>3 DEF Swept, TunCoreRunsAlone
<1>5. CASE InstallState
  <2>1. /\ live' = live /\ svc' = svc /\ wpc' = "emitStart"
        /\ \E k \in Kinds : kind' = [kind EXCEPT ![made + 1] = k]
    BY <1>5 DEF InstallState, os
  <2>2. \A c \in live : c # made + 1
    BY <1>2 DEF TypeOK, Sessions
  <2>3. \A c \in live : kind'[c] = kind[c]
    BY <2>1, <2>2, <1>2 DEF TypeOK
  <2>4. TunCoreRunsAlone'
    BY <2>1, <2>3 DEF Swept, TunCoreRunsAlone
  <2> QED
    BY <1>3, <2>1, <2>4 DEF Swept
<1>6. CASE CheckPrerequisites
  <2>1. /\ live' = live /\ kind' = kind /\ wses' = wses
        /\ \A c \in live : svc'[c] = svc[c]
        /\ wpc' \in {"route", "prepare", "core"} => ~IsTun(kind[wses])
    BY <1>6 DEF CheckPrerequisites, Goto, os, TypeOK, StartOwns
  <2> QED
    BY <1>3, <2>1 DEF Swept, TunCoreRunsAlone
<1>7. CASE StopStaleCores
  <2>1. live' \subseteq live /\ UNCHANGED <<kind, svc, wses>>
    BY <1>7 DEF StopStaleCores, Goto, session
  <2>2. \A c \in live' : CoreOf(kind[c]) = CoreOf(kind[wses]) => c \in survivors'
    BY <1>7 DEF StopStaleCores
  <2> QED
    BY <1>3, <2>1, <2>2 DEF Swept, TunCoreRunsAlone
<1>8. CASE WorkerStep /\ ~StartCore /\ ~StartCoreAnswerLost /\ ~InstallState
           /\ ~CheckPrerequisites /\ ~StopStaleCores
  <2>1. /\ live' \subseteq live /\ UNCHANGED <<kind, svc>>
        /\ wpc' \in {"route", "prepare", "core"}
             => wpc \in {"route", "prepare", "core"} /\ wses' = wses
    BY <1>8 DEF WorkerStep, SetPreference, ReadRunning, TakeState,
       MarkStopping, StopCore, MarkError, EmitError, StopFailedCore,
       WorkerClean, WorkerCleanServer, WorkerCleanProxy, ReleaseState,
       EmitEnd, Disengage, EmitStarting, StartFails, PrepareServerRouting,
       PrepareConfig, PrepareXrayTunRoutes, CaptureProxy, SetProxy,
       StartSucceeds, EmitRunning, Goto, EmitState, EndCore, RemoveTunRoutes, Undo,
       RemoveServerRoute, RestoreProxy, session, os, history
  <2> QED
    BY <1>3, <2>1 DEF Swept, TunCoreRunsAlone
<1>9. CASE Calls
  <2>1. UNCHANGED <<live, kind, svc>> /\ wpc' \in {"take", "prefSet"}
    BY <1>9 DEF Calls, CallStart, CallStop, CallSetKillswitchPreference,
       BeginCall, session, os
  <2> QED
    BY <1>3, <2>1 DEF Swept, TunCoreRunsAlone
<1>10. ASSUME NEW s \in Sessions, WatcherStep(s)
       PROVE  Swept'
  BY <1>3, <1>10, WatcherFrame DEF Swept, TunCoreRunsAlone, worker
<1>11. CASE Environment \/ UNCHANGED vars
  <2>1. /\ live' \subseteq live /\ UNCHANGED <<kind, svc>>
        /\ UNCHANGED worker \/ wpc' = "idle"
    BY <1>11 DEF Environment, UiCrash, CoreDies, vars, session, os
  <2> QED
    BY <1>3, <2>1 DEF Swept, TunCoreRunsAlone, worker
<1> QED
  BY <1>4, <1>5, <1>6, <1>7, <1>8, <1>9, <1>10, <1>11 DEF Next

(* No two sessions are being ended or up at the same time, if no exit was  *)
(* handled during a call.                                                  *)
LEMMA OneBusy ==
  ASSUME IInv, HandlerAlone, ~overlap, NEW o \in Sessions, NEW p \in Sessions,
         Busy(o), Busy(p)
  PROVE  o = p
<1>1. o # 0 /\ p # 0
  BY MaxStartsAssumption DEF Sessions
<1> QED
  BY <1>1 DEF IInv, HandlerAlone, Busy, SlotEmpty, StartOwns, CleanupSteps

LEMMA HoldsBusy ==
  ASSUME NEW o \in Sessions
  PROVE  /\ Holds(o) => Busy(o)
         /\ Undoing(o, {"cleanServer"}) => Undoing(o, {"cleanServer", "cleanProxy"})
         /\ Undoing(o, {"cleanServer", "cleanProxy"}) => Busy(o)
  BY DEF Holds, Undoing, Busy, Handling, HandlingSteps, CleanupSteps

(* Overlaps and crashes are counted for ever.                              *)
LEMMA HistoryKept ==
  ASSUME TypeOK, [Next]_vars
  PROVE  /\ ~overlap' => ~overlap
         /\ crashes' = 0 => crashes = 0 /\ ~UiCrash
<1>1. crashes' = 0 => ~UiCrash
  BY MaxCrashesAssumption DEF UiCrash, TypeOK
<1>2. CASE Calls
  <2>1. crashes' = crashes /\ (~overlap' => ~overlap)
    BY <1>2 DEF Calls, CallStart, CallStop, CallSetKillswitchPreference,
       BeginCall, session, os
  <2> QED
    BY <1>1, <2>1
<1>3. CASE WorkerStep
  <2>1. crashes' = crashes /\ overlap' = overlap
    BY <1>3 DEF WorkerStep, SetPreference, ReadRunning, TakeState,
       MarkStopping, StopCore, MarkError, EmitError, StopFailedCore,
       WorkerClean, WorkerCleanServer, WorkerCleanProxy, ReleaseState,
       EmitEnd, Disengage, InstallState, EmitStarting, StartFails,
       CheckPrerequisites, StopStaleCores, PrepareServerRouting,
       PrepareConfig, StartCore, StartCoreAnswerLost, PrepareXrayTunRoutes,
       CaptureProxy, SetProxy, StartSucceeds, EmitRunning, Goto, EmitState,
       EndCore, RemoveTunRoutes, Undo, RemoveServerRoute, RestoreProxy, AfterCore,
       session, os, history
  <2> QED
    BY <1>1, <2>1
<1>4. ASSUME NEW s \in Sessions, WatcherStep(s)
      PROVE  (~overlap' => ~overlap) /\ crashes' = crashes
  <2>1. CASE TakeOver(s)
    BY <2>1 DEF TakeOver
  <2>2. CASE WatcherStep(s) /\ ~TakeOver(s)
    <3>1. UNCHANGED <<overlap, crashes>>
      BY <2>2 DEF WatcherStep, NoticeExit, TestStopRequested, WatchClean,
         WatchCleanServer, WatchCleanProxy, TestPreference, Engage,
         WatchEmitState, EmitExit, WatchGoto, EmitState, RemoveTunRoutes, Undo,
         RemoveServerRoute, RestoreProxy, session, worker, os, history
    <3> QED
      BY <3>1
  <2> QED
    BY <1>4, <2>1, <2>2
<1>5. CASE UiCrash
  BY <1>1, <1>5 DEF UiCrash
<1>6. CASE (\E s \in Sessions : CoreDies(s)) \/ UNCHANGED vars
  <2>1. crashes' = crashes /\ overlap' = overlap
    BY <1>6 DEF CoreDies, vars, history
  <2> QED
    BY <1>1, <2>1
<1> QED
  BY <1>1, <1>2, <1>3, <1>4, <1>5, <1>6 DEF Next, Environment

(* Who holds a session keeps it, until the cleanup of the session begins.  *)
LEMMA HoldsStep ==
  ASSUME IInv, CallOfStep, HandlerAlone, ~overlap, ~overlap', Next, ~UiCrash,
         NEW o \in Sessions, Holds(o), ~(WorkerClean /\ wses = o), ~WatchClean(o)
  PROVE  Holds(o)'
<1>1. StartOwns /\ SlotEmpty /\ TypeOK /\ StepsOfCalls
  BY DEF IInv
<1>2. o # 0
  BY MaxStartsAssumption DEF Sessions
<1> USE <1>1, <1>2 DEF Holds
<1>3. CASE Calls
  BY <1>3 DEF Calls, CallStart, CallStop, CallSetKillswitchPreference,
     BeginCall, session, os
<1>4. CASE WorkerStep
  <2>1. CASE StartCore
    BY <2>1 DEF StartCore, AfterCore, Goto, session, StartOwns, TypeOK, StartSteps
  <2>2. CASE WorkerStep /\ ~StartCore
    <3>1. watch' = watch
      BY <2>2 DEF WorkerStep, SetPreference, ReadRunning, TakeState,
         MarkStopping, StopCore, MarkError, EmitError, StopFailedCore,
         WorkerClean, WorkerCleanServer, WorkerCleanProxy, ReleaseState,
         EmitEnd, Disengage, InstallState, EmitStarting, StartFails,
         CheckPrerequisites, StopStaleCores, PrepareServerRouting,
         PrepareConfig, StartCoreAnswerLost, PrepareXrayTunRoutes,
         CaptureProxy, SetProxy, StartSucceeds, EmitRunning, Goto, EmitState,
         EndCore, RemoveTunRoutes, Undo, RemoveServerRoute, RestoreProxy, session,
         os, history
    <3>2. CASE state_ = o /\ wop = "failed"
      BY <2>2, <3>2, <3>1 DEF WorkerStep, SetPreference, ReadRunning,
         TakeState, MarkStopping, StopCore, MarkError, EmitError,
         StopFailedCore, WorkerClean, WorkerCleanServer, WorkerCleanProxy,
         ReleaseState, EmitEnd, Disengage, InstallState, EmitStarting,
         StartFails, CheckPrerequisites, StopStaleCores, PrepareServerRouting,
         PrepareConfig, StartCoreAnswerLost, PrepareXrayTunRoutes,
         CaptureProxy, SetProxy, StartSucceeds, EmitRunning, Goto, EmitState,
         EndCore, RemoveTunRoutes, Undo, RemoveServerRoute, RestoreProxy, session,
         os, history, StartOwns, CleanupSteps, CallOfStep, StepsOfCalls
    <3>3. CASE state_ = o /\ wop # "failed"
      BY <2>2, <3>3, <3>1 DEF WorkerStep, SetPreference, ReadRunning,
         TakeState, MarkStopping, StopCore, MarkError, EmitError,
         StopFailedCore, WorkerClean, WorkerCleanServer, WorkerCleanProxy,
         ReleaseState, EmitEnd, Disengage, InstallState, EmitStarting,
         StartFails, CheckPrerequisites, StopStaleCores, PrepareServerRouting,
         PrepareConfig, StartCoreAnswerLost, PrepareXrayTunRoutes,
         CaptureProxy, SetProxy, StartSucceeds, EmitRunning, Goto, EmitState,
         EndCore, RemoveTunRoutes, Undo, RemoveServerRoute, RestoreProxy, session,
         os, history, SlotEmpty, StartOwns, CallOfStep
    <3>4. CASE state_ # o /\ wses = o /\ wpc \in {"mark", "kill", "clean"}
      BY <2>2, <3>4, <3>1 DEF WorkerStep, SetPreference, ReadRunning,
         TakeState, MarkStopping, StopCore, MarkError, EmitError,
         StopFailedCore, WorkerClean, WorkerCleanServer, WorkerCleanProxy,
         ReleaseState, EmitEnd, Disengage, InstallState, EmitStarting,
         StartFails, CheckPrerequisites, StopStaleCores, PrepareServerRouting,
         PrepareConfig, StartCoreAnswerLost, PrepareXrayTunRoutes,
         CaptureProxy, SetProxy, StartSucceeds, EmitRunning, Goto, EmitState,
         EndCore, RemoveTunRoutes, Undo, RemoveServerRoute, RestoreProxy, session,
         os, history
    <3>5. CASE watch[o] = "clean"
      BY <3>1, <3>5
    <3> QED
      BY <3>2, <3>3, <3>4, <3>5
  <2> QED
    BY <1>4, <2>1, <2>2
<1>5. ASSUME NEW s \in Sessions, WatcherStep(s)
      PROVE  Holds(o)'
  <2>1. UNCHANGED worker /\ \A t \in Sessions \ {s} : watch'[t] = watch[t]
    BY <1>5, WatcherFrame
  <2>2. CASE TakeOver(s)
    <3>1. watch[s] = "lock" /\ watch'[s] = IF state_ = s THEN "clean" ELSE "done"
      BY <2>2 DEF TakeOver, WatchGoto, TypeOK
    <3>2. state_' = IF state_ = s THEN 0 ELSE state_
      BY <2>2 DEF TakeOver
    <3> QED
      BY <2>1, <3>1, <3>2 DEF worker
  <2>3. CASE WatcherStep(s) /\ ~TakeOver(s)
    <3>1. state_' = state_
      BY <2>3 DEF WatcherStep, NoticeExit, TestStopRequested, WatchClean,
         WatchCleanServer, WatchCleanProxy, TestPreference, Engage,
         WatchEmitState, EmitExit, WatchGoto, EmitState, RemoveTunRoutes, Undo,
         RemoveServerRoute, RestoreProxy, session, worker, os, history
    <3>2. watch[o] = "clean" => o # s
      BY <2>3 DEF WatcherStep, NoticeExit, TestStopRequested, WatchClean,
         WatchCleanServer, WatchCleanProxy, TestPreference, Engage,
         WatchEmitState, EmitExit, WatchGoto, EmitState, RemoveTunRoutes, Undo,
         RemoveServerRoute, RestoreProxy, session, worker, os, history
    <3> QED
      BY <2>1, <3>1, <3>2 DEF worker
  <2> QED
    BY <1>5, <2>2, <2>3
<1>6. CASE \E s \in Sessions : CoreDies(s)
  BY <1>6 DEF CoreDies, session, worker
<1> QED
  BY <1>3, <1>4, <1>5, <1>6 DEF Next, Environment

(* A cleanup goes on from step to step.                                    *)
LEMMA UndoingStep ==
  ASSUME IInv, Next, ~UiCrash, NEW o \in Sessions
  PROVE  /\ Undoing(o, {"cleanServer"}) =>
              \/ Undoing(o, {"cleanServer"})'
              \/ WorkerCleanServer /\ wses = o
              \/ WatchCleanServer(o)
         /\ Undoing(o, {"cleanServer", "cleanProxy"}) =>
              \/ Undoing(o, {"cleanServer", "cleanProxy"})'
              \/ WorkerCleanProxy /\ wses = o
              \/ WatchCleanProxy(o)
<1>1. StartOwns /\ TypeOK
  BY DEF IInv
<1> USE <1>1 DEF Undoing
<1>2. CASE Calls
  BY <1>2 DEF Calls, CallStart, CallStop, CallSetKillswitchPreference,
     BeginCall, session, os
<1>3. CASE WorkerStep
  <2>1. CASE StartCore
    BY <2>1 DEF StartCore, Goto, StartOwns, TypeOK, StartSteps
  <2>2. CASE WorkerStep /\ ~StartCore
    <3>1. watch' = watch
      BY <2>2 DEF WorkerStep, SetPreference, ReadRunning, TakeState,
         MarkStopping, StopCore, MarkError, EmitError, StopFailedCore,
         WorkerClean, WorkerCleanServer, WorkerCleanProxy, ReleaseState,
         EmitEnd, Disengage, InstallState, EmitStarting, StartFails,
         CheckPrerequisites, StopStaleCores, PrepareServerRouting,
         PrepareConfig, StartCoreAnswerLost, PrepareXrayTunRoutes,
         CaptureProxy, SetProxy, StartSucceeds, EmitRunning, Goto, EmitState,
         EndCore, RemoveTunRoutes, Undo, RemoveServerRoute, RestoreProxy, session,
         os, history
    <3>2. /\ wpc = "cleanServer" => WorkerCleanServer
          /\ wpc = "cleanProxy" => WorkerCleanProxy
      BY <2>2 DEF WorkerStep, SetPreference, ReadRunning, TakeState,
         MarkStopping, StopCore, MarkError, EmitError, StopFailedCore,
         WorkerClean, WorkerCleanServer, WorkerCleanProxy, ReleaseState,
         EmitEnd, Disengage, InstallState, EmitStarting, StartFails,
         CheckPrerequisites, StopStaleCores, PrepareServerRouting,
         PrepareConfig, StartCoreAnswerLost, PrepareXrayTunRoutes,
         CaptureProxy, SetProxy, StartSucceeds, EmitRunning, Goto, EmitState,
         EndCore, RemoveTunRoutes, Undo, RemoveServerRoute, RestoreProxy, session,
         os, history
    <3>3. WorkerCleanServer => wpc' = "cleanProxy" /\ wses' = wses
      BY DEF WorkerCleanServer, Goto
    <3> QED
      BY <3>1, <3>2, <3>3
  <2> QED
    BY <1>3, <2>1, <2>2
<1>4. ASSUME NEW s \in Sessions, WatcherStep(s)
      PROVE  /\ Undoing(o, {"cleanServer"}) =>
                  Undoing(o, {"cleanServer"})' \/ WatchCleanServer(o)
             /\ Undoing(o, {"cleanServer", "cleanProxy"}) =>
                  Undoing(o, {"cleanServer", "cleanProxy"})' \/ WatchCleanProxy(o)
  <2>1. UNCHANGED worker /\ \A t \in Sessions \ {s} : watch'[t] = watch[t]
    BY <1>4, WatcherFrame
  <2>2. /\ watch[s] = "cleanServer" => WatchCleanServer(s) /\ watch'[s] = "cleanProxy"
        /\ watch[s] = "cleanProxy" => WatchCleanProxy(s)
    BY <1>4 DEF WatcherStep, NoticeExit, TestStopRequested, TakeOver,
       WatchClean, WatchCleanServer, WatchCleanProxy, TestPreference, Engage,
       WatchEmitState, EmitExit, WatchGoto, EmitState, RemoveTunRoutes, Undo,
       RemoveServerRoute, RestoreProxy, session, worker, os, history, TypeOK
  <2> QED
    BY <2>1, <2>2 DEF worker
<1>5. CASE \E s \in Sessions : CoreDies(s)
  BY <1>5 DEF CoreDies, session, worker
<1> QED
  BY <1>2, <1>3, <1>4, <1>5 DEF Next, Environment
(* The converse: a session is held from the moment it is made.             *)
LEMMA HoldsBefore ==
  ASSUME IInv, CallOfStep, HandlerAlone, ~overlap, ~overlap', Next,
         NEW o \in Sessions, Holds(o)'
  PROVE  \/ Holds(o) /\ ~(WorkerClean /\ wses = o) /\ ~WatchClean(o)
         \/ InstallState /\ o = made + 1
<1>1. StartOwns /\ SlotEmpty /\ TypeOK /\ StepsOfCalls
  BY DEF IInv
<1>2. o # 0
  BY MaxStartsAssumption DEF Sessions
<1>3. watch[o] = "clean" => wpc = "idle" /\ state_ = 0
  BY DEF HandlerAlone, Handling, HandlingSteps
<1> USE <1>1, <1>2, <1>3 DEF Holds
<1>4. CASE Calls
  <2>1. /\ wpc = "idle" /\ state_' = state_ /\ watch' = watch
        /\ wpc' \in {"take", "prefSet"} /\ overlap' = (overlap \/ Handling # {})
    BY <1>4 DEF Calls, CallStart, CallStop, CallSetKillswitchPreference,
       BeginCall, session, os
  <2>2. watch[o] # "clean"
    BY <2>1 DEF Handling, HandlingSteps
  <2> QED
    BY <2>1, <2>2 DEF WatchClean, WorkerClean
<1>5. CASE WorkerStep
  <2>1. CASE StartCore
    <3>1. watch'[o] = "clean" => watch[o] = "clean"
      BY <2>1 DEF StartCore, TypeOK
    <3> QED
      BY <2>1, <3>1 DEF StartCore, AfterCore, Goto, session, WorkerClean, WatchClean
  <2>2. CASE WorkerStep /\ ~StartCore
    <3>1. watch' = watch /\ wpc # "idle"
      BY <2>2 DEF WorkerStep, SetPreference, ReadRunning, TakeState,
         MarkStopping, StopCore, MarkError, EmitError, StopFailedCore,
         WorkerClean, WorkerCleanServer, WorkerCleanProxy, ReleaseState,
         EmitEnd, Disengage, InstallState, EmitStarting, StartFails,
         CheckPrerequisites, StopStaleCores, PrepareServerRouting,
         PrepareConfig, StartCoreAnswerLost, PrepareXrayTunRoutes,
         CaptureProxy, SetProxy, StartSucceeds, EmitRunning, Goto, EmitState,
         EndCore, RemoveTunRoutes, Undo, RemoveServerRoute, RestoreProxy, session,
         os, history
    <3>2. CASE WorkerClean
      BY <3>1, <3>2 DEF WorkerClean, Goto, SlotEmpty, StartOwns, CleanupSteps
    <3>3. CASE InstallState
      BY <3>1, <3>3 DEF InstallState
    <3>4. CASE WorkerStep /\ ~StartCore /\ ~WorkerClean /\ ~InstallState /\ state_' = o
      BY <3>1, <3>4 DEF WorkerStep, SetPreference, ReadRunning, TakeState,
         MarkStopping, StopCore, MarkError, EmitError, StopFailedCore,
         WorkerCleanServer, WorkerCleanProxy, ReleaseState, EmitEnd,
         Disengage, EmitStarting, StartFails, CheckPrerequisites,
         StopStaleCores, PrepareServerRouting, PrepareConfig,
         StartCoreAnswerLost, PrepareXrayTunRoutes, CaptureProxy, SetProxy,
         StartSucceeds, EmitRunning, Goto, EmitState, EndCore,
         RemoveServerRoute, Undo, RestoreProxy, session, os, history, StartOwns,
         SlotEmpty, CleanupSteps, CallOfStep, StepsOfCalls, WatchClean
    <3>5. CASE WorkerStep /\ ~StartCore /\ ~WorkerClean /\ ~InstallState
                /\ (wses = o /\ wpc \in {"mark", "kill", "clean"})'
      BY <3>1, <3>5 DEF WorkerStep, SetPreference, ReadRunning, TakeState,
         MarkStopping, StopCore, MarkError, EmitError, StopFailedCore,
         WorkerCleanServer, WorkerCleanProxy, ReleaseState, EmitEnd,
         Disengage, EmitStarting, StartFails, CheckPrerequisites,
         StopStaleCores, PrepareServerRouting, PrepareConfig,
         StartCoreAnswerLost, PrepareXrayTunRoutes, CaptureProxy, SetProxy,
         StartSucceeds, EmitRunning, Goto, EmitState, EndCore,
         RemoveServerRoute, Undo, RestoreProxy, session, os, history, HandlerAlone,
         CallOfStep, WatchClean
    <3> QED
      BY <2>2, <3>1, <3>2, <3>3, <3>4, <3>5
  <2> QED
    BY <1>5, <2>1, <2>2
<1>6. ASSUME NEW s \in Sessions, WatcherStep(s)
      PROVE  Holds(o) /\ ~(WorkerClean /\ wses = o) /\ ~WatchClean(o)
  <2>1. UNCHANGED worker /\ \A t \in Sessions \ {s} : watch'[t] = watch[t]
    BY <1>6, WatcherFrame
  <2>2. state_' = state_ \/ (TakeOver(s) /\ state_ = s /\ state_' = 0 /\ wpc = "idle")
    <3>1. CASE TakeOver(s)
      BY <3>1 DEF TakeOver
    <3>2. CASE WatcherStep(s) /\ ~TakeOver(s)
      BY <3>2 DEF WatcherStep, NoticeExit, TestStopRequested, WatchClean,
         WatchCleanServer, WatchCleanProxy, TestPreference, Engage,
         WatchEmitState, EmitExit, WatchGoto, EmitState, RemoveTunRoutes, Undo,
         RemoveServerRoute, RestoreProxy, session, worker, os, history
    <3> QED
      BY <1>6, <3>1, <3>2
  <2>3. watch'[s] = "clean" => TakeOver(s) /\ state_ = s /\ wpc = "idle"
    <3>1. CASE TakeOver(s)
      BY <3>1 DEF TakeOver, WatchGoto, TypeOK
    <3>2. CASE WatcherStep(s) /\ ~TakeOver(s)
      BY <3>2 DEF WatcherStep, NoticeExit, TestStopRequested, WatchClean,
         WatchCleanServer, WatchCleanProxy, TestPreference, Engage,
         WatchEmitState, EmitExit, WatchGoto, EmitState, RemoveTunRoutes, Undo,
         RemoveServerRoute, RestoreProxy, session, worker, os, history, TypeOK
    <3> QED
      BY <1>6, <3>1, <3>2
  <2>4. WatchClean(o) => watch'[o] # "clean"
    BY DEF WatchClean, WatchGoto, TypeOK
  <2>5. WorkerClean => wpc' # wpc
    BY DEF WorkerClean, Goto
  <2> QED
    BY <2>1, <2>2, <2>3, <2>4, <2>5 DEF worker, WatchClean
<1>7. CASE \E s \in Sessions : CoreDies(s)
  BY <1>7 DEF CoreDies, session, worker, WorkerClean, WatchClean, Goto, WatchGoto, TypeOK
<1>8. CASE UiCrash
  BY <1>8 DEF UiCrash
<1> QED
  BY <1>4, <1>5, <1>6, <1>7, <1>8 DEF Next, Environment

(* Which step changes what is remembered of session t, ...                 *)
LEMMA MemoryFrame ==
  ASSUME TypeOK, Next, NEW t \in Sessions
  PROVE  /\ cleaned'[t] = cleaned[t] \/ (WorkerClean /\ wses = t) \/ WatchClean(t)
         /\ tun'[t] = tun[t] \/ PrepareXrayTunRoutes
         /\ srv'[t] = srv[t] \/ (PrepareServerRouting /\ wses = t)
         /\ snap'[t] = snap[t] \/ (CaptureProxy /\ wses = t)
<1>1. CASE Calls
  BY <1>1 DEF Calls, CallStart, CallStop, CallSetKillswitchPreference,
     BeginCall, session, os
<1>2. CASE PrepareXrayTunRoutes
  BY <1>2 DEF PrepareXrayTunRoutes
<1>3. CASE PrepareServerRouting
  BY <1>3 DEF PrepareServerRouting, TypeOK
<1>4. CASE CaptureProxy
  BY <1>4 DEF CaptureProxy, TypeOK
<1>5. CASE WorkerClean
  BY <1>5 DEF WorkerClean, TypeOK
<1>6. CASE WorkerStep /\ ~PrepareXrayTunRoutes /\ ~PrepareServerRouting
           /\ ~CaptureProxy /\ ~WorkerClean
  BY <1>6 DEF WorkerStep, SetPreference, ReadRunning, TakeState, MarkStopping,
     StopCore, MarkError, EmitError, StopFailedCore, WorkerCleanServer,
     WorkerCleanProxy, ReleaseState, EmitEnd, Disengage, InstallState,
     EmitStarting, StartFails, CheckPrerequisites, StopStaleCores,
     PrepareConfig, StartCore, StartCoreAnswerLost, SetProxy, StartSucceeds,
     EmitRunning, Goto, EmitState, EndCore, RemoveServerRoute, Undo, RestoreProxy,
     AfterCore, session, os, history
<1>7. ASSUME NEW s \in Sessions, WatcherStep(s)
      PROVE  /\ cleaned'[t] = cleaned[t] \/ WatchClean(t)
             /\ UNCHANGED <<tun, srv, snap>>
  <2>1. CASE WatchClean(s)
    BY <2>1 DEF WatchClean, TypeOK
  <2>2. CASE WatcherStep(s) /\ ~WatchClean(s)
    BY <2>2 DEF WatcherStep, NoticeExit, TestStopRequested, TakeOver,
       WatchCleanServer, WatchCleanProxy, TestPreference, Engage,
       WatchEmitState, EmitExit, WatchGoto, EmitState, RemoveServerRoute, Undo,
       RestoreProxy, session, worker, os, history
  <2> QED
    BY <1>7, <2>1, <2>2
<1>8. CASE Environment
  BY <1>8 DEF Environment, UiCrash, CoreDies, session
<1> QED
  BY <1>1, <1>2, <1>3, <1>4, <1>5, <1>6, <1>7, <1>8 DEF Next

(* ... and which changes the routes and the proxy.                         *)
LEMMA SystemFrame ==
  ASSUME TypeOK, Next
  PROVE  /\ "tun" \in routes' => "tun" \in routes \/ PrepareXrayTunRoutes
         /\ "server" \in routes' => "server" \in routes \/ PrepareServerRouting
         /\ \/ proxy' = proxy \/ SetProxy
            \/ WorkerCleanProxy
            \/ \E s \in Sessions : WatchCleanProxy(s)
<1>1. CASE Calls
  BY <1>1 DEF Calls, CallStart, CallStop, CallSetKillswitchPreference,
     BeginCall, session, os
<1>2. CASE PrepareXrayTunRoutes
  BY <1>2 DEF PrepareXrayTunRoutes
<1>3. CASE PrepareServerRouting
  BY <1>3 DEF PrepareServerRouting
<1>4. CASE SetProxy \/ WorkerCleanProxy
  BY <1>4 DEF SetProxy, WorkerCleanProxy
<1>5. CASE WorkerStep /\ ~PrepareXrayTunRoutes /\ ~PrepareServerRouting
           /\ ~SetProxy /\ ~WorkerCleanProxy
  BY <1>5 DEF WorkerStep, SetPreference, ReadRunning, TakeState, MarkStopping,
     StopCore, MarkError, EmitError, StopFailedCore, WorkerClean,
     WorkerCleanServer, ReleaseState, EmitEnd, Disengage, InstallState,
     EmitStarting, StartFails, CheckPrerequisites, StopStaleCores,
     PrepareConfig, StartCore, StartCoreAnswerLost, CaptureProxy,
     StartSucceeds, EmitRunning, Goto, EmitState, EndCore, RemoveTunRoutes, Undo,
     RemoveServerRoute, AfterCore, session, os, history
<1>6. ASSUME NEW s \in Sessions, WatcherStep(s)
      PROVE  /\ routes' \subseteq routes
             /\ proxy' = proxy \/ WatchCleanProxy(s)
  BY <1>6 DEF WatcherStep, NoticeExit, TestStopRequested, TakeOver,
     WatchClean, WatchCleanServer, WatchCleanProxy, TestPreference, Engage,
     WatchEmitState, EmitExit, WatchGoto, EmitState, RemoveTunRoutes, Undo,
     RemoveServerRoute, RestoreProxy, session, worker, os, history
<1>7. CASE Environment
  BY <1>7 DEF Environment, UiCrash, CoreDies, os
<1> QED
  BY <1>1, <1>2, <1>3, <1>4, <1>5, <1>6, <1>7 DEF Next

LEMMA MadeFrame ==
  ASSUME TypeOK, Next
  PROVE  made' = made \/ (InstallState /\ made' = made + 1)
<1>1. CASE Calls
  BY <1>1 DEF Calls, CallStart, CallStop, CallSetKillswitchPreference,
     BeginCall, session, os
<1>2. CASE WorkerStep
  <2>1. CASE InstallState
    BY <2>1 DEF InstallState
  <2>2. CASE WorkerStep /\ ~InstallState
    BY <2>2 DEF WorkerStep, SetPreference, ReadRunning, TakeState,
       MarkStopping, StopCore, MarkError, EmitError, StopFailedCore,
       WorkerClean, WorkerCleanServer, WorkerCleanProxy, ReleaseState,
       EmitEnd, Disengage, EmitStarting, StartFails, CheckPrerequisites,
       StopStaleCores, PrepareServerRouting, PrepareConfig, StartCore,
       StartCoreAnswerLost, PrepareXrayTunRoutes, CaptureProxy, SetProxy,
       StartSucceeds, EmitRunning, Goto, EmitState, EndCore, RemoveTunRoutes, Undo,
       RemoveServerRoute, RestoreProxy, AfterCore, session, os, history
  <2> QED
    BY <1>2, <2>1, <2>2
<1>3. CASE \E s \in Sessions : WatcherStep(s)
  BY <1>3, WatcherFrame
<1>4. CASE Environment
  BY <1>4 DEF Environment, UiCrash, CoreDies, session
<1> QED
  BY <1>1, <1>2, <1>3, <1>4 DEF Next
LEMMA UntouchedStep ==
  ASSUME Untouched, CallOfStep, HandlerAlone, IInv, [Next]_vars
  PROVE  Untouched'
<1>1. StartOwns /\ TypeOK /\ FreshSessions /\ StepsOfCalls
  BY DEF IInv
<1>2. CASE UNCHANGED vars
  BY <1>2 DEF vars, session, worker, history, Untouched, Holds
<1>3. CASE Next
  <2>1. (\A s \in Sessions : s > made =>
           ~cleaned[s] /\ ~tun[s] /\ srv[s] = "none" /\ snap[s] = "none")'
    <3>1. SUFFICES ASSUME NEW s \in Sessions, s > made'
                   PROVE  /\ ~cleaned'[s] /\ ~tun'[s]
                          /\ srv'[s] = "none" /\ snap'[s] = "none"
      OBVIOUS
    <3>2. s > made
      <4>1. made' = made \/ made' = made + 1
        BY <1>1, <1>3, MadeFrame
      <4> QED
        BY <3>1, <4>1, <1>1 DEF TypeOK, Sessions
    <3>3. s # wses /\ watch[s] = "none"
      BY <3>2, <1>1 DEF FreshSessions, TypeOK, Sessions
    <3>4. ~WatchClean(s)
      BY <3>3 DEF WatchClean
    <3>5. PrepareXrayTunRoutes => tun'[s] = tun[s]
      BY <3>3, <1>1 DEF PrepareXrayTunRoutes, TypeOK
    <3>6. ~cleaned[s] /\ ~tun[s] /\ srv[s] = "none" /\ snap[s] = "none"
      BY <3>2 DEF Untouched
    <3>7. cleaned'[s] = cleaned[s] /\ tun'[s] = tun[s] /\ srv'[s] = srv[s] /\ snap'[s] = snap[s]
      BY <3>3, <3>4, <3>5, <1>1, <1>3, MemoryFrame
    <3> QED
      BY <3>6, <3>7
  <2>2. ASSUME ~overlap', NEW s \in Sessions, Holds(s)'
        PROVE  ~cleaned'[s]
    <3>1. ~overlap
      BY <2>2, <1>1, HistoryKept
    <3>2. CASE Holds(s) /\ ~(WorkerClean /\ wses = s) /\ ~WatchClean(s)
      <4>1. ~cleaned[s]
        BY <3>1, <3>2 DEF Untouched
      <4>2. cleaned'[s] = cleaned[s]
        BY <3>2, <1>1, <1>3, MemoryFrame
      <4> QED
        BY <4>1, <4>2
    <3>3. CASE InstallState /\ s = made + 1
      <4>1. ~cleaned[s]
        BY <3>3, <1>1 DEF Untouched, TypeOK, Sessions
      <4>2. cleaned' = cleaned
        BY <3>3 DEF InstallState
      <4> QED
        BY <4>1, <4>2
    <3> QED
      BY <2>2, <3>1, <3>2, <3>3, <1>3, HoldsBefore
  <2>3. (/\ wpc \in {"emitStart", "prereq", "sweep", "route"} => srv[wses] = "none"
         /\ wpc \in StartSteps \ {"proxySet", "commit"} => snap[wses] = "none")'
    <3>1. CASE InstallState
      <4>1. wses' = made + 1 /\ srv' = srv /\ snap' = snap /\ made < MaxStarts
        BY <3>1, <1>1 DEF InstallState, StepsOfCalls
      <4>2. made + 1 \in Sessions /\ made + 1 > made
        BY <4>1, <1>1, MaxStartsAssumption DEF TypeOK, Sessions
      <4> QED
        BY <4>1, <4>2 DEF Untouched
    <3>2. CASE CaptureProxy
      BY <3>2 DEF CaptureProxy, Goto
    <3>3. CASE PrepareServerRouting
      BY <3>3, <1>1 DEF PrepareServerRouting, Goto, Untouched, StartSteps
    <3>4. CASE WorkerStep /\ ~InstallState /\ ~CaptureProxy /\ ~PrepareServerRouting
      BY <3>4 DEF WorkerStep, SetPreference, ReadRunning, TakeState,
         MarkStopping, StopCore, MarkError, EmitError, StopFailedCore,
         WorkerClean, WorkerCleanServer, WorkerCleanProxy, ReleaseState,
         EmitEnd, Disengage, EmitStarting, StartFails, CheckPrerequisites,
         StopStaleCores, PrepareConfig, StartCore, StartCoreAnswerLost,
         PrepareXrayTunRoutes, SetProxy, StartSucceeds, EmitRunning, Goto,
         EmitState, EndCore, RemoveTunRoutes, Undo, RemoveServerRoute, RestoreProxy,
         AfterCore, session, os, history, Untouched, StartSteps
    <3>5. CASE Calls
      BY <3>5 DEF Calls, CallStart, CallStop, CallSetKillswitchPreference,
         BeginCall, session, os, StartSteps
    <3>6. CASE \E s \in Sessions : WatcherStep(s)
      <4>1. UNCHANGED <<worker, srv, snap>>
        BY <3>6, <1>1, WatcherFrame
      <4> QED
        BY <4>1 DEF worker, Untouched
    <3>7. CASE Environment
      BY <3>7 DEF Environment, UiCrash, CoreDies, session, worker, Untouched, StartSteps
    <3> QED
      BY <1>3, <3>1, <3>2, <3>3, <3>4, <3>5, <3>6, <3>7 DEF Next
  <2> QED
    BY <2>1, <2>2, <2>3 DEF Untouched
<1> QED
  BY <1>2, <1>3

(* The session that is cleaned up is the one that holds its changes.       *)
LEMMA CleansItsOwn ==
  ASSUME IInv, HandlerAlone, ~overlap, NEW o \in Sessions, Busy(o)
  PROVE  /\ WorkerClean \/ WorkerCleanServer \/ WorkerCleanProxy => wses = o
         /\ \A s \in Sessions :
              WatchClean(s) \/ WatchCleanServer(s) \/ WatchCleanProxy(s) => s = o
<1>1. ASSUME WorkerClean \/ WorkerCleanServer \/ WorkerCleanProxy
      PROVE  wses = o
  <2>1. wpc \in CleanupSteps
    BY <1>1 DEF WorkerClean, WorkerCleanServer, WorkerCleanProxy, CleanupSteps
  <2>2. wses \in Sessions
    BY <2>1 DEF IInv, StartOwns, TypeOK, Sessions
  <2>3. Busy(wses)
    BY <2>1 DEF Busy
  <2> QED
    BY <2>2, <2>3, OneBusy
<1>2. ASSUME NEW s \in Sessions,
             WatchClean(s) \/ WatchCleanServer(s) \/ WatchCleanProxy(s)
      PROVE  s = o
  <2>1. Busy(s)
    BY <1>2 DEF WatchClean, WatchCleanServer, WatchCleanProxy, Busy, Handling, HandlingSteps
  <2> QED
    BY <2>1, OneBusy
<1> QED
  BY <1>1, <1>2

LEMMA TunOwnedStep ==
  ASSUME TunOwned, Untouched, CallOfStep, HandlerAlone, IInv, ~overlap, ~overlap',
         Next, ~UiCrash
  PROVE  TunOwned'
<1>1. StartOwns /\ TypeOK
  BY DEF IInv
<1>2. SUFFICES ASSUME "tun" \in routes', "tun" \notin leftover'
               PROVE  \E o \in Sessions : tun'[o] /\ Holds(o)'
  BY DEF TunOwned
<1> "tun" \notin leftover
  BY <1>2, FailuresKept
<1>3. CASE PrepareXrayTunRoutes
  <2>1. /\ wpc = "tunRoutes" /\ wses \in Sessions /\ state_ = wses
        /\ tun'[wses] /\ state_' = state_ /\ wpc' = "commit"
    <3>1. /\ wpc = "tunRoutes" /\ state_' = state_
          /\ tun' = [tun EXCEPT ![wses] = TRUE] /\ wpc' = "commit"
      BY <1>2, <1>3 DEF PrepareXrayTunRoutes, Goto
    <3> QED
      BY <1>1, <3>1 DEF HandlerAlone, StartOwns, StartSteps, TypeOK, Sessions
  <2> QED
    BY <2>1 DEF Holds
<1>4. CASE ~PrepareXrayTunRoutes
  <2>1. PICK o \in Sessions : tun[o] /\ Holds(o)
    BY <1>1, <1>2, <1>4, SystemFrame DEF TunOwned
  <2>2. ~cleaned[o] /\ Busy(o)
    BY <2>1, HoldsBusy DEF Untouched
  <2>3. tun'[o] = tun[o]
    BY <1>1, <1>4, MemoryFrame
  <2>4. ASSUME WorkerClean /\ wses = o
        PROVE  FALSE
    BY <1>2, <2>1, <2>2, <2>4 DEF WorkerClean, RemoveTunRoutes, Undo
  <2>5. ASSUME WatchClean(o)
        PROVE  FALSE
    BY <1>2, <2>1, <2>2, <2>5 DEF WatchClean, RemoveTunRoutes, Undo
  <2> QED
    BY <2>1, <2>3, <2>4, <2>5, HoldsStep
<1> QED
  BY <1>3, <1>4

LEMMA ServerOwnedStep ==
  ASSUME ServerOwned, Untouched, CallOfStep, HandlerAlone, IInv, ~overlap, ~overlap',
         Next, ~UiCrash
  PROVE  ServerOwned'
<1>1. StartOwns /\ TypeOK
  BY DEF IInv
<1>2. SUFFICES ASSUME "server" \in routes', "server" \notin leftover'
               PROVE  \E o \in Sessions :
                        \/ srv'[o] = "replaced"
                        \/ srv'[o] = "created" /\ (Holds(o)' \/ Undoing(o, {"cleanServer"})')
  BY DEF ServerOwned
<1> "server" \notin leftover
  BY <1>2, FailuresKept
<1>3. CASE "server" \notin routes
  <2>1. PrepareServerRouting
    BY <1>1, <1>2, <1>3, SystemFrame
  <2>2. /\ wpc = "route" /\ wses \in Sessions /\ state_ = wses
        /\ srv'[wses] \in {"created", "replaced"} /\ state_' = state_ /\ wpc' = "prepare"
    <3>1. /\ wpc = "route" /\ state_' = state_ /\ wpc' = "prepare"
          /\ \E status \in {"created", "replaced"} :
               srv' = [srv EXCEPT ![wses] = status]
      BY <1>2, <1>3, <2>1 DEF PrepareServerRouting, Goto
    <3> QED
      BY <1>1, <3>1 DEF HandlerAlone, StartOwns, StartSteps, TypeOK, Sessions
  <2> QED
    BY <2>2 DEF Holds
<1>4. CASE "server" \in routes
  <2>1. PICK o \in Sessions :
          \/ srv[o] = "replaced"
          \/ srv[o] = "created" /\ (Holds(o) \/ Undoing(o, {"cleanServer"}))
    BY <1>4 DEF ServerOwned
  <2>2. srv'[o] = srv[o]
    <3>1. PrepareServerRouting => srv[wses] = "none"
      BY DEF PrepareServerRouting, Untouched
    <3> QED
      BY <1>1, <2>1, <3>1, MemoryFrame
  <2>3. CASE srv[o] = "created" /\ Holds(o)
    <3>1. Holds(o)' \/ (WorkerClean /\ wses = o) \/ WatchClean(o)
      BY <2>3, HoldsStep
    <3>2. ~cleaned[o]
      BY <2>3 DEF Untouched
    <3>3. ASSUME WorkerClean, wses = o
          PROVE  Undoing(o, {"cleanServer"})'
      BY <3>2, <3>3 DEF WorkerClean, Goto, Undoing
    <3>4. ASSUME WatchClean(o)
          PROVE  Undoing(o, {"cleanServer"})'
      BY <1>1, <3>2, <3>4 DEF WatchClean, WatchGoto, Undoing, TypeOK
    <3> QED
      BY <2>2, <2>3, <3>1, <3>3, <3>4
  <2>4. CASE srv[o] = "created" /\ Undoing(o, {"cleanServer"})
    <3>1. ASSUME WorkerCleanServer, wses = o
          PROVE  FALSE
      BY <1>2, <2>4, <3>1 DEF WorkerCleanServer, RemoveServerRoute, Undo
    <3>2. ASSUME WatchCleanServer(o)
          PROVE  FALSE
      BY <1>2, <2>4, <3>2 DEF WatchCleanServer, RemoveServerRoute, Undo
    <3> QED
      BY <2>2, <2>4, <3>1, <3>2, UndoingStep
  <2> QED
    BY <2>1, <2>2, <2>3, <2>4
<1> QED
  BY <1>3, <1>4

LEMMA ProxyOwnedStep ==
  ASSUME ProxyOwned, Untouched, CallOfStep, HandlerAlone, IInv, ~overlap, ~overlap',
         Next, ~UiCrash
  PROVE  ProxyOwned'
<1>1. StartOwns /\ TypeOK
  BY DEF IInv
<1> SUFFICES ASSUME "proxy" \notin leftover'
             PROVE  ProxyOwned'
  BY DEF ProxyOwned
<1>6. "proxy" \notin leftover
  BY FailuresKept
<1> USE <1>6
<1>2. ASSUME CaptureProxy
      PROVE  proxy = "user" /\ wses \in Sessions
  <2>1. wpc = "proxyGet" /\ wses \in Sessions /\ state_ = wses /\ snap[wses] = "none"
    BY <1>1, <1>2 DEF CaptureProxy, StartOwns, StartSteps, HandlerAlone, Untouched,
       TypeOK, Sessions
  <2>2. Busy(wses)
    BY <2>1 DEF Busy
  <2>3. ASSUME NEW o \in Sessions, snap[o] = "user",
               Holds(o) \/ Undoing(o, {"cleanServer", "cleanProxy"})
        PROVE  FALSE
    <3>1. Busy(o)
      BY <2>3, HoldsBusy
    <3>2. o = wses
      BY <2>1, <2>2, <3>1, OneBusy
    <3> QED
      BY <2>1, <2>3, <3>2
  <2> QED
    BY <1>1, <2>1, <2>3 DEF ProxyOwned, TypeOK
<1>3. \A s \in Sessions : snap'[s] # "core"
  <2>1. ASSUME NEW s \in Sessions, CaptureProxy, wses = s
        PROVE  snap'[s] # "core"
    BY <1>1, <1>2, <2>1 DEF CaptureProxy, TypeOK
  <2> QED
    BY <1>1, <2>1, MemoryFrame DEF ProxyOwned
<1>4. (wpc = "proxySet" => snap[wses] = "user")'
  <2>1. CASE CaptureProxy
    BY <1>1, <1>2, <2>1 DEF CaptureProxy, Goto, TypeOK
  <2>2. CASE WorkerStep /\ ~CaptureProxy
    BY <2>2 DEF WorkerStep, SetPreference, ReadRunning, TakeState,
       MarkStopping, StopCore, MarkError, EmitError, StopFailedCore,
       WorkerClean, WorkerCleanServer, WorkerCleanProxy, ReleaseState,
       EmitEnd, Disengage, InstallState, EmitStarting, StartFails,
       CheckPrerequisites, StopStaleCores, PrepareServerRouting,
       PrepareConfig, StartCore, StartCoreAnswerLost, PrepareXrayTunRoutes,
       SetProxy, StartSucceeds, EmitRunning, Goto, EmitState, EndCore,
       RemoveTunRoutes, Undo, RemoveServerRoute, RestoreProxy, AfterCore, session,
       os, history
  <2>3. CASE Calls
    BY <2>3 DEF Calls, CallStart, CallStop, CallSetKillswitchPreference,
       BeginCall, session, os
  <2>4. CASE \E s \in Sessions : WatcherStep(s)
    <3>1. UNCHANGED <<worker, snap>>
      BY <1>1, <2>4, WatcherFrame
    <3> QED
      BY <3>1 DEF worker, ProxyOwned
  <2>5. CASE Environment
    BY <2>5 DEF Environment, CoreDies, session, worker, ProxyOwned
  <2> QED
    BY <2>1, <2>2, <2>3, <2>4, <2>5 DEF Next
<1>5. ASSUME proxy' = "core"
      PROVE  \E o \in Sessions :
               /\ snap'[o] = "user"
               /\ Holds(o)' \/ Undoing(o, {"cleanServer", "cleanProxy"})'
  <2>1. CASE SetProxy
    <3>1. /\ wpc = "proxySet" /\ wses \in Sessions /\ state_ = wses
          /\ snap' = snap /\ state_' = state_ /\ wpc' \in {"commit", "fail"}
      BY <1>1, <2>1 DEF SetProxy, Goto, HandlerAlone, StartOwns, StartSteps, TypeOK,
         Sessions, session
    <3> QED
      BY <3>1 DEF ProxyOwned, Holds
  <2>2. CASE proxy = "core" /\ ~SetProxy
    <3>1. PICK o \in Sessions :
            /\ snap[o] = "user"
            /\ Holds(o) \/ Undoing(o, {"cleanServer", "cleanProxy"})
      BY <2>2 DEF ProxyOwned
    <3>2. snap'[o] = snap[o]
      <4>1. CaptureProxy => snap[wses] = "none"
        BY DEF CaptureProxy, Untouched, StartSteps
      <4> QED
        BY <1>1, <3>1, <4>1, MemoryFrame
    <3>3. CASE Holds(o)
      <4>1. Holds(o)' \/ (WorkerClean /\ wses = o) \/ WatchClean(o)
        BY <3>3, HoldsStep
      <4>2. ~cleaned[o]
        BY <3>3 DEF Untouched
      <4>3. ASSUME WorkerClean, wses = o
            PROVE  Undoing(o, {"cleanServer", "cleanProxy"})'
        BY <4>2, <4>3 DEF WorkerClean, Goto, Undoing
      <4>4. ASSUME WatchClean(o)
            PROVE  Undoing(o, {"cleanServer", "cleanProxy"})'
        BY <1>1, <4>2, <4>4 DEF WatchClean, WatchGoto, Undoing, TypeOK
      <4> QED
        BY <3>1, <3>2, <4>1, <4>3, <4>4
    <3>4. CASE Undoing(o, {"cleanServer", "cleanProxy"})
      <4>1. ASSUME WorkerCleanProxy, wses = o
            PROVE  FALSE
        BY <1>5, <3>1, <4>1 DEF WorkerCleanProxy, RestoreProxy, Undo
      <4>2. ASSUME WatchCleanProxy(o)
            PROVE  FALSE
        BY <1>5, <3>1, <4>2 DEF WatchCleanProxy, RestoreProxy, Undo
      <4> QED
        BY <3>1, <3>2, <3>4, <4>1, <4>2, UndoingStep
    <3> QED
      BY <3>1, <3>3, <3>4
  <2>3. proxy = "core" \/ SetProxy
    <3>1. ASSUME WorkerCleanProxy
          PROVE  proxy = "core"
      <4>1. wses \in Sessions
        BY <1>1, <3>1 DEF WorkerCleanProxy, StartOwns, CleanupSteps, TypeOK, Sessions
      <4> QED
        BY <1>5, <3>1, <4>1 DEF WorkerCleanProxy, RestoreProxy, Undo, ProxyOwned
    <3>2. ASSUME NEW s \in Sessions, WatchCleanProxy(s)
          PROVE  proxy = "core"
      BY <1>5, <3>2 DEF WatchCleanProxy, RestoreProxy, Undo, ProxyOwned
    <3> QED
      BY <1>1, <1>5, <3>1, <3>2, SystemFrame
  <2> QED
    BY <2>1, <2>2, <2>3
<1> QED
  BY <1>3, <1>4, <1>5 DEF ProxyOwned
LEMMA ChangesOwnedStep ==
  ASSUME ChangesOwned, Untouched, CallOfStep, HandlerAlone, IInv, [Next]_vars
  PROVE  ChangesOwned'
<1>1. CASE UNCHANGED vars
  BY <1>1 DEF vars, session, worker, os, history, ChangesOwned, TunOwned, ServerOwned,
     ProxyOwned, Holds, Undoing
<1>2. ASSUME Next, ~overlap', crashes' = 0
      PROVE  (TunOwned /\ ServerOwned /\ ProxyOwned)'
  <2>1. ~overlap /\ crashes = 0 /\ ~UiCrash
    BY <1>2, HistoryKept DEF IInv
  <2> QED
    BY <1>2, <2>1, TunOwnedStep, ServerOwnedStep, ProxyOwnedStep DEF ChangesOwned
<1> QED
  BY <1>1, <1>2 DEF ChangesOwned

LEMMA RestInit == Init => RestInv
<1> SUFFICES ASSUME Init
             PROVE  RestInv
  OBVIOUS
<1>1. CallOfStep
  BY DEF Init, CallOfStep, StartSteps, CleanupSteps
<1>2. HandlerAlone
  BY DEF Init, HandlerAlone, Handling, HandlingSteps, StartSteps
<1>3. EventPending /\ FiltersOK
  BY DEF Init, EventPending, Reported, FiltersOK
<1>4. Swept
  BY DEF Init, Swept, TunCoreRunsAlone, StartSteps
<1>5. Untouched
  BY MaxStartsAssumption DEF Init, Untouched, Holds, StartSteps, Sessions
<1>6. ChangesOwned
  BY DEF Init, ChangesOwned, TunOwned, ServerOwned, ProxyOwned
<1> QED
  BY <1>1, <1>2, <1>3, <1>4, <1>5, <1>6 DEF RestInv

LEMMA RestStep ==
  ASSUME RestInv, IInv, [Next]_vars
  PROVE  RestInv'
BY CallOfStepStep, HandlerAloneStep, EventPendingStep, FiltersOKStep, SweptStep,
   UntouchedStep, ChangesOwnedStep DEF RestInv

(* The invariant of what the threads leave behind, for every number of     *)
(* starts and crashes and every set of kinds.                              *)
THEOREM AnyRace == Spec => []RestInv
<1>1. Init => RestInv
  BY RestInit
<1>2. RestInv /\ IInv /\ [Next]_vars => RestInv'
  BY RestStep
<1> QED
  BY <1>1, <1>2, Invariant, PTL DEF Spec

(* Once the threads rest, the last state event Dart received is the answer *)
(* of Status(): no thread ends a session without sending one after it.     *)
THEOREM EventsAreFresh == Spec => []StateEventFresh
<1>1. RestInv => StateEventFresh
  BY DEF RestInv, EventPending, StateEventFresh, AtRest, Handling, StartSteps, EndSteps
<1> QED
  BY <1>1, AnyRace, PTL

(* At rest and without a session the routes and the proxy of the user are  *)
(* back, whatever step failed and whoever ended the session, but for what *)
(* a failed removal, or a start that was not told of its route, has left.  *)
THEOREM RestIsClean == Spec => []CleanAtRest
<1>1. RestInv /\ IInv => CleanAtRest
  <2> SUFFICES ASSUME RestInv, IInv, AtRest, state_ = 0, ~overlap, crashes = 0
               PROVE  /\ "tun" \in routes => "tun" \in leftover
                      /\ proxy # "user" => "proxy" \in leftover
                      /\ "server" \in routes =>
                           \/ "server" \in leftover
                           \/ \E s \in Sessions : srv[s] = "replaced"
    BY DEF CleanAtRest
  <2>1. \A o \in Sessions : ~Holds(o) /\ ~Undoing(o, {"cleanServer", "cleanProxy"})
                            /\ ~Undoing(o, {"cleanServer"})
    <3>1. \A o \in Sessions : o # 0
      BY MaxStartsAssumption DEF Sessions
    <3> QED
      BY <3>1 DEF AtRest, Handling, HandlingSteps, Holds, Undoing
  <2>2. proxy \in {"user", "core"}
    BY DEF IInv, TypeOK
  <2> QED
    BY <2>1, <2>2 DEF RestInv, ChangesOwned, TunOwned, ServerOwned, ProxyOwned
<1> QED
  BY <1>1, AnyRace, Invariant, PTL

(* At rest the filters are there only after an exit with the preference on *)
(* and no call since, or after a crash of the UI process.                  *)
THEOREM FiltersHaveReason == Spec => []FiltersOnlyAfterExit
<1>1. RestInv => FiltersOnlyAfterExit
  BY DEF RestInv, FiltersOK, FiltersOnlyAfterExit, AtRest
<1> QED
  BY <1>1, AnyRace, PTL

(* A core started for TUN finds no older core of its binary, except one    *)
(* that has outlived an attempt to end it.                                 *)
THEOREM TunCoreAlone == Spec => []TunCoreRunsAlone
<1>1. RestInv => TunCoreRunsAlone
  BY DEF RestInv, Swept
<1> QED
  BY <1>1, AnyRace, PTL

(* The safety of the refinement: what Status() shows moves along           *)
(* TunnelLifecycle, whatever the threads do.                               *)
THEOREM LifecycleSafety == Spec => Lifecycle!Spec
<1>1. Init => Lifecycle!Init
  BY DEF Init, Lifecycle!Init, Lifecycle!None, Reported
<1>2. IInv /\ [Next]_vars => [Lifecycle!Next]_Lifecycle!vars
  <2> SUFFICES ASSUME IInv, [Next]_vars
               PROVE  Lifecycle!Next \/ UNCHANGED <<state_, Reported, 1 .. made>>
    BY DEF Lifecycle!vars
  <2> USE DEF Lifecycle!Next, Lifecycle!Begin, Lifecycle!Up, Lifecycle!Fail,
              Lifecycle!End, Lifecycle!None
  <2>1. StartOwns /\ SlotEmpty /\ TypeOK /\ FreshSessions /\ StepsOfCalls
    BY DEF IInv
  <2>2. CASE InstallState
    <3>1. /\ state_ = 0 /\ made + 1 \in Sessions /\ made \in Nat
      BY <2>1, <2>2, MaxStartsAssumption DEF InstallState, SlotEmpty, StepsOfCalls,
         TypeOK, Sessions
    <3>2. /\ state_' = made + 1 /\ made' = made + 1 /\ phase' = phase
      BY <2>2 DEF InstallState
    <3>3. made + 1 \notin 1 .. made /\ 1 .. made + 1 = (1 .. made) \cup {made + 1}
      BY <3>1
    <3>4. phase[made + 1] = "starting" /\ made + 1 # 0
      BY <2>1, <3>1 DEF FreshSessions
    <3>5. Lifecycle!Begin(made + 1)
      BY <3>1, <3>2, <3>3, <3>4 DEF Reported
    <3> QED
      BY <3>1, <3>5
  <2>3. CASE MarkError
    BY <2>1, <2>3 DEF MarkError, Reported, StartOwns, TypeOK
  <2>4. CASE StartSucceeds
    BY <2>1, <2>4 DEF StartSucceeds, Reported, StartOwns, StartSteps, TypeOK
  <2>5. CASE MarkStopping
    BY <2>1, <2>5 DEF MarkStopping, Reported, SlotEmpty
  <2>6. CASE WorkerStep /\ ~InstallState /\ ~MarkError /\ ~StartSucceeds /\ ~MarkStopping
    <3>1. UNCHANGED <<made, phase>> /\ (state_' = state_ \/ state_' = 0)
      BY <2>6 DEF WorkerStep, SetPreference, ReadRunning, TakeState, StopCore,
         EmitError, StopFailedCore, WorkerClean, WorkerCleanServer,
         WorkerCleanProxy, ReleaseState, EmitEnd, Disengage, EmitStarting,
         StartFails, CheckPrerequisites, StopStaleCores, PrepareServerRouting,
         PrepareConfig, StartCore, StartCoreAnswerLost, PrepareXrayTunRoutes,
         CaptureProxy, SetProxy, EmitRunning, Goto, EmitState, EndCore,
         RemoveTunRoutes, Undo, RemoveServerRoute, RestoreProxy, AfterCore, session,
         os, history
    <3> QED
      BY <3>1 DEF Reported
  <2>7. CASE Calls
    <3>1. UNCHANGED <<made, phase, state_>>
      BY <2>7 DEF Calls, CallStart, CallStop, CallSetKillswitchPreference,
         BeginCall, session, os
    <3> QED
      BY <3>1 DEF Reported
  <2>8. CASE \E s \in Sessions : WatcherStep(s)
    <3>1. UNCHANGED <<made, phase>>
      BY <2>1, <2>8, WatcherFrame
    <3>2. state_' = state_ \/ state_' = 0
      BY <2>8 DEF WatcherStep, NoticeExit, TestStopRequested, TakeOver,
         WatchClean, WatchCleanServer, WatchCleanProxy, TestPreference,
         Engage, WatchEmitState, EmitExit, WatchGoto, EmitState,
         RemoveTunRoutes, Undo, RemoveServerRoute, RestoreProxy, session, worker,
         os, history
    <3> QED
      BY <3>1, <3>2 DEF Reported
  <2>9. CASE Environment \/ UNCHANGED vars
    <3>1. UNCHANGED <<made, phase>> /\ (state_' = state_ \/ state_' = 0)
      BY <2>9 DEF Environment, UiCrash, CoreDies, vars, session
    <3> QED
      BY <3>1 DEF Reported
  <2> QED
    BY <2>2, <2>3, <2>4, <2>5, <2>6, <2>7, <2>8, <2>9 DEF Next
<1> QED
  BY <1>1, <1>2, Invariant, PTL DEF Spec, Lifecycle!Spec
=============================================================================
