-------------------------- MODULE ServiceCoreProofs --------------------------
(***************************************************************************)
(* OneCoreReachable and NoStaleExitCode of ServiceCore, for any number of  *)
(* handlers, run ids, crashes and boots of the service.                    *)
(***************************************************************************)
EXTENDS ServiceCore, FiniteSetTheorems, TLAPS

(* The parts of the type invariant.                                        *)
GlobalsOK == g_core \in {0} \cup Cores /\ g_exit \in {0} \cup Cores
HandlersTyped ==
  /\ pc \in [Threads -> Steps] /\ run \in [Threads -> 0 .. MaxRuns]
  /\ held \in [Threads -> {0} \cup Cores]
ServiceOK ==
  /\ accept \in {"test", "create", "listen", "done"}
  /\ main \in {"wait", "join", "release", "stopped"}
  /\ stopReq \in BOOLEAN /\ missed \in 0 .. 2
UiTyped ==
  /\ uiCmd \in {"none", "start", "stop"} /\ uiTry \in 0 .. 2
  /\ uiAt \in {0} \cup Threads /\ asked \in 0 .. MaxRuns
  /\ giveUps \in Nat /\ boots \in Nat \ {0} /\ giveUps + boots <= MaxEvents
CoresOK ==
  /\ made \in {0} \cup Cores /\ runOf \in [Cores -> 0 .. MaxRuns]
  /\ alive \subseteq 1 .. made /\ told \subseteq alive /\ spared \subseteq 0 .. made

(* Where a handler is that holds a process, that has told it to end, and   *)
(* that may yet create one.                                                *)
Ended == {"waitStopped", "waitReplaced", "record"}
Holding == {"endStopped", "endReplaced", "store"} \cup Ended
Starting == {"start", "endReplaced", "waitReplaced", "create"}

(* The attempts of the UI.                                                 *)
UiOK ==
  /\ uiCmd = "none" => uiTry = 0 /\ uiAt = 0
  /\ uiAt = 0 => uiTry < 2

(* A request of the UI is sent twice at most and creates one core at most. *)
Unsent == IF uiCmd = "start" THEN 2 - uiTry ELSE 0
Starters == {t \in Threads : pc[t] \in Starting}
CoresCounted == made + Cardinality(Starters) + Unsent <= 2 * asked

(* A handler holds a process only while it ends or stores one; what it has *)
(* told to end is not kept.                                                *)
HandlerOK(t) ==
  /\ held[t] # 0 => pc[t] \in Holding /\ held[t] \in 1 .. made
  /\ pc[t] \in Ended => held[t] \notin alive \ told
HandlersOK == (\A t \in Threads : HandlerOK(t)) /\ g_core \in 0 .. made

(* The pipe is closed before the service stops, and no handler outlives it;*)
(* a stop nudges the pipe twice.                                           *)
MainOK ==
  /\ main \in {"release", "stopped"} => accept = "done"
  /\ main = "stopped" => missed = 0 /\ \A t \in Threads : pc[t] = "idle"
  /\ main = "wait" => missed <= 1 /\ (~stopReq => missed = 0)

(* While no answer is late the only handler at work, but for those of      *)
(* status_core, is the one the UI waits for, ...                           *)
OneHandler ==
  giveUps = 0 => \A t \in Threads : pc[t] \notin {"idle", "status"} => uiAt = t

(* ... what it took over is no longer g_core, and nothing is kept once the *)
(* service has stopped its core.                                           *)
TakenOver ==
  giveUps = 0 =>
    /\ \A t \in Threads : pc[t] \in Holding \cup {"create"} => g_core = 0
    /\ main \in {"release", "stopped"} => Kept = {}

ScInv ==
  /\ OneCoreReachable /\ NoStaleExitCode
  /\ UiOK /\ CoresCounted /\ HandlersOK /\ MainOK /\ OneHandler /\ TakenOver

-----------------------------------------------------------------------------
LEMMA TypeParts ==
  TypeOK <=> GlobalsOK /\ HandlersTyped /\ ServiceOK /\ UiTyped /\ CoresOK
BY DEF TypeOK, GlobalsOK, HandlersTyped, ServiceOK, UiTyped, CoresOK

LEMMA Bounds == MaxThreads \in Nat \ {0} /\ MaxRuns \in Nat /\ MaxEvents \in Nat \ {0}
BY MaxThreadsAssumption, MaxRunsAssumption, MaxEventsAssumption

-----------------------------------------------------------------------------
(* The number of starters is finite, ...                                   *)
LEMMA StartersFinite == Starters \in SUBSET Threads /\ IsFiniteSet(Starters)
<1>1. IsFiniteSet(Threads)
  BY Bounds, FS_Interval DEF Threads
<1>2. Starters \subseteq Threads
  BY DEF Starters
<1> QED
  BY <1>1, <1>2, FS_Subset

(* ... grows when a request to start arrives, and falls when a core is made*)
LEMMA StarterAdded ==
  ASSUME NEW t \in Threads, Starters' = Starters \cup {t}
  PROVE  Cardinality(Starters') <= Cardinality(Starters) + 1
<1>1. IsFiniteSet(Starters) /\ Cardinality(Starters) \in Nat
  BY StartersFinite, FS_CardinalityType
<1>2. Cardinality(Starters \cup {t}) <= Cardinality(Starters) + 1
  BY <1>1, FS_AddElement
<1> QED
  BY <1>2

LEMMA StarterRemoved ==
  ASSUME NEW t \in Starters, Starters' = Starters \ {t}
  PROVE  Cardinality(Starters') = Cardinality(Starters) - 1
BY StartersFinite, FS_RemoveElement, FS_CardinalityType

LEMMA StartersShrink ==
  ASSUME Starters' \subseteq Starters
  PROVE  Cardinality(Starters') <= Cardinality(Starters)
BY StartersFinite, FS_Subset

LEMMA StartersCounted == Cardinality(Starters) \in Nat
BY StartersFinite, FS_CardinalityType

(* What changes the number of cores, of starters and of requests.          *)
LEMMA Counting ==
  ASSUME HandlersTyped, [Next]_vars
  PROVE  \/ UNCHANGED made /\ Starters' \subseteq Starters
         \/ \E t \in Threads : UiConnects(t) \/ CreateCore(t)
BY DEF HandlersTyped, Starters, Starting, Next, Handler, vars, globals,
       handlers, service, ui, os, UiStart, UiStop, AttemptFails,
       UiCannotConnect, UiGivesUp, TestStop, CreatePipe, Connect,
       StatusConnects, Refreshed, Goto, Answer, StatusCore, RefuseStop,
       TakeToStop, TakeToReplace, Terminate, WaitForExit, RecordExit,
       CreateFails, StoreCore, Nudge, RequestStop, StopEvent, ProcessEnds,
       StopActiveCore, Stopped, ServiceCrash, Boot, CoreDies

LEMMA Requesting ==
  ASSUME UiTyped, UiOK, [Next]_vars, UNCHANGED made
  PROVE  \/ asked' = asked + 1 /\ Unsent' = 2 /\ Unsent = 0
         \/ asked' = asked /\ Unsent' <= Unsent
BY DEF UiTyped, UiOK, Unsent, Next, Handler, vars, globals, handlers, service,
       ui, os, UiStart, UiStop, AttemptFails, UiCannotConnect, UiGivesUp,
       TestStop, CreatePipe, Connect, UiConnects, StatusConnects, Refreshed,
       Goto, Answer, StatusCore, RefuseStop, TakeToStop, TakeToReplace,
       Terminate, WaitForExit, RecordExit, CreateFails, CreateCore, StoreCore,
       Nudge, RequestStop, StopEvent, ProcessEnds, StopActiveCore, Stopped,
       ServiceCrash, Boot, CoreDies

LEMMA UiStep ==
  ASSUME UiTyped, UiOK, [Next]_vars
  PROVE  UiTyped' /\ UiOK'
BY Bounds DEF UiTyped, UiOK, Threads, Next, Handler, vars, globals, handlers,
       service, ui, os, UiStart, UiStop, AttemptFails, UiCannotConnect,
       UiGivesUp, TestStop, CreatePipe, Connect, UiConnects, StatusConnects,
       Refreshed, Goto, Answer, StatusCore, RefuseStop, TakeToStop,
       TakeToReplace, Terminate, WaitForExit, RecordExit, CreateFails,
       CreateCore, StoreCore, Nudge, RequestStop, StopEvent, ProcessEnds,
       StopActiveCore, Stopped, ServiceCrash, Boot, CoreDies

LEMMA ServiceStep ==
  ASSUME ServiceOK, MainOK, [Next]_vars
  PROVE  ServiceOK'
<1>1. missed' \in 0 .. 2
  <2>1. \/ missed' \in {0, missed}
        \/ missed' = missed + 1 /\ missed <= 1
    BY DEF ServiceOK, MainOK, Next, Handler, vars, globals, handlers, service, ui, os,
           UiStart, UiStop, AttemptFails, UiCannotConnect, UiGivesUp, TestStop,
           CreatePipe, Connect, UiConnects, StatusConnects, Refreshed, Goto,
           Answer, StatusCore, RefuseStop, TakeToStop, TakeToReplace, Terminate,
           WaitForExit, RecordExit, CreateFails, CreateCore, StoreCore, Nudge,
           RequestStop, StopEvent, ProcessEnds, StopActiveCore, Stopped,
           ServiceCrash, Boot, CoreDies
  <2> QED
    BY <2>1 DEF ServiceOK
<1>2. accept' \in {"test", "create", "listen", "done"}
  BY DEF ServiceOK, Next, Handler, vars, globals, handlers, service, ui,
         os, UiStart, UiStop, AttemptFails, UiCannotConnect, UiGivesUp,
         TestStop, CreatePipe, Connect, UiConnects, StatusConnects, Refreshed,
         Goto, Answer, StatusCore, RefuseStop, TakeToStop, TakeToReplace,
         Terminate, WaitForExit, RecordExit, CreateFails, CreateCore,
         StoreCore, Nudge, RequestStop, StopEvent, ProcessEnds, StopActiveCore,
         Stopped, ServiceCrash, Boot, CoreDies
<1>3. main' \in {"wait", "join", "release", "stopped"}
  BY DEF ServiceOK, Next, Handler, vars, globals, handlers, service, ui,
         os, UiStart, UiStop, AttemptFails, UiCannotConnect, UiGivesUp,
         TestStop, CreatePipe, Connect, UiConnects, StatusConnects, Refreshed,
         Goto, Answer, StatusCore, RefuseStop, TakeToStop, TakeToReplace,
         Terminate, WaitForExit, RecordExit, CreateFails, CreateCore,
         StoreCore, Nudge, RequestStop, StopEvent, ProcessEnds, StopActiveCore,
         Stopped, ServiceCrash, Boot, CoreDies
<1>4. stopReq' \in BOOLEAN
  BY DEF ServiceOK, Next, Handler, vars, globals, handlers, service, ui,
         os, UiStart, UiStop, AttemptFails, UiCannotConnect, UiGivesUp,
         TestStop, CreatePipe, Connect, UiConnects, StatusConnects, Refreshed,
         Goto, Answer, StatusCore, RefuseStop, TakeToStop, TakeToReplace,
         Terminate, WaitForExit, RecordExit, CreateFails, CreateCore,
         StoreCore, Nudge, RequestStop, StopEvent, ProcessEnds, StopActiveCore,
         Stopped, ServiceCrash, Boot, CoreDies
<1> QED
  BY <1>1, <1>2, <1>3, <1>4 DEF ServiceOK

LEMMA MainStep ==
  ASSUME ServiceOK, MainOK, HandlersTyped, [Next]_vars
  PROVE  MainOK'
BY DEF ServiceOK, HandlersTyped, MainOK, Next, Handler, vars, globals,
       handlers, service, ui, os, UiStart, UiStop, AttemptFails,
       UiCannotConnect, UiGivesUp, TestStop, CreatePipe, Connect, UiConnects,
       StatusConnects, Refreshed, Goto, Answer, StatusCore, RefuseStop,
       TakeToStop, TakeToReplace, Terminate, WaitForExit, RecordExit,
       CreateFails, CreateCore, StoreCore, Nudge, RequestStop, StopEvent,
       ProcessEnds, StopActiveCore, Stopped, ServiceCrash, Boot, CoreDies

(* A handler about to create a core has the number for it.                 *)
LEMMA CoreLeft ==
  ASSUME TypeOK, UiOK, CoresCounted, NEW t \in Starters
  PROVE  made + 1 \in Cores
<1>1. Cardinality(Starters) \in Nat /\ Cardinality(Starters) # 0
  BY StartersFinite, FS_CardinalityType, FS_EmptySet
<1>2. made \in Nat /\ asked \in Nat /\ asked <= MaxRuns /\ Unsent \in Nat
  BY Bounds DEF TypeOK, Cores, Unsent
<1> QED
  BY <1>1, <1>2, Bounds DEF CoresCounted, Cores

LEMMA HandlersTypedStep ==
  ASSUME TypeOK, UiOK, CoresCounted, [Next]_vars
  PROVE  HandlersTyped'
<1>. USE Bounds DEF TypeOK, HandlersTyped
<1>1. pc' \in [Threads -> Steps]
  BY DEF Steps, Next, Handler, vars, globals, handlers, service, ui, os,
         UiStart, UiStop, AttemptFails, UiCannotConnect, UiGivesUp, TestStop,
         CreatePipe, Connect, UiConnects, StatusConnects, Refreshed, Goto,
         Answer, StatusCore, RefuseStop, TakeToStop, TakeToReplace, Terminate,
         WaitForExit, RecordExit, CreateFails, CreateCore, StoreCore, Nudge,
         RequestStop, StopEvent, ProcessEnds, StopActiveCore, Stopped,
         ServiceCrash, Boot, CoreDies
<1>2. run' \in [Threads -> 0 .. MaxRuns]
  BY DEF Next, Handler, vars, globals, handlers, service, ui, os, UiStart,
         UiStop, AttemptFails, UiCannotConnect, UiGivesUp, TestStop,
         CreatePipe, Connect, UiConnects, StatusConnects, Refreshed, Goto,
         Answer, StatusCore, RefuseStop, TakeToStop, TakeToReplace, Terminate,
         WaitForExit, RecordExit, CreateFails, CreateCore, StoreCore, Nudge,
         RequestStop, StopEvent, ProcessEnds, StopActiveCore, Stopped,
         ServiceCrash, Boot, CoreDies
<1>3. held' \in [Threads -> {0} \cup Cores]
  <2>1. CASE \E t \in Threads : CreateCore(t)
    BY <2>1, CoreLeft DEF CreateCore, Starters, Starting
  <2>2. CASE ~\E t \in Threads : CreateCore(t)
    BY <2>2 DEF CoreAfterRefresh, Next, Handler, vars, globals, handlers,
           service, ui, os, UiStart, UiStop, AttemptFails, UiCannotConnect,
           UiGivesUp, TestStop, CreatePipe, Connect, UiConnects,
           StatusConnects, Refreshed, Goto, Answer, StatusCore, RefuseStop,
           TakeToStop, TakeToReplace, Terminate, WaitForExit, RecordExit,
           CreateFails, StoreCore, Nudge, RequestStop, StopEvent, ProcessEnds,
           StopActiveCore, Stopped, ServiceCrash, Boot, CoreDies
  <2> QED
    BY <2>1, <2>2
<1> QED
  BY <1>1, <1>2, <1>3

LEMMA GlobalsStep ==
  ASSUME TypeOK, [Next]_vars
  PROVE  GlobalsOK'
BY DEF TypeOK, GlobalsOK, CoreAfterRefresh, ExitAfterRefresh, Next, Handler,
       vars, globals, handlers, service, ui, os, UiStart, UiStop, AttemptFails,
       UiCannotConnect, UiGivesUp, TestStop, CreatePipe, Connect, UiConnects,
       StatusConnects, Refreshed, Goto, Answer, StatusCore, RefuseStop,
       TakeToStop, TakeToReplace, Terminate, WaitForExit, RecordExit,
       CreateFails, CreateCore, StoreCore, Nudge, RequestStop, StopEvent,
       ProcessEnds, StopActiveCore, Stopped, ServiceCrash, Boot, CoreDies

LEMMA StillMade ==
  ASSUME NEW m \in Nat, NEW old, NEW running, NEW taken, NEW new,
         new \subseteq old \cup running \cup taken,
         old \subseteq 0 .. m, running \subseteq 1 .. m, taken \subseteq 0 .. m
  PROVE  new \subseteq 0 .. m
OBVIOUS

LEMMA CoresStep ==
  ASSUME TypeOK, UiOK, CoresCounted, HandlersOK, [Next]_vars
  PROVE  CoresOK'
<1>. USE Bounds DEF TypeOK, CoresOK, Cores
<1>1. CASE \E t \in Threads : CreateCore(t)
  BY <1>1, CoreLeft DEF CreateCore, Starters, Starting
<1>2. CASE ~\E t \in Threads : CreateCore(t)
  <2>1. UNCHANGED <<made, runOf>> /\ alive' \subseteq alive /\ told' \subseteq alive'
    BY <1>2 DEF Next, Handler, vars, globals, handlers, service, ui, os,
           UiStart, UiStop, AttemptFails, UiCannotConnect, UiGivesUp, TestStop,
           CreatePipe, Connect, UiConnects, StatusConnects, Refreshed, Goto,
           Answer, StatusCore, RefuseStop, TakeToStop, TakeToReplace,
           Terminate, WaitForExit, RecordExit, CreateFails, StoreCore, Nudge,
           RequestStop, StopEvent, ProcessEnds, StopActiveCore, Stopped,
           ServiceCrash, Boot, CoreDies
  <2>2. spared' \subseteq spared \cup alive \cup {held[t] : t \in Threads}
    BY <1>2 DEF Next, Handler, vars, globals, handlers, service, ui, os,
           UiStart, UiStop, AttemptFails, UiCannotConnect, UiGivesUp, TestStop,
           CreatePipe, Connect, UiConnects, StatusConnects, Refreshed, Goto,
           Answer, StatusCore, RefuseStop, TakeToStop, TakeToReplace,
           Terminate, WaitForExit, RecordExit, CreateFails, StoreCore, Nudge,
           RequestStop, StopEvent, ProcessEnds, StopActiveCore, Stopped,
           ServiceCrash, Boot, CoreDies
  <2>3. {held[t] : t \in Threads} \subseteq 0 .. made
    BY DEF HandlersOK, HandlerOK
  <2>4. alive \subseteq 1 .. made /\ spared \subseteq 0 .. made /\ made \in Nat
    OBVIOUS
  <2>5. spared' \subseteq 0 .. made'
    <3>1. spared' \subseteq 0 .. made
      <4> HIDE DEF TypeOK, CoresOK, Cores
      <4> QED
        BY <2>2, <2>3, <2>4, StillMade
    <3> QED
      BY <3>1, <2>1
  <2> QED
    BY <2>1, <2>4, <2>5
<1> QED
  BY <1>1, <1>2

(* The steps by what they do to the handlers and to what is kept.          *)
Elsewhere ==
  /\ UNCHANGED <<handlers, os, globals, spared>>
  /\ main' \in {"release", "stopped"} => main' = main

LEMMA Moves ==
  ASSUME [Next]_vars
  PROVE  \/ Elsewhere \/ StopActiveCore \/ Stopped \/ ServiceCrash
         \/ \E r \in Cores : CoreDies(r)
         \/ \E t \in Threads : UiConnects(t) \/ StatusConnects(t) \/ Handler(t)
BY DEF Elsewhere, Next, vars, globals, handlers, service, ui, os, UiStart,
       UiStop, AttemptFails, UiCannotConnect, UiGivesUp, TestStop, CreatePipe,
       Connect, Refreshed, Goto, Answer, StatusCore, RefuseStop, TakeToStop,
       TakeToReplace, Terminate, WaitForExit, RecordExit, CreateFails,
       CreateCore, StoreCore, Nudge, RequestStop, StopEvent, ProcessEnds, Boot

LEMMA CountedStep ==
  ASSUME TypeOK, UiOK, CoresCounted, [Next]_vars
  PROVE  CoresCounted'
<1>1. /\ made \in Nat /\ asked \in Nat /\ Unsent \in Nat
      /\ Cardinality(Starters) \in Nat
  BY Bounds, StartersFinite, FS_CardinalityType DEF TypeOK, Cores, Unsent
<1>2. UiOK' /\ UiTyped'
  BY UiStep, TypeParts
<1>3. CASE UNCHANGED made /\ Starters' \subseteq Starters
  <2>1. Cardinality(Starters') <= Cardinality(Starters)
    BY <1>3, StartersShrink
  <2>2. Cardinality(Starters') \in Nat
    <3>1. IsFiniteSet(Starters')
      BY <1>3, StartersFinite, FS_Subset
    <3> QED
      BY <3>1, FS_CardinalityType
  <2>3. asked' \in Nat /\ Unsent' \in Nat
    <3>1. asked' \in 0 .. MaxRuns
      BY <1>2 DEF UiTyped
    <3>2. uiTry' \in 0 .. 2
      BY <1>2 DEF UiTyped
    <3>3. asked' \in Nat
      BY <3>1, Bounds
    <3>4. uiTry' = 0 \/ uiTry' = 1 \/ uiTry' = 2
      BY <3>2
    <3>5. Unsent' = 0 \/ Unsent' = 1 \/ Unsent' = 2
      BY <3>4 DEF Unsent
    <3> QED
      BY <3>3, <3>5
  <2> QED
    BY <1>1, <1>3, <2>1, <2>2, <2>3, Requesting, TypeParts DEF CoresCounted
<1>4. ASSUME NEW t \in Threads, UiConnects(t)
      PROVE  CoresCounted'
  <2>1. UNCHANGED <<made, asked>> /\ uiCmd' = uiCmd /\ uiTry' = uiTry + 1
    BY <1>4 DEF UiConnects, Connect, os
  <2>2. CASE uiCmd = "start"
    <3>1. Starters' = Starters \cup {t}
      BY <1>4, <2>2 DEF UiConnects, Connect, Starters, Starting, TypeOK
    <3>2. Unsent' = Unsent - 1
      BY <2>1, <2>2 DEF Unsent, TypeOK
    <3>3. IsFiniteSet(Starters')
      BY <3>1, StartersFinite, FS_AddElement
    <3>4. Cardinality(Starters') \in Nat
      BY <3>3, FS_CardinalityType
    <3>5. Cardinality(Starters') <= Cardinality(Starters) + 1
      BY <3>1, StarterAdded
    <3> QED
      BY <1>1, <2>1, <3>2, <3>4, <3>5 DEF CoresCounted
  <2>3. CASE uiCmd # "start"
    <3>1. Starters' = Starters
      BY <1>4, <2>3 DEF UiConnects, Connect, Starters, Starting, TypeOK
    <3> QED
      BY <2>1, <2>3, <3>1 DEF CoresCounted, Unsent
  <2> QED
    BY <2>2, <2>3
<1>5. ASSUME NEW t \in Threads, CreateCore(t)
      PROVE  CoresCounted'
  <2>1. t \in Starters /\ Starters' = Starters \ {t}
    BY <1>5 DEF CreateCore, Goto, Starters, Starting, TypeOK
  <2>2. made' = made + 1 /\ UNCHANGED <<asked, uiCmd, uiTry>>
    BY <1>5 DEF CreateCore, ui
  <2>3. Cardinality(Starters') = Cardinality(Starters) - 1
    BY <2>1, StarterRemoved
  <2>4. Unsent' = Unsent
    BY <2>2 DEF Unsent
  <2> QED
    BY <1>1, <2>2, <2>3, <2>4 DEF CoresCounted
<1> QED
  BY <1>3, <1>4, <1>5, Counting, TypeParts

LEMMA AtWork ==
  ASSUME HandlersTyped, [Next]_vars, NEW t \in Threads,
         UiConnects(t) \/ StatusConnects(t) \/ Handler(t)
  PROVE  \A s \in Threads \ {t} : pc'[s] = pc[s] /\ held'[s] = held[s]
BY DEF HandlersTyped, UiConnects, StatusConnects, Connect, Handler, StatusCore,
       RefuseStop, TakeToStop, TakeToReplace, Terminate, WaitForExit, RecordExit,
       CreateFails, CreateCore, StoreCore, Answer, Goto

(* Only a new core is kept anew.                                           *)
LEMMA KeptChange ==
  ASSUME CoresOK, [Next]_vars
  PROVE  \/ made' = made /\ alive' \ told' \subseteq alive \ told
         \/ made' = made + 1 /\ alive' \ told' \subseteq (alive \ told) \cup {made + 1}
BY DEF CoresOK, Next, Handler, vars, globals, handlers, service, ui, os,
       UiStart, UiStop, AttemptFails, UiCannotConnect, UiGivesUp, TestStop,
       CreatePipe, Connect, UiConnects, StatusConnects, Refreshed, Goto,
       Answer, StatusCore, RefuseStop, TakeToStop, TakeToReplace, Terminate,
       WaitForExit, RecordExit, CreateFails, CreateCore, StoreCore, Nudge,
       RequestStop, StopEvent, ProcessEnds, StopActiveCore, Stopped,
       ServiceCrash, Boot, CoreDies

LEMMA HandlersStep ==
  ASSUME TypeOK, CoresOK', HandlersOK, [Next]_vars
  PROVE  HandlersOK'
<1>1. made \in Nat /\ made' \in Nat
  BY Bounds DEF TypeOK, CoresOK, Cores
<1>2. ASSUME NEW t \in Threads, pc'[t] = pc[t], held'[t] = held[t]
      PROVE  HandlerOK(t)'
  <2>1. held[t] # 0 => held[t] \in 1 .. made
    BY DEF HandlersOK, HandlerOK
  <2> QED
    BY <1>1, <1>2, <2>1, KeptChange, TypeParts DEF HandlersOK, HandlerOK, Ended, Holding
<1>3. ASSUME NEW t \in Threads, UiConnects(t) \/ StatusConnects(t) \/ Handler(t)
      PROVE  HandlerOK(t)'
  <2>. USE DEF HandlersOK, HandlerOK, Holding, Ended, TypeOK
  <2>1. CASE UiConnects(t) \/ StatusConnects(t)
    BY <2>1 DEF UiConnects, StatusConnects, Connect
  <2>2. CASE StatusCore(t) \/ RefuseStop(t) \/ CreateFails(t)
    BY <2>2 DEF StatusCore, RefuseStop, CreateFails, Answer
  <2>3. CASE TakeToStop(t) \/ TakeToReplace(t)
    BY <2>3 DEF TakeToStop, TakeToReplace, Goto, CoreAfterRefresh, os
  <2>4. CASE Terminate(t)
    BY <2>4 DEF Terminate, Goto
  <2>5. CASE WaitForExit(t)
    BY <2>5 DEF WaitForExit, Goto, os
  <2>6. CASE RecordExit(t) \/ StoreCore(t)
    BY <2>6 DEF RecordExit, StoreCore, Answer
  <2>7. CASE CreateCore(t)
    BY <2>7, <1>1 DEF CreateCore, Goto
  <2> QED
    BY <1>3, <2>1, <2>2, <2>3, <2>4, <2>5, <2>6, <2>7 DEF Handler
<1>4. ASSUME NEW t \in Threads
      PROVE  HandlerOK(t)'
  <2>1. CASE UNCHANGED <<pc, held>>
    BY <2>1, <1>2
  <2>2. CASE Stopped \/ ServiceCrash
    BY <2>2 DEF Stopped, ServiceCrash, ProcessEnds, HandlerOK, Ended
  <2>3. ASSUME NEW s \in Threads, UiConnects(s) \/ StatusConnects(s) \/ Handler(s)
        PROVE  HandlerOK(t)'
    BY <2>3, <1>2, <1>3, AtWork, TypeParts
  <2> QED
    BY <2>1, <2>2, <2>3, Moves DEF Elsewhere, StopActiveCore, CoreDies, handlers
<1>5. g_core' \in {0, g_core} \cup {held[t] : t \in Threads}
  BY DEF CoreAfterRefresh, Next, Handler, vars, globals, handlers, service, ui,
         os, UiStart, UiStop, AttemptFails, UiCannotConnect, UiGivesUp,
         TestStop, CreatePipe, Connect, UiConnects, StatusConnects, Refreshed,
         Goto, Answer, StatusCore, RefuseStop, TakeToStop, TakeToReplace,
         Terminate, WaitForExit, RecordExit, CreateFails, CreateCore,
         StoreCore, Nudge, RequestStop, StopEvent, ProcessEnds, StopActiveCore,
         Stopped, ServiceCrash, Boot, CoreDies
<1> QED
  BY <1>1, <1>4, <1>5, KeptChange, TypeParts DEF HandlersOK, HandlerOK

LEMMA OneHandlerStep ==
  ASSUME TypeOK, OneHandler, [Next]_vars
  PROVE  OneHandler'
<1>. SUFFICES ASSUME giveUps' = 0, NEW t \in Threads, pc'[t] \notin {"idle", "status"}
              PROVE  uiAt' = t
  BY DEF OneHandler
<1>1. giveUps = 0
  BY DEF TypeOK, Next, Handler, vars, globals, handlers, service, ui, os,
         UiStart, UiStop, AttemptFails, UiCannotConnect, UiGivesUp, TestStop,
         CreatePipe, Connect, UiConnects, StatusConnects, Refreshed, Goto,
         Answer, StatusCore, RefuseStop, TakeToStop, TakeToReplace, Terminate,
         WaitForExit, RecordExit, CreateFails, CreateCore, StoreCore, Nudge,
         RequestStop, StopEvent, ProcessEnds, StopActiveCore, Stopped,
         ServiceCrash, Boot, CoreDies
<1>2. CASE UNCHANGED pc
  <2>1. uiAt = t
    BY <1>1, <1>2 DEF OneHandler
  <2>2. uiAt' = uiAt \/ uiAt = 0
    BY <1>2 DEF TypeOK, Next, Handler, vars, globals, handlers, service, ui,
           os, UiStart, UiStop, AttemptFails, UiCannotConnect, UiGivesUp,
           TestStop, CreatePipe, Connect, UiConnects, StatusConnects,
           Refreshed, Goto, Answer, StatusCore, RefuseStop, TakeToStop,
           TakeToReplace, Terminate, WaitForExit, RecordExit, CreateFails,
           CreateCore, StoreCore, Nudge, RequestStop, StopEvent, ProcessEnds,
           StopActiveCore, Stopped, ServiceCrash, Boot, CoreDies
  <2> QED
    BY <2>1, <2>2, Bounds DEF Threads
<1>3. CASE Stopped \/ ServiceCrash
  BY <1>3 DEF Stopped, ServiceCrash, ProcessEnds
<1>4. ASSUME NEW s \in Threads, UiConnects(s)
      PROVE  uiAt' = t
  BY <1>1, <1>4 DEF UiConnects, Connect, OneHandler, TypeOK, Threads
<1>5. ASSUME NEW s \in Threads, StatusConnects(s)
      PROVE  uiAt' = t
  BY <1>1, <1>5 DEF StatusConnects, Connect, OneHandler, TypeOK, ui
<1>6. ASSUME NEW s \in Threads, Handler(s)
      PROVE  uiAt' = t
  <2>1. pc'[s] = "idle" \/ pc[s] \notin {"idle", "status"}
    BY <1>6 DEF Handler, StatusCore, RefuseStop, TakeToStop, TakeToReplace, Terminate,
       WaitForExit, RecordExit, CreateFails, CreateCore, StoreCore, Answer, Goto, TypeOK
  <2>2. pc[t] \notin {"idle", "status"} /\ (s = t => pc[s] \notin {"idle", "status"})
    BY <1>6, <2>1, AtWork, TypeParts
  <2>3. uiAt = t
    BY <1>1, <2>2 DEF OneHandler
  <2>4. uiAt' = uiAt \/ (uiAt = s /\ pc'[s] = "idle")
    <3>1. Answer(s) \/ UNCHANGED ui
      BY <1>6 DEF Handler, StatusCore, RefuseStop, TakeToStop, TakeToReplace, Terminate,
         WaitForExit, RecordExit, CreateFails, CreateCore, StoreCore
    <3> QED
      BY <3>1 DEF Answer, ui, TypeOK
  <2> QED
    BY <2>3, <2>4
<1> QED
  BY <1>2, <1>3, <1>4, <1>5, <1>6, Moves
  DEF Elsewhere, StopActiveCore, CoreDies, handlers

(* The three facts about what is kept that hold while no answer is late.   *)
Reachable ==
  /\ HandlersThreadSafe /\ \A r, s \in Kept : r = s
  /\ g_core # 0 => g_exit = 0
  /\ \A t \in Threads : pc[t] \in Holding \cup {"create"} => g_core = 0
  /\ main \in {"release", "stopped"} => Kept = {}

(* What is kept is within reach, and there is one at most.                 *)
LEMMA ReachableStep ==
  ASSUME TypeOK, MainOK, HandlersOK, giveUps = 0, OneHandler, Reachable, [Next]_vars
  PROVE  Reachable'
<1>1. \A s, t \in Threads : pc[s] \notin {"idle", "status"}
                             /\ pc[t] \notin {"idle", "status"} => s = t
  BY DEF OneHandler
<1>2. \A t \in Threads : held[t] # 0 => pc[t] \in Holding
  BY DEF HandlersOK, HandlerOK
<1>3. \A t \in Threads : pc[t] \in Ended => held[t] \notin Kept
  BY DEF HandlersOK, HandlerOK, Kept
<1>4. made \in Nat /\ 0 \notin Kept /\ 0 \notin Cores
  BY Bounds DEF Kept, TypeOK, Cores
<1>5. CASE Elsewhere
  BY <1>5 DEF Elsewhere, Reachable, HandlersThreadSafe, Kept, handlers, os, globals
<1>6. CASE StopActiveCore
  <2>1. Kept' = {}
    BY <1>6 DEF StopActiveCore, Reachable, HandlersThreadSafe, Kept
  <2> QED
    BY <1>6, <2>1 DEF StopActiveCore, Reachable, HandlersThreadSafe
<1>7. CASE Stopped \/ ServiceCrash
  <2>1. Kept' = {}
    BY <1>7 DEF Stopped, ServiceCrash, ProcessEnds, os, Reachable, Kept
  <2> QED
    BY <1>7, <2>1
    DEF Stopped, ServiceCrash, ProcessEnds, Reachable, HandlersThreadSafe, Holding, Ended
<1>8. ASSUME NEW r \in Cores, CoreDies(r)
      PROVE  Reachable'
  <2>1. Kept' \subseteq Kept
    BY <1>8 DEF CoreDies, Kept
  <2> QED
    BY <1>8, <2>1 DEF CoreDies, Reachable, HandlersThreadSafe, globals, handlers, service
<1>9. ASSUME NEW t \in Threads, UiConnects(t) \/ StatusConnects(t)
      PROVE  Reachable'
  <2>1. /\ UNCHANGED <<held, globals, os, spared, main>> /\ Kept' = Kept
        /\ pc' = [pc EXCEPT ![t] = "status"] \/ pc' = [pc EXCEPT ![t] = uiCmd]
    BY <1>9 DEF UiConnects, StatusConnects, Connect, Kept, os
  <2>2. \A s \in Threads : pc'[s] \in Holding \cup {"create"} => pc'[s] = pc[s]
    BY <2>1 DEF TypeOK, Holding, Ended
  <2> QED
    BY <2>1, <2>2 DEF Reachable, HandlersThreadSafe, globals
<1>10. ASSUME NEW t \in Threads, Handler(t)
       PROVE  Reachable'
  <2>1. CASE StatusCore(t) \/ RefuseStop(t)
    <3>1. /\ UNCHANGED <<held, main>> /\ Kept' = Kept /\ Refreshed
          /\ pc' = [pc EXCEPT ![t] = "idle"]
      BY <2>1 DEF StatusCore, RefuseStop, Answer, Kept, os, service
    <3>2. \A s \in Threads : pc'[s] \in Holding \cup {"create"} => pc'[s] = pc[s]
      BY <3>1 DEF TypeOK, Holding, Ended
    <3>3. g_core' = 0 \/ (g_core' = g_core /\ g_exit' = g_exit)
      BY <3>1 DEF Refreshed, CoreAfterRefresh, ExitAfterRefresh
    <3>4. HandlersThreadSafe'
      BY <3>1 DEF Refreshed, CoreAfterRefresh, Reachable, HandlersThreadSafe, Kept
    <3> QED
      BY <3>1, <3>2, <3>3, <3>4 DEF Reachable
  <2>2. CASE CreateFails(t)
    BY <2>2 DEF CreateFails, Answer, Reachable, HandlersThreadSafe, Kept, globals, os,
                service, Holding, Ended, TypeOK
  <2>3. CASE TakeToStop(t) \/ TakeToReplace(t)
    <3>1. Kept' = Kept /\ held[t] = 0
      BY <2>3, <1>2 DEF TakeToStop, TakeToReplace, Kept, os, Holding, Ended
    <3>2. HandlersThreadSafe'
      BY <2>3, <3>1, <1>4 DEF TakeToStop, TakeToReplace, CoreAfterRefresh, Reachable,
         HandlersThreadSafe, TypeOK, Kept
    <3> QED
      BY <2>3, <3>1, <3>2 DEF TakeToStop, TakeToReplace, Reachable, service
  <2>4. CASE Terminate(t)
    <3>1. Kept' \subseteq Kept
      BY <2>4 DEF Terminate, Kept
    <3> QED
      BY <2>4, <3>1 DEF Terminate, Goto, Reachable, HandlersThreadSafe, globals, service,
         Holding, Ended, TypeOK
  <2>5. CASE WaitForExit(t)
    <3>1. Kept' = Kept /\ held[t] \notin Kept
      BY <2>5, <1>3 DEF WaitForExit, Kept, os, Ended
    <3> QED
      BY <2>5, <3>1 DEF WaitForExit, Goto, Reachable, HandlersThreadSafe, globals, service,
         Holding, Ended, TypeOK
  <2>6. CASE RecordExit(t)
    <3>1. Kept' = Kept /\ held[t] \notin Kept
      BY <2>6, <1>3 DEF RecordExit, Kept, os, Ended
    <3> QED
      BY <2>6, <3>1 DEF RecordExit, Answer, Reachable, HandlersThreadSafe, service,
         Holding, Ended, TypeOK
  <2>7. CASE CreateCore(t)
    <3>1. Kept = {}
      BY <2>7, <1>1, <1>2, <1>4
      DEF CreateCore, Reachable, HandlersThreadSafe, Kept, Holding, Ended
    <3>2. /\ Kept' \subseteq {made + 1}
          /\ main = "release" => Kept' = {}
      BY <2>7, <3>1 DEF CreateCore, Kept
    <3>3. main # "stopped"
      BY <2>7 DEF CreateCore, MainOK
    <3>4. held'[t] = made + 1
      BY <2>7 DEF CreateCore, TypeOK
    <3> QED
      BY <2>7, <3>2, <3>3, <3>4
      DEF CreateCore, Goto, Reachable, HandlersThreadSafe, globals, service, TypeOK,
          Holding, Ended
  <2>8. CASE StoreCore(t)
    <3>1. Kept' = Kept /\ g_core = 0
      BY <2>8 DEF StoreCore, Kept, os, Reachable, Holding
    <3>2. HandlersThreadSafe'
      BY <2>8, <3>1, <1>4 DEF StoreCore, Reachable, HandlersThreadSafe, TypeOK
    <3>3. \A s \in Threads : pc'[s] \notin Holding \cup {"create"}
      BY <2>8, <1>1 DEF StoreCore, Answer, TypeOK, Holding, Ended
    <3> QED
      BY <2>8, <3>1, <3>2, <3>3 DEF StoreCore, Reachable, service
  <2> QED
    BY <1>10, <2>1, <2>2, <2>3, <2>4, <2>5, <2>6, <2>7, <2>8 DEF Handler
<1> QED
  BY <1>5, <1>6, <1>7, <1>8, <1>9, <1>10, Moves

-----------------------------------------------------------------------------
LEMMA ScInit ==
  ASSUME Init
  PROVE  ScInv
<1>1. GlobalsOK /\ HandlersTyped /\ ServiceOK
  <2>1. 0 \in 0 .. MaxRuns
    BY Bounds
  <2> QED
    BY <2>1, 0 \in 0 .. 2 DEF Init, GlobalsOK, HandlersTyped, ServiceOK, Steps
<1>2. UiTyped
  BY Bounds DEF Init, UiTyped
<1>3. CoresOK
  BY Bounds DEF Init, CoresOK
<1>4. TypeOK
  BY <1>1, <1>2, <1>3, TypeParts
<1>5. Starters = {}
  BY DEF Init, Starters, Starting
<1>6. CoresCounted
  BY <1>5, FS_EmptySet DEF Init, CoresCounted, Unsent
<1>7. HandlersOK
  BY DEF Init, HandlersOK, HandlerOK, Ended
<1> QED
  BY <1>4, <1>6, <1>7
  DEF Init, ScInv, OneCoreReachable, HandlersThreadSafe, Kept, NoStaleExitCode, UiOK,
      MainOK, OneHandler, TakenOver, Holding, Ended

LEMMA ScStep ==
  ASSUME ScInv, [Next]_vars
  PROVE  ScInv'
<1>. USE DEF ScInv, OneCoreReachable
<1>1. UiTyped' /\ UiOK' /\ ServiceOK' /\ MainOK' /\ HandlersTyped' /\ GlobalsOK' /\ CoresOK'
  BY TypeParts, UiStep, ServiceStep, MainStep, HandlersTypedStep, GlobalsStep, CoresStep
<1>2. TypeOK'
  BY <1>1 DEF TypeOK, GlobalsOK, HandlersTyped, ServiceOK, UiTyped, CoresOK
<1>3. CoresCounted' /\ HandlersOK' /\ OneHandler'
  BY <1>1, CountedStep, HandlersStep, OneHandlerStep
<1>4. ASSUME giveUps' = 0
      PROVE  Reachable'
  <2>1. giveUps = 0
    BY <1>4 DEF TypeOK, Next, Handler, vars, globals, handlers, service, ui,
           os, UiStart, UiStop, AttemptFails, UiCannotConnect, UiGivesUp,
           TestStop, CreatePipe, Connect, UiConnects, StatusConnects,
           Refreshed, Goto, Answer, StatusCore, RefuseStop, TakeToStop,
           TakeToReplace, Terminate, WaitForExit, RecordExit, CreateFails,
           CreateCore, StoreCore, Nudge, RequestStop, StopEvent, ProcessEnds,
           StopActiveCore, Stopped, ServiceCrash, Boot, CoreDies
  <2>2. Reachable
    BY <2>1 DEF Reachable, NoStaleExitCode, TakenOver
  <2> QED
    BY <2>1, <2>2, ReachableStep
<1> QED
  BY <1>1, <1>2, <1>3, <1>4 DEF Reachable, NoStaleExitCode, TakenOver

LEMMA ScInvariant == Spec => []ScInv
<1> QED
  BY ScInit, ScStep, PTL DEF Spec

(* While no request is sent again because its answer is late, no core is   *)
(* lost and two never run at a time: every core that was not told to end   *)
(* is g_core or in the hands of a handler that will end or store it        *)
(* (StartCore, StopCore, StopActiveCore).                                  *)
THEOREM CoreIsReachable == Spec => []OneCoreReachable
<1>1. ScInv => OneCoreReachable
  BY DEF ScInv
<1> QED
  BY <1>1, ScInvariant, PTL

(* Under the same condition no run is shown the exit code of another one:  *)
(* no core is stored while StopCore has yet to record the end of the one   *)
(* it took over (StopCore, StartCore, RefreshCoreExitLocked).              *)
THEOREM ExitCodesAreOwn == Spec => []NoStaleExitCode
<1>1. ScInv => NoStaleExitCode
  BY DEF ScInv
<1> QED
  BY <1>1, ScInvariant, PTL
=============================================================================
