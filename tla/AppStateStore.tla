---------------------------- MODULE AppStateStore ----------------------------
(***************************************************************************)
(* The state file of the app (lib/services/app_state_store.dart) and who   *)
(* writes it (_queuePersistState, _runShutdownForExit and hydration in     *)
(* vpn_controller.dart).                                                   *)
(*                                                                         *)
(* A state is its version, counted over the changes of the user.  A save   *)
(* goes through three files, one step of it is one action, and a fault is  *)
(* a rename that fails, a write that fails, or the end of the process in   *)
(* the middle of a save (a crash, or a quit that does not wait for it).    *)
(* Bounds: MaxVersions changes, MaxFaults faults.                          *)
(***************************************************************************)
EXTENDS Integers, Sequences

CONSTANTS MaxVersions, MaxFaults

ASSUME AppStateStoreAssumption == MaxVersions \in Nat /\ MaxFaults \in Nat

VARIABLES
  file,      \* [primary, temp, backup]: a version, Absent or Torn
  app,       \* "off", "loading", "running" or "closing"
  current,   \* the version in memory
  last,      \* the last version there was
  timer,     \* _persistDebounceTimer is active
  queue,     \* the saves that wait for _pendingSave
  step,      \* what the save under way does next, or "none"
  lastSaved, \* the version of the last save that was done
  faults

storeVars == <<file, app, current, last, timer, queue, step, lastSaved, faults>>

Absent == 0
Torn == -1
Good(version) == version > 0

StoreInit ==
  /\ file = [primary |-> Absent, temp |-> Absent, backup |-> Absent]
  /\ app = "off" /\ current = 0 /\ last = 0 /\ timer = FALSE /\ queue = <<>>
  /\ step = "none" /\ lastSaved = 0 /\ faults = 0

-----------------------------------------------------------------------------
(* load: what it may return.  The temporary file is never older than the   *)
(* primary one; that it is newer cannot be told when both were written     *)
(* within the resolution of the time stamps.                               *)
Loaded ==
  IF Good(file.primary)
  THEN {file.primary} \cup (IF Good(file.temp) THEN {file.temp} ELSE {})
  ELSE IF Good(file.temp) THEN {file.temp}
  ELSE IF Good(file.backup) THEN {file.backup} ELSE {Absent}

(* What was not read from the primary file is written to it first.         *)
Load ==
  /\ app = "off"
  /\ \E version \in Loaded :
       /\ current' = version
       /\ \/ version \in {file.primary, Absent} /\ app' = "running" /\ UNCHANGED queue
          \/ Good(version) /\ ~(Good(file.primary) /\ version # file.temp)
             /\ app' = "loading" /\ queue' = <<version>>
  /\ UNCHANGED <<file, last, timer, step, lastSaved, faults>>

UserChanges ==
  /\ app = "running" /\ last < MaxVersions
  /\ last' = last + 1 /\ current' = last' /\ timer' = TRUE
  /\ UNCHANGED <<file, app, queue, step, lastSaved, faults>>

PersistTimerFires ==
  /\ app = "running" /\ timer
  /\ timer' = FALSE /\ queue' = Append(queue, current)
  /\ UNCHANGED <<file, app, current, last, step, lastSaved, faults>>

(* _runShutdownForExit saves what the timer has not.                       *)
Shutdown ==
  /\ app = "running"
  /\ app' = "closing" /\ timer' = FALSE
  /\ queue' = IF timer THEN Append(queue, current) ELSE queue
  /\ UNCHANGED <<file, current, last, step, lastSaved, faults>>

-----------------------------------------------------------------------------
(* _writeStateFile.                                                        *)
Goto(at) == step' = at /\ UNCHANGED <<app, current, last, timer, lastSaved, faults>>

BeginSave ==
  /\ app # "off" /\ step = "none" /\ queue # <<>>
  /\ Goto("temp") /\ UNCHANGED <<file, queue>>
WriteTemp ==
  /\ step = "temp"
  /\ file' = [file EXCEPT !.temp = Head(queue)]
  /\ Goto(IF file.primary = Absent THEN "rename" ELSE "backup") /\ UNCHANGED queue
CopyBackup ==
  /\ step = "backup"
  /\ file' = [file EXCEPT !.backup = file.primary]
  /\ Goto("rename") /\ UNCHANGED queue

(* Mutant: the backup is deleted before the primary file is there.         *)
BugRename ==
  /\ step = "rename"
  /\ \/ /\ file' = [file EXCEPT !.primary = file.temp, !.temp = Absent]
        /\ Goto("clean")
     \/ /\ faults < MaxFaults /\ faults' = faults + 1
        /\ step' = "fallback"
        /\ file' = [file EXCEPT !.backup = Absent]
        /\ UNCHANGED <<app, current, last, timer, lastSaved>>
  /\ UNCHANGED queue
Rename ==
  /\ step = "rename"
  /\ \/ /\ file' = [file EXCEPT !.primary = file.temp, !.temp = Absent]
        /\ Goto("clean")
     \/ /\ faults < MaxFaults /\ faults' = faults + 1
        /\ step' = "fallback"
        /\ UNCHANGED <<file, app, current, last, timer, lastSaved>>
  /\ UNCHANGED queue
CopyOverPrimary ==
  /\ step = "fallback"
  /\ \/ file' = [file EXCEPT !.primary = file.temp, !.temp = Absent]
     \/ file' = [file EXCEPT !.primary = file.temp]
  /\ Goto("clean") /\ UNCHANGED queue

(* The save is over; hydration goes on when it was the recovered state.    *)
SaveOver ==
  /\ step' = "none" /\ queue' = Tail(queue)
  /\ app' = IF app = "loading" THEN "running" ELSE app
  /\ UNCHANGED <<current, last, timer>>
DeleteBackup ==
  /\ step = "clean"
  /\ file' \in {file, [file EXCEPT !.backup = Absent]}
  /\ lastSaved' = Head(queue)
  /\ SaveOver /\ UNCHANGED faults

(* The files as the failure or the end of the step under way leaves them.  *)
Interrupted ==
  {file} \cup CASE step = "temp" -> {[file EXCEPT !.temp = Torn]}
                [] step = "backup" -> {[file EXCEPT !.backup = Torn]}
                [] step = "fallback" -> {[file EXCEPT !.primary = Torn]}
                [] OTHER -> {}

(* A write fails: save throws, the promotion swallows it.                  *)
WriteFails ==
  /\ step \in {"temp", "backup", "fallback"} /\ faults < MaxFaults
  /\ faults' = faults + 1
  /\ file' \in Interrupted
  /\ SaveOver /\ UNCHANGED lastSaved

Off == app' = "off" /\ timer' = FALSE /\ queue' = <<>> /\ step' = "none"

Crash ==
  /\ app # "off" /\ faults < MaxFaults
  /\ faults' = faults + 1
  /\ file' \in Interrupted
  /\ Off /\ UNCHANGED <<current, last, lastSaved>>

Exit ==
  /\ app = "closing" /\ queue = <<>>
  /\ Off /\ UNCHANGED <<file, current, last, lastSaved, faults>>

StoreNext ==
  \/ Load \/ UserChanges \/ PersistTimerFires \/ Shutdown \/ Exit
  \/ BeginSave \/ WriteTemp \/ CopyBackup \/ Rename \/ CopyOverPrimary
  \/ DeleteBackup \/ WriteFails \/ Crash

-----------------------------------------------------------------------------
(* Whenever the app starts again, it finds a state that is not older than  *)
(* the last one whose save was done, whatever three faults came between    *)
(* (the temporary file, the .bak and the order in which _writeStateFile    *)
(* touches them, for saves and for what load recovers); and exactly the    *)
(* last state there was when it was closed and nothing went wrong.         *)
SavedStateSurvives ==
  /\ \A version \in Loaded : lastSaved <= version /\ version <= last
  /\ app = "off" /\ faults = 0 => Loaded = {current}
=============================================================================
