------------------------------- MODULE Updater -------------------------------
(***************************************************************************)
(* The in-app updater of the Windows service                               *)
(* (windows/runner/entropy_vpn_service_{updater,apply}.cpp) and the helper *)
(* process that replaces the binary of the service itself                  *)
(* (entropy_vpn_updater.cpp).                                              *)
(*                                                                         *)
(* One worker thread at a time checks for, downloads or applies an update; *)
(* its steps are the steps after which a crash leaves something else on    *)
(* the disk.  A release gives every file a hash; releases are numbered in  *)
(* the order of their versions.  The staging directory holds one blob per  *)
(* hash, two files with the same hash share it, and .rollback a backup per *)
(* file the worker replaces.                                               *)
(*                                                                         *)
(* Bounds: MaxFaults faults; as many releases as Release has, MaxInstalls  *)
(* runs of the installer.                                                  *)
(***************************************************************************)
EXTENDS Integers, Sequences

CONSTANTS Files,        \* the files of a release
          Service,      \* entropy_vpn_service.exe
          Hashes,
          MaxVersion,
          Release,      \* the manifests: version -> file -> hash
          MaxFaults, MaxInstalls

ASSUME ServiceAssumption == Service \in Files
ASSUME VersionAssumption == MaxVersion \in Nat \ {0}
ASSUME ReleaseAssumption == Release \in [1 .. MaxVersion -> [Files -> Hashes]]
ASSUME HashesAssumption == Hashes \cap {"missing", "torn", "kept"} = {}
ASSUME BoundsAssumption == MaxFaults \in Nat /\ MaxInstalls \in Nat

Versions == 1 .. MaxVersion
FaultKinds ==
  {"network", "disk", "service", "restore", "helper", "stop", "crash"}
Contents == Hashes \cup {"missing", "torn"}

VARIABLES
  latest,       \* the newest release on the server
  (* the disk *)
  installed,    \* content of every file of the install directory
  instManifest, \* version in installed_manifest.json, 0: none or unreadable
  shipManifest, \* version in manifest.json
  blob,         \* the staged blobs: "none", "torn" or "whole" per hash
  newService,   \* content of entropy_vpn_service.exe.new
  (* the globals of the service *)
  g_state,
  g_staged,     \* version of g_staged_manifest
  (* the worker *)
  pc, target,   \* next step, version of its manifest
  todo,         \* files still to download, to swap in or to restore
  saved,        \* backups of the files it replaced, "kept" if not replaced
  before,       \* history: the install directory when the apply began
  lost,         \* history: the files the last rollback did not restore
  (* processes *)
  svc, helper,
  faults,       \* history: the faults so far, a sequence of their kinds
  installs

disk   == <<installed, instManifest, shipManifest, blob, newService>>
worker == <<target, todo, saved, before, lost>>
procs  == <<svc, helper, faults, installs>>
vars   == <<latest, disk, g_state, g_staged, pc, worker, procs>>

Want(f) == Release[target][f]
NoBackups == [f \in Files |-> "kept"]

(* ReadInstalledVersion *)
Recorded == IF instManifest # 0 THEN instManifest ELSE shipManifest

(* The installer has installed release 1, the service is running.          *)
Init ==
  /\ latest = 1
  /\ installed = Release[1]
  /\ instManifest = 0 /\ shipManifest = 1
  /\ blob = [h \in Hashes |-> "none"]
  /\ newService = "missing"
  /\ g_state = "Idle" /\ g_staged = 0
  /\ pc = "idle" /\ target = 1 /\ todo = {} /\ saved = NoBackups
  /\ before = [files |-> Release[1], recorded |-> 1] /\ lost = {}
  /\ svc = "up" /\ helper = "none" /\ faults = <<>> /\ installs = 0

Publish ==
  /\ latest < MaxVersion
  /\ latest' = latest + 1
  /\ UNCHANGED <<disk, g_state, g_staged, pc, worker, procs>>

Fault(kind) ==
  /\ Len(faults) < MaxFaults
  /\ faults' = Append(faults, kind)

Happened(kinds) == \E i \in DOMAIN faults : faults[i] \in kinds

-----------------------------------------------------------------------------
(* UpdateCheckNow: nothing but a running worker and the rate limit, which  *)
(* force lifts, hold it up.  A worker that is only about to request the    *)
(* stop of the service is joined first.                                    *)
UpdateCheckNow ==
  /\ svc = "up" /\ pc \in {"idle", "requestStop"}
  /\ g_state' = "Checking" /\ pc' = "fetch"
  /\ svc' = IF pc = "requestStop" THEN "stopping" ELSE svc
  /\ UNCHANGED <<latest, disk, g_staged, worker, helper, faults, installs>>

UpdateApply ==
  /\ svc = "up" /\ pc = "idle" /\ g_state = "Ready"
  /\ g_state' = "Applying" /\ pc' = "prepare"
  /\ UNCHANGED <<latest, disk, g_staged, worker, procs>>

-----------------------------------------------------------------------------
(* RunCheckWorker *)

Finish(state) == g_state' = state /\ pc' = "idle"

(* The answers of the server: the manifest of the newest release, or none. *)
FetchManifest ==
  /\ pc = "fetch"
  /\ \/ /\ target' = latest /\ pc' = "compare"
        /\ UNCHANGED <<g_state, faults>>
     \/ /\ Fault("network") /\ Finish("Error")
        /\ UNCHANGED target
  /\ UNCHANGED <<latest, disk, g_staged, todo, saved, before, lost, svc, helper,
                 installs>>

UpToDate ==
  /\ pc = "compare" /\ target <= Recorded
  /\ Finish("Idle")
  /\ UNCHANGED <<latest, disk, g_staged, worker, procs>>

(* The staged manifest.json is written, which may fail, and the installed  *)
(* files are hashed.                                                       *)
Diff ==
  /\ pc = "compare" /\ target > Recorded
  /\ \/ /\ g_state' = "Downloading" /\ pc' = "download"
        /\ todo' = {f \in Files : installed[f] # Want(f)}
        /\ UNCHANGED faults
     \/ /\ Fault("disk") /\ Finish("Error")
        /\ UNCHANGED todo
  /\ UNCHANGED <<latest, disk, g_staged, target, saved, before, lost, svc, helper,
                 installs>>

(* A leftover blob is used again if its hash is right ...                  *)
(* Mutant: any leftover blob would do.                                     *)
BugResumeBlob(f) ==
  /\ pc = "download" /\ f \in todo /\ blob[Want(f)] # "none"
  /\ todo' = todo \ {f}
  /\ UNCHANGED <<latest, disk, g_state, g_staged, pc, target, saved, before, lost,
                 procs>>
ResumeBlob(f) ==
  /\ pc = "download" /\ f \in todo /\ blob[Want(f)] = "whole"
  /\ todo' = todo \ {f}
  /\ UNCHANGED <<latest, disk, g_state, g_staged, pc, target, saved, before, lost,
                 procs>>

(* ... and overwritten otherwise: HttpDownloadRangeToFile truncates the    *)
(* file, ...                                                               *)
BeginBlob(f) ==
  /\ pc = "download" /\ f \in todo /\ blob[Want(f)] # "whole"
  /\ blob' = [blob EXCEPT ![Want(f)] = "torn"]
  /\ pc' = "transfer" /\ todo' = todo
  /\ UNCHANGED <<latest, installed, instManifest, shipManifest, newService,
                 g_state, g_staged, target, saved, before, lost, procs>>

(* ... and leaves it whole, or deletes it, if it can, when the transfer or *)
(* the hash check fails.                                                   *)
EndBlob(f) ==
  /\ pc = "transfer" /\ f \in todo /\ blob[Want(f)] = "torn"
  /\ \/ /\ blob' = [blob EXCEPT ![Want(f)] = "whole"]
        /\ pc' = "download" /\ todo' = todo \ {f}
        /\ UNCHANGED <<g_state, faults>>
     \/ /\ \E left \in {"none", "torn"} : blob' = [blob EXCEPT ![Want(f)] = left]
        /\ Fault("network") /\ Finish("Error")
        /\ todo' = {}
  /\ UNCHANGED <<latest, installed, instManifest, shipManifest, newService,
                 g_staged, target, saved, before, lost, svc, helper, installs>>

FinishReady ==
  /\ pc = "download" /\ todo = {}
  /\ g_staged' = target
  /\ Finish("Ready")
  /\ UNCHANGED <<latest, disk, worker, procs>>

-----------------------------------------------------------------------------
(* RunApplyWorker, ApplyStagedUpdate *)

(* The old .rollback is removed; every file whose blob is staged is to be  *)
(* swapped in, the binary of the service last.  The UI is closed.          *)
(* Mutant: every file would be swapped in, staged or not.                  *)
BugPrepareAll ==
  /\ pc = "prepare"
  /\ target' = g_staged
  /\ todo' = Files \ {Service}
  /\ saved' = NoBackups /\ lost' = {}
  /\ before' = [files |-> installed, recorded |-> Recorded]
  /\ pc' = "swap"
  /\ UNCHANGED <<latest, disk, g_state, g_staged, procs>>
Prepare ==
  /\ pc = "prepare"
  /\ target' = g_staged
  /\ todo' = {f \in Files : blob[Release[g_staged][f]] # "none"}
  /\ saved' = NoBackups /\ lost' = {}
  /\ before' = [files |-> installed, recorded |-> Recorded]
  /\ pc' = "swap"
  /\ UNCHANGED <<latest, disk, g_state, g_staged, procs>>

(* Whatever fails, the file at which it failed and every file replaced so  *)
(* far are to come back.                                                   *)
(* Mutant: the file at which the swap failed would be forgotten.           *)
BugApplyFails ==
  /\ pc' = "rollback"
  /\ todo' = {f \in Files : saved[f] # "kept" /\ installed[f] # "missing"}
  /\ UNCHANGED <<latest, installed, instManifest, shipManifest, blob, g_state,
                 g_staged, target, saved, before, lost, svc, helper, installs>>
ApplyFails ==
  /\ pc' = "rollback"
  /\ todo' = {f \in Files : saved[f] # "kept"}
  /\ UNCHANGED <<latest, installed, instManifest, shipManifest, blob, g_state,
                 g_staged, target, saved, before, lost, svc, helper, installs>>

(* Rollback: its moves and deletions may fail, which is ignored.           *)
Rollback(f) ==
  /\ pc = "rollback" /\ f \in todo
  /\ todo' = todo \ {f}
  /\ \/ installed' = [installed EXCEPT ![f] = saved[f]] /\ UNCHANGED <<lost, faults>>
     \/ Fault("restore") /\ lost' = lost \cup {f} /\ UNCHANGED installed
  /\ UNCHANGED <<latest, instManifest, shipManifest, blob, newService, g_state,
                 g_staged, pc, target, saved, before, svc, helper, installs>>

RolledBack ==
  /\ pc = "rollback" /\ todo = {}
  /\ Finish("Error")
  /\ UNCHANGED <<latest, disk, g_staged, worker, procs>>

(* The file is moved to .rollback ...                                      *)
BackUp(f) ==
  /\ pc = "swap" /\ f \in todo \ {Service}
  /\ saved' = [saved EXCEPT ![f] = installed[f]]
  /\ installed' = [installed EXCEPT ![f] = "missing"]
  /\ pc' = "move"
  /\ UNCHANGED <<latest, instManifest, shipManifest, blob, newService, g_state,
                 g_staged, target, todo, before, lost, procs>>

BackUpFails ==
  /\ pc = "swap" /\ ~(todo \subseteq {Service})
  /\ Fault("disk") /\ ApplyFails /\ UNCHANGED newService

(* ... and the blob is moved to its place.                                 *)
Moving(f) == pc = "move" /\ f \in todo \ {Service} /\ installed[f] = "missing"
                         /\ saved[f] # "kept"

MoveIn(f) ==
  /\ Moving(f) /\ blob[Want(f)] # "none"
  /\ installed' = [installed EXCEPT
                     ![f] = IF blob[Want(f)] = "whole" THEN Want(f) ELSE "torn"]
  /\ blob' = [blob EXCEPT ![Want(f)] = "none"]
  /\ todo' = todo \ {f} /\ pc' = "swap"
  /\ UNCHANGED <<latest, instManifest, shipManifest, newService, g_state,
                 g_staged, target, saved, before, lost, procs>>

(* MoveFileExW fails, in any case if the blob is gone: moved to another    *)
(* file with the same hash.                                                *)
MoveInFails(f) ==
  /\ Moving(f)
  /\ \/ blob[Want(f)] = "none" /\ UNCHANGED faults
     \/ Fault("disk")
  /\ ApplyFails /\ UNCHANGED newService

(* The staged manifest.json becomes installed_manifest.json and            *)
(* manifest.json; that this may fail is ignored.                           *)
RecordInstalled ==
  /\ pc = "swap" /\ todo \subseteq {Service}
  /\ \/ instManifest' = target /\ shipManifest' = target /\ UNCHANGED faults
     \/ /\ Fault("disk")
        /\ instManifest' \in {instManifest, 0, target}
        /\ shipManifest' \in {shipManifest, 0, target}
  /\ pc' = IF todo = {} THEN "clean" ELSE "service"
  /\ UNCHANGED <<latest, installed, blob, newService, g_state, g_staged, worker,
                 svc, helper, installs>>

(* The new service binary is put beside the running one ...                *)
CopyService ==
  /\ pc = "service" /\ blob[Want(Service)] # "none"
  /\ newService' = IF blob[Want(Service)] = "whole" THEN Want(Service)
                                                    ELSE "torn"
  /\ pc' = "spawn"
  /\ UNCHANGED <<latest, installed, instManifest, shipManifest, blob, g_state,
                 g_staged, worker, procs>>

CopyServiceFails ==
  /\ pc = "service"
  /\ \/ blob[Want(Service)] = "none" /\ UNCHANGED faults
     \/ Fault("service")
  /\ ApplyFails /\ UNCHANGED newService

(* ... and SpawnUpdaterHelper starts the process that will replace it (one  *)
(* of an earlier update has long given up).                                *)
SpawnHelper ==
  /\ pc = "spawn" /\ helper = "none"
  /\ helper' = "wait" /\ pc' = "cleanForRestart"
  /\ UNCHANGED <<latest, disk, g_state, g_staged, worker, svc, faults, installs>>

SpawnHelperFails ==
  /\ pc = "spawn" /\ Fault("service")
  /\ ApplyFails
  /\ newService' \in {"missing", newService}

(* The staging directory is removed, which may fail for some of the blobs; *)
(* the worker is done, unless service_restart_pending.                     *)
CleanStaging ==
  /\ \/ blob' = [h \in Hashes |-> "none"] /\ UNCHANGED faults
     \/ /\ Fault("disk")
        /\ \E kept \in SUBSET Hashes :
             blob' = [h \in Hashes |-> IF h \in kept THEN blob[h] ELSE "none"]
  /\ \/ pc = "clean" /\ Finish("Idle")
     \/ pc = "cleanForRestart" /\ pc' = "requestStop" /\ UNCHANGED g_state
  /\ UNCHANGED <<latest, installed, instManifest, shipManifest, newService,
                 g_staged, worker, svc, helper, installs>>

(* RequestServiceStop, with worker_active already false.                   *)
RequestServiceStop ==
  /\ pc = "requestStop"
  /\ pc' = "idle" /\ svc' = "stopping"
  /\ UNCHANGED <<latest, disk, g_state, g_staged, worker, helper, faults,
                 installs>>

-----------------------------------------------------------------------------
(* The service process *)

Forget ==
  /\ g_state' = "Idle" /\ g_staged' = 0 /\ pc' = "idle"
  /\ todo' = {} /\ saved' = NoBackups
  /\ UNCHANGED <<latest, disk, target, before, lost>>

(* What WaitForProcessExit of the helper waits for.                        *)
ProcessEnds ==
  /\ svc' = "down" /\ Forget
  /\ helper' = IF helper = "wait" THEN "replace" ELSE helper

(* ShutdownUpdater joins the worker first.                                 *)
ServiceExits ==
  /\ svc = "stopping" /\ pc = "idle"
  /\ ProcessEnds
  /\ UNCHANGED <<faults, installs>>

(* SERVICE_CONTROL_STOP or SHUTDOWN from outside.                          *)
StopService ==
  /\ svc = "up" /\ Fault("stop")
  /\ svc' = "stopping"
  /\ UNCHANGED <<latest, disk, g_state, g_staged, pc, worker, helper, installs>>

(* The service, or the whole machine, dies.                                *)
Crash ==
  /\ svc # "down" /\ Fault("crash")
  /\ \/ ProcessEnds
     \/ svc' = "down" /\ Forget /\ helper' = "none"
  /\ UNCHANGED installs

(* The UI starts the service when it needs it.                             *)
StartService ==
  /\ svc = "down"
  /\ svc' = "up"
  /\ UNCHANGED <<latest, disk, g_state, g_staged, pc, worker, helper, faults,
                 installs>>

(* The helper stops waiting after 20 s.                                    *)
HelperTimesOut ==
  /\ helper = "wait" /\ Fault("helper")
  /\ helper' = "replace"
  /\ UNCHANGED <<latest, disk, g_state, g_staged, pc, worker, svc, installs>>

(* Then it replaces the binary and starts the service, ...                 *)
(* Mutant: it would leave the service stopped.                             *)
BugHelperReplaces ==
  /\ helper = "replace" /\ svc = "down" /\ newService # "missing"
  /\ installed' = [installed EXCEPT ![Service] = newService]
  /\ newService' = "missing"
  /\ svc' = svc /\ helper' = "none"
  /\ UNCHANGED <<latest, instManifest, shipManifest, blob, g_state, g_staged,
                 pc, worker, faults, installs>>
HelperReplaces ==
  /\ helper = "replace" /\ svc = "down" /\ newService # "missing"
  /\ installed' = [installed EXCEPT ![Service] = newService]
  /\ newService' = "missing"
  /\ svc' = "up" /\ helper' = "none"
  /\ UNCHANGED <<latest, instManifest, shipManifest, blob, g_state, g_staged,
                 pc, worker, faults, installs>>

(* ... or gives up: the binary is in use or the move fails for another     *)
(* reason.  The service is not started then.                               *)
HelperGivesUp ==
  /\ helper = "replace"
  /\ \/ (svc # "down" \/ newService = "missing") /\ UNCHANGED faults
     \/ Fault("helper")
  /\ helper' = "none"
  /\ UNCHANGED <<latest, disk, g_state, g_staged, pc, worker, svc, installs>>

(* The user runs the installer of the newest release: it replaces the      *)
(* files and manifest.json, nothing else, and restarts the service.        *)
RunInstaller ==
  /\ installs < MaxInstalls /\ svc = "down" /\ helper = "none"
  /\ installs' = installs + 1
  /\ installed' = Release[latest] /\ shipManifest' = latest
  /\ UNCHANGED <<latest, instManifest, blob, newService, g_state, g_staged, pc,
                 worker, svc, helper, faults>>

-----------------------------------------------------------------------------
Check(f) == ResumeBlob(f) \/ BeginBlob(f) \/ EndBlob(f)
Swap(f) == BackUp(f) \/ MoveIn(f) \/ MoveInFails(f) \/ Rollback(f)

WorkerStep ==
  \/ FetchManifest \/ UpToDate \/ Diff \/ FinishReady
  \/ Prepare \/ BackUpFails \/ RecordInstalled \/ CopyService
  \/ CopyServiceFails \/ SpawnHelper \/ SpawnHelperFails \/ RolledBack
  \/ CleanStaging \/ RequestServiceStop
  \/ \E f \in Files : Check(f) \/ Swap(f)
HelperStep == HelperTimesOut \/ HelperReplaces \/ HelperGivesUp

Next ==
  \/ Publish \/ UpdateCheckNow \/ UpdateApply
  \/ WorkerStep \/ HelperStep
  \/ ServiceExits \/ StopService \/ Crash \/ StartService \/ RunInstaller

(* The worker and the helper run to their end, and the service stops when  *)
(* it was asked to.  Nobody has to check, to apply or to start anything.   *)
Spec == Init /\ [][Next]_vars
LiveSpec == /\ Spec
            /\ WF_vars(WorkerStep) /\ WF_vars(HelperStep) /\ WF_vars(ServiceExits)

-----------------------------------------------------------------------------
(* Type invariant. *)
TypeOK ==
  /\ latest \in Versions
  /\ installed \in [Files -> Contents]
  /\ instManifest \in 0 .. MaxVersion /\ shipManifest \in 0 .. MaxVersion
  /\ blob \in [Hashes -> {"none", "torn", "whole"}]
  /\ newService \in Contents
  /\ g_state \in {"Idle", "Checking", "Downloading", "Ready", "Applying", "Error"}
  /\ g_staged \in 0 .. MaxVersion
  /\ pc \in {"idle", "fetch", "compare", "download", "transfer", "prepare",
             "swap", "move", "service", "spawn", "clean", "cleanForRestart",
             "rollback", "requestStop"}
  /\ target \in Versions /\ todo \subseteq Files /\ lost \subseteq Files
  /\ saved \in [Files -> Contents \cup {"kept"}]
  /\ before \in [files : [Files -> Contents], recorded : 0 .. MaxVersion]
  /\ svc \in {"up", "stopping", "down"}
  /\ helper \in {"none", "wait", "replace"}
  /\ faults \in Seq(FaultKinds) /\ Len(faults) <= MaxFaults
  /\ installs \in 0 .. MaxInstalls

(* No other file, of any release, has the content of f.  The manifest may  *)
(* give two files the same hash; they then share the staged blob, which    *)
(* ApplyStagedUpdate moves to the first of them.                           *)
Alone(f) == \A g \in Files \ {f} : \A v, w \in Versions : Release[v][f] # Release[w][g]
Shares(v) == \E f, g \in Files : f # g /\ Release[v][f] = Release[v][g]

(* A truncated blob, which a crash during a download leaves behind, is     *)
(* never installed (RunCheckWorker hashes every blob it needs again).      *)
(* Three cases are excepted, for ApplyStagedUpdate swaps in whatever blob  *)
(* exists: the blob was to be that of another file with the same content;  *)
(* the installer has made it superfluous; the file is the binary of the    *)
(* service, which the helper may change behind the back of a check.        *)
NoTornFile ==
  installs = 0 => \A f \in Files \ {Service} : Alone(f) => installed[f] # "torn"

(* When a check would say "up to date", the files are those of the newest  *)
(* release, but for those that NoTornFile excepts: a failed or interrupted *)
(* apply, or one whose rollback failed, never hides an incomplete          *)
(* installation (the version is recorded only when every file is swapped   *)
(* in), unless one of the steps after that fails, see                      *)
(* FailureRollsEverythingBack.  Nothing is claimed of the binary of the    *)
(* service: it comes last, by the helper, and when the service crashes     *)
(* between the recording of the version and the start of the helper, or    *)
(* the helper dies or gives up, the old one stays and every check says "up *)
(* to date".                                                               *)
UpToDateIsInstalled ==
  installs = 0 /\ Alone(Service) /\ ~Happened({"service"}) /\ Recorded = latest
    => \A f \in Files \ {Service} :
         installed[f] = Release[latest][f] \/ (~Alone(f) /\ installed[f] = "torn")

(* What is announced as ready is staged: every file that differs has a     *)
(* whole blob, also after restarts and after other releases were staged    *)
(* (RunCheckWorker, FinishReady).  Where files share a blob it still       *)
(* cannot be applied, see NoErrorWithoutFault.                             *)
ReadyIsStaged ==
  g_state = "Ready" =>
    \A f \in Files : installed[f] # Release[g_staged][f]
                       => blob[Release[g_staged][f]] = "whole"

(* In every state of these types what is announced is true: nothing torn   *)
(* is installed, what is ready is staged and what is up to date installed. *)
AnnouncedIsTrue == TypeOK /\ NoTornFile /\ UpToDateIsInstalled /\ ReadyIsStaged

(* Without a fault of the network, the disk or a process no check and no   *)
(* apply ends in an error (g_state is Error after FinishWithError only),   *)
(* unless two files of the release have the same content: the second finds *)
(* their blob moved to the first (ApplyStagedUpdate).                      *)
NoErrorWithoutFault == faults = <<>> /\ g_state = "Error" => Shares(target)

(* An apply that fails puts every file back, the one at which it failed    *)
(* included, but for those that Rollback could not move or delete, which   *)
(* it ignores.                                                             *)
Failing == g_state = "Applying" /\ g_state' = "Error"
FailedApplyRestoresFiles ==
  [][Failing => \A f \in Files \ lost : installed'[f] = before.files[f]]_vars

(* When the service stops to be replaced, the helper brings it back,       *)
(* unless it times out, cannot move the file or dies with the machine.     *)
ServiceComesBack ==
  helper = "wait" /\ svc # "up" ~> svc = "up" \/ Happened({"helper", "crash"})

(* Every check, download and apply comes to an end, and with it the state  *)
(* the UI polls: never again "checking", "downloading" or "applying".      *)
WorkerEnds == g_state \in {"Checking", "Downloading", "Applying"}
                ~> g_state \in {"Idle", "Ready", "Error"}

(* An update comes to its end: of the work, and of the pause of the service. *)
UpdateEnds == ServiceComesBack /\ WorkerEnds

(* The documentation: "Any failure rolls everything back", and then        *)
(* "installed_manifest.json records the new state".                        *)
FailureRollsEverythingBack ==
  [][Failing => installed' = before.files /\ Recorded' = before.recorded]_vars
=============================================================================
