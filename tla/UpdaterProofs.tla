---------------------------- MODULE UpdaterProofs ----------------------------
(***************************************************************************)
(* AnnouncedIsTrue, NoErrorWithoutFault and FailedApplyRestoresFiles of    *)
(* Updater, for any number of files, releases, faults and installations.   *)
(* What is ready and what is restored holds of every history of releases;  *)
(* the rest names the files and releases whose content is not theirs alone.*)
(***************************************************************************)
EXTENDS Updater, TLAPS

Downloads == {"download", "transfer"}
Swaps == {"swap", "move"}
Applies == Swaps \cup {"service", "spawn"}
Undoes == Applies \cup {"rollback"}

(* The parts of the type invariant.                                        *)
ControlOK ==
  /\ pc \in {"idle", "fetch", "compare", "download", "transfer", "prepare",
             "swap", "move", "service", "spawn", "clean", "cleanForRestart",
             "rollback", "requestStop"}
  /\ g_state \in {"Idle", "Checking", "Downloading", "Ready", "Applying", "Error"}
  /\ svc \in {"up", "stopping", "down"} /\ helper \in {"none", "wait", "replace"}
NumbersOK ==
  /\ latest \in Versions /\ target \in Versions /\ g_staged \in 0 .. MaxVersion
  /\ instManifest \in 0 .. MaxVersion /\ shipManifest \in 0 .. MaxVersion
  /\ installs \in 0 .. MaxInstalls
BlobsOK ==
  blob \in [Hashes -> {"none", "torn", "whole"}] /\ newService \in Contents
FilesOK ==
  /\ installed \in [Files -> Contents] /\ todo \subseteq Files /\ lost \subseteq Files
  /\ saved \in [Files -> Contents \cup {"kept"}]
  /\ before \in [files : [Files -> Contents], recorded : 0 .. MaxVersion]
FaultsOK == faults \in Seq(FaultKinds) /\ Len(faults) <= MaxFaults

(* The state the UI polls is that of the worker, which runs only while the *)
(* service does; its binary is the last to be installed.                   *)
WorkerOK ==
  /\ pc \in {"fetch", "compare"} => g_state = "Checking"
  /\ pc \in Downloads => g_state = "Downloading"
  /\ pc \in {"prepare", "clean", "cleanForRestart", "requestStop"} \cup Undoes
       => g_state = "Applying"
  /\ pc # "idle" => svc # "down"
  /\ g_state = "Applying" /\ pc = "idle" => svc = "stopping"
  /\ svc = "down" => g_state = "Idle"
  /\ pc = "prepare" \/ g_state = "Ready" => g_staged # 0
  /\ pc = "service" => Service \in todo

(* What is no longer to be downloaded is staged.                           *)
Staged ==
  /\ pc \in Downloads =>
       \A f \in Files \ todo : installed[f] # Want(f) => blob[Want(f)] = "whole"
  /\ g_state = "Ready" \/ pc = "prepare" =>
       \A f \in Files : installed[f] # Release[g_staged][f]
                          => blob[Release[g_staged][f]] = "whole"

(* A file to be swapped in has no backup, but for the one being moved, ... *)
OneAtATime ==
  /\ pc = "swap" => \A f \in todo : saved[f] = "kept"
  /\ pc = "move" => \A f, g \in todo :
                      saved[f] # "kept" /\ saved[g] # "kept" => f = g

(* ... and the backups and the other files are what was there before.      *)
Backups ==
  pc \in Undoes =>
    \A f \in Files : before.files[f] = IF saved[f] = "kept" THEN installed[f]
                                       ELSE saved[f]

(* A rollback has restored every file that is neither lost nor to come.    *)
Restored ==
  pc = "rollback" =>
    /\ \A f \in todo : saved[f] # "kept"
    /\ \A f \in Files \ (todo \cup lost) :
         saved[f] = "kept" \/ installed[f] = saved[f]

(* Holds of every history of releases.                                     *)
AnyInv == TypeOK /\ WorkerOK /\ Staged /\ OneAtATime /\ Backups /\ Restored

(* While files are swapped in, every file still to come finds its blob, if *)
(* no other file of the release shares it.                                 *)
Only(f) == \A g \in Files \ {f} : Want(g) # Want(f)
BlobsServe ==
  pc \in Swaps \cup {"service"} =>
    \A f \in todo : Only(f) => blob[Want(f)] # "none"

(* No apply fails after it has recorded its version.                       *)
NotLate == Alone(Service) /\ ~Happened({"service"})

(* A worker works on a release that is newer than what is recorded.        *)
RecordedOK ==
  /\ instManifest <= latest /\ shipManifest <= latest
  /\ target <= latest /\ g_staged <= latest
  /\ pc \in {"compare"} \cup Swaps \cup Downloads =>
       instManifest <= target /\ shipManifest <= target
  /\ pc \in Swaps \cup Downloads \/ (pc = "rollback" /\ NotLate)
       => Recorded < target
  /\ pc = "prepare" \/ g_state = "Ready" =>
       instManifest <= g_staged /\ shipManifest <= g_staged /\ Recorded < g_staged

(* What a file and its backup contain is of that file.                     *)
Own(f) == {"missing", "torn", "kept"} \cup {Release[v][f] : v \in Versions}
OwnContents ==
  \A f \in Files \ {Service} :
    installed[f] \in Own(f) /\ (pc \in Undoes => saved[f] \in Own(f))

(* Nothing torn is installed, saved or to be swapped in, nor is the blob   *)
(* of anything installed or saved torn.                                    *)
Whole(c) == c # "torn" /\ (c \in Hashes => blob[c] # "torn")
Untorn ==
  installs = 0 =>
    \A f \in Files \ {Service} : Alone(f) =>
      /\ Whole(installed[f]) /\ (pc \in Undoes => Whole(saved[f]))
      /\ pc \in Swaps /\ f \in todo => blob[Want(f)] # "torn"

ToDownload == pc \in Downloads => \A f \in todo : installed[f] # Want(f)

(* What is no longer to be swapped in is installed.                        *)
Swapped ==
  installs = 0 /\ pc \in Swaps =>
    \A f \in Files \ {Service} : f \notin todo =>
      installed[f] = Want(f) \/ (~Alone(f) /\ installed[f] = "torn")

(* Without a fault a rollback begins only where files share a blob.        *)
FaultlessRollback == faults = <<>> /\ pc = "rollback" => Shares(target)

(* What is announced follows from this.                                    *)
TrueInv ==
  /\ AnyInv /\ RecordedOK /\ BlobsServe /\ OwnContents /\ Untorn /\ ToDownload
  /\ Swapped /\ NoErrorWithoutFault /\ FaultlessRollback /\ UpToDateIsInstalled

-----------------------------------------------------------------------------
(* What is assumed of the constants.                                       *)
LEMMA Assumptions ==
  /\ Release \in [Versions -> [Files -> Hashes]] /\ Service \in Files
  /\ MaxVersion \in Nat \ {0} /\ MaxFaults \in Nat /\ MaxInstalls \in Nat
  /\ Hashes \cap {"missing", "torn", "kept"} = {}
BY ServiceAssumption, VersionAssumption, ReleaseAssumption, HashesAssumption,
   BoundsAssumption DEF Versions

LEMMA TypeParts == TypeOK <=> ControlOK /\ NumbersOK /\ BlobsOK /\ FilesOK /\ FaultsOK
BY DEF TypeOK, ControlOK, NumbersOK, BlobsOK, FilesOK, FaultsOK

(* A fault is recorded for good.                                           *)
LEMMA FaultRecorded ==
  ASSUME NEW kind \in FaultKinds, FaultsOK, Fault(kind)
  PROVE  /\ FaultsOK' /\ faults' # <<>>
         /\ \A kinds : Happened(kinds) \/ kind \in kinds => Happened(kinds)'
BY BoundsAssumption DEF FaultsOK, Fault, Happened

LEMMA FaultsKept ==
  ASSUME UNCHANGED faults
  PROVE  \A kinds : Happened(kinds) <=> Happened(kinds)'
BY DEF Happened

-----------------------------------------------------------------------------
(* Which actions a state can come from, given where its worker stands.     *)

(* The server, the service manager and a stutter do not touch the worker.  *)
Aside == UNCHANGED <<disk, worker, pc, g_state, g_staged, installs>>

LEMMA Comparing ==
  ASSUME WorkerOK, [Next]_vars, pc' = "compare"
  PROVE  Aside \/ FetchManifest
BY DEF WorkerOK, Aside, Next, WorkerStep, HelperStep, Check, Swap, vars, disk,
       worker, procs, Publish, UpdateCheckNow, UpdateApply, UpToDate, Diff,
       ResumeBlob, BeginBlob, EndBlob, FinishReady, Prepare, BackUp,
       BackUpFails, MoveIn, MoveInFails, RecordInstalled, CopyService,
       CopyServiceFails, SpawnHelper, SpawnHelperFails, CleanStaging,
       RequestServiceStop, ServiceExits, StopService, Crash, StartService,
       HelperTimesOut, HelperReplaces, HelperGivesUp, RunInstaller, ApplyFails,
       Rollback, RolledBack, Moving, Finish, Forget, ProcessEnds

LEMMA Downloading ==
  ASSUME WorkerOK, [Next]_vars, pc' \in Downloads
  PROVE  \/ Aside \/ Diff
         \/ \E f \in Files : ResumeBlob(f) \/ BeginBlob(f) \/ EndBlob(f)
BY DEF WorkerOK, Downloads, Swaps, Applies, Undoes, Aside, Next, WorkerStep,
       HelperStep, Check, Swap, vars, disk, worker, procs, Publish,
       UpdateCheckNow, UpdateApply, FetchManifest, UpToDate, FinishReady,
       Prepare, BackUp, BackUpFails, MoveIn, MoveInFails, RecordInstalled,
       CopyService, CopyServiceFails, SpawnHelper, SpawnHelperFails,
       CleanStaging, RequestServiceStop, ServiceExits, StopService, Crash,
       StartService, HelperTimesOut, HelperReplaces, HelperGivesUp,
       RunInstaller, ApplyFails, Rollback, RolledBack, Moving, Finish, Forget,
       ProcessEnds

LEMMA Readying ==
  ASSUME WorkerOK, [Next]_vars, g_state' = "Ready" \/ pc' = "prepare"
  PROVE  Aside \/ FinishReady \/ UpdateApply
BY DEF WorkerOK, Downloads, Swaps, Applies, Undoes, Aside, Next, WorkerStep,
       HelperStep, Check, Swap, vars, disk, worker, procs, Publish,
       UpdateCheckNow, FetchManifest, UpToDate, Diff, ResumeBlob, BeginBlob,
       EndBlob, Prepare, BackUp, BackUpFails, MoveIn, MoveInFails,
       RecordInstalled, CopyService, CopyServiceFails, SpawnHelper,
       SpawnHelperFails, CleanStaging, RequestServiceStop, ServiceExits,
       StopService, Crash, StartService, HelperTimesOut, HelperReplaces,
       HelperGivesUp, RunInstaller, ApplyFails, Rollback, RolledBack, Moving,
       Finish, Forget, ProcessEnds

LEMMA Swapping ==
  ASSUME WorkerOK, [Next]_vars, pc' \in Swaps
  PROVE  Aside \/ Prepare \/ \E f \in Files : BackUp(f) \/ MoveIn(f)
BY DEF WorkerOK, Swaps, Applies, Aside, Next, WorkerStep, HelperStep, Check,
       Swap, vars, disk, worker, procs, Publish, UpdateCheckNow, UpdateApply,
       FetchManifest, UpToDate, Diff, ResumeBlob, BeginBlob, EndBlob,
       FinishReady, BackUpFails, MoveInFails, RecordInstalled, CopyService,
       CopyServiceFails, SpawnHelper, SpawnHelperFails, CleanStaging,
       RequestServiceStop, ServiceExits, StopService, Crash, StartService,
       HelperTimesOut, HelperReplaces, HelperGivesUp, RunInstaller, ApplyFails,
       Rollback, RolledBack, Moving, Finish, Forget, ProcessEnds

LEMMA Applying ==
  ASSUME WorkerOK, [Next]_vars, pc' \in Applies
  PROVE  \/ Aside \/ Prepare \/ \E f \in Files : BackUp(f) \/ MoveIn(f)
         \/ RecordInstalled \/ CopyService
BY DEF WorkerOK, Swaps, Applies, Aside, Next, WorkerStep, HelperStep, Check,
       Swap, vars, disk, worker, procs, Publish, UpdateCheckNow, UpdateApply,
       FetchManifest, UpToDate, Diff, ResumeBlob, BeginBlob, EndBlob,
       FinishReady, BackUpFails, MoveInFails, CopyServiceFails, SpawnHelper,
       SpawnHelperFails, CleanStaging, RequestServiceStop, ServiceExits,
       StopService, Crash, StartService, HelperTimesOut, HelperReplaces,
       HelperGivesUp, RunInstaller, ApplyFails, Rollback, RolledBack, Moving,
       Finish, Forget, ProcessEnds

(* The four places where an apply fails.                                   *)
Fails ==
  \/ BackUpFails \/ (\E f \in Files : MoveInFails(f))
  \/ CopyServiceFails \/ SpawnHelperFails

(* Each begins a rollback.                                                 *)
LEMMA FailsRollBack ==
  ASSUME Fails
  PROVE  /\ pc \in Applies /\ pc' = "rollback"
         /\ todo' = {f \in Files : saved[f] # "kept"}
         /\ UNCHANGED <<installed, blob, target, saved, before, lost, installs,
                        latest, instManifest, shipManifest, g_staged>>
BY DEF Fails, BackUpFails, MoveInFails, CopyServiceFails, SpawnHelperFails,
       Moving, ApplyFails, Applies, Swaps

LEMMA RollingBack ==
  ASSUME WorkerOK, [Next]_vars, pc' = "rollback"
  PROVE  Aside \/ Fails \/ \E f \in Files : Rollback(f)
BY DEF WorkerOK, Fails, Aside, Next, WorkerStep, HelperStep, Check,
       Swap, vars, disk, worker, procs, Publish, UpdateCheckNow, UpdateApply,
       FetchManifest, UpToDate, Diff, ResumeBlob, BeginBlob, EndBlob,
       FinishReady, Prepare, BackUp, MoveIn, RecordInstalled, CopyService,
       SpawnHelper, CleanStaging, RequestServiceStop, ServiceExits,
       StopService, Crash, StartService, HelperTimesOut, HelperReplaces,
       HelperGivesUp, RunInstaller, RolledBack, Moving, Finish, Forget,
       ProcessEnds

LEMMA Erring ==
  ASSUME WorkerOK, [Next]_vars, g_state' = "Error"
  PROVE  \/ UNCHANGED g_state \/ RolledBack
         \/ g_state # "Applying" /\ \E kind \in FaultKinds : Fault(kind)
BY DEF WorkerOK, Downloads, FaultKinds, Next, WorkerStep, HelperStep, Check,
       Swap, vars, disk, worker, procs, Publish, UpdateCheckNow, UpdateApply,
       FetchManifest, UpToDate, Diff, ResumeBlob, BeginBlob, EndBlob,
       FinishReady, Prepare, BackUp, BackUpFails, MoveIn, MoveInFails,
       RecordInstalled, CopyService, CopyServiceFails, SpawnHelper,
       SpawnHelperFails, CleanStaging, RequestServiceStop, ServiceExits,
       StopService, Crash, StartService, HelperTimesOut, HelperReplaces,
       HelperGivesUp, RunInstaller, ApplyFails, Rollback, Moving, Finish,
       Forget, ProcessEnds

(* Who changes files, and who changes versions.                            *)
LEMMA FilesChange ==
  ASSUME [Next]_vars
  PROVE  \/ UNCHANGED installed
         \/ \E f \in Files : BackUp(f) \/ MoveIn(f) \/ Rollback(f)
         \/ HelperReplaces \/ RunInstaller
BY DEF Next, WorkerStep, HelperStep, Check, Swap, vars, disk, worker,
       procs, Publish, UpdateCheckNow, UpdateApply, FetchManifest, UpToDate,
       Diff, ResumeBlob, BeginBlob, EndBlob, FinishReady, Prepare, BackUpFails,
       MoveInFails, RecordInstalled, CopyService, CopyServiceFails,
       SpawnHelper, SpawnHelperFails, RolledBack, CleanStaging,
       RequestServiceStop, ServiceExits, StopService, Crash, StartService,
       HelperTimesOut, HelperGivesUp, ApplyFails, Moving, Finish, Forget,
       ProcessEnds

LEMMA NumbersChange ==
  ASSUME [Next]_vars
  PROVE  \/ UNCHANGED <<latest, target, g_staged, instManifest, shipManifest,
                        installs>>
         \/ Publish \/ FetchManifest \/ FinishReady \/ Prepare
         \/ RecordInstalled \/ Forget \/ RunInstaller
BY DEF Next, WorkerStep, HelperStep, Check, Swap, vars, disk, worker, procs,
       UpdateCheckNow, UpdateApply, UpToDate, Diff, ResumeBlob, BeginBlob,
       EndBlob, BackUp, BackUpFails, MoveIn, MoveInFails, CopyService,
       CopyServiceFails, SpawnHelper, SpawnHelperFails, CleanStaging,
       RequestServiceStop, ServiceExits, StopService, Crash, StartService,
       HelperTimesOut, HelperReplaces, HelperGivesUp, ApplyFails, Rollback,
       RolledBack, Moving, Finish, ProcessEnds

(* Only a download that begins tears a blob.                               *)
LEMMA BlobsChange ==
  ASSUME BlobsOK, [Next]_vars, NEW h \in Hashes, blob'[h] = "torn"
  PROVE  blob[h] = "torn" \/ \E f \in Files : BeginBlob(f) /\ h = Want(f)
BY DEF BlobsOK, Next, WorkerStep, HelperStep, Check, Swap, vars, disk, worker,
       procs, Publish, UpdateCheckNow, UpdateApply, FetchManifest, UpToDate,
       Diff, ResumeBlob, BeginBlob, EndBlob, FinishReady, Prepare, BackUp,
       BackUpFails, MoveIn, MoveInFails, RecordInstalled, CopyService,
       CopyServiceFails, SpawnHelper, SpawnHelperFails, CleanStaging,
       RequestServiceStop, ServiceExits, StopService, Crash, StartService,
       HelperTimesOut, HelperReplaces, HelperGivesUp, RunInstaller, ApplyFails,
       Rollback, RolledBack, Moving, Finish, Forget, ProcessEnds


-----------------------------------------------------------------------------
(* The type invariant, part by part.                                       *)
LEMMA ControlStep ==
  ASSUME ControlOK, [Next]_vars
  PROVE  ControlOK'
BY DEF ControlOK, Next, WorkerStep, HelperStep, Check, Swap, vars, disk,
       worker, procs, Publish, UpdateCheckNow, UpdateApply, FetchManifest,
       UpToDate, Diff, ResumeBlob, BeginBlob, EndBlob, FinishReady, Prepare,
       BackUp, BackUpFails, MoveIn, MoveInFails, RecordInstalled, CopyService,
       CopyServiceFails, SpawnHelper, SpawnHelperFails, CleanStaging,
       RequestServiceStop, ServiceExits, StopService, Crash, StartService,
       HelperTimesOut, HelperReplaces, HelperGivesUp, RunInstaller, ApplyFails,
       Rollback, RolledBack, Moving, Finish, Forget, ProcessEnds

LEMMA NumbersStep ==
  ASSUME TypeOK, WorkerOK, [Next]_vars
  PROVE  NumbersOK'
<1>. USE Assumptions DEF TypeOK, NumbersOK, Versions
<1>1. CASE UNCHANGED <<latest, target, g_staged, instManifest, shipManifest,
                       installs>>
  BY <1>1
<1>2. CASE Publish \/ FetchManifest \/ FinishReady
  BY <1>2 DEF Publish, FetchManifest, FinishReady, disk, worker, procs
<1>3. CASE Prepare
  BY <1>3 DEF Prepare, WorkerOK, disk, procs
<1>4. CASE RecordInstalled
  BY <1>4 DEF RecordInstalled, worker
<1>5. CASE Forget
  <2>1. UNCHANGED <<latest, target, instManifest, shipManifest>> /\ g_staged' = 0
    BY <1>5 DEF Forget, disk
  <2>2. installs' \in 0 .. MaxInstalls
    BY <1>5 DEF Next, WorkerStep, HelperStep, Check, Swap, vars, disk, worker,
           procs, Publish, UpdateCheckNow, UpdateApply, FetchManifest,
           UpToDate, Diff, ResumeBlob, BeginBlob, EndBlob, FinishReady,
           Prepare, BackUp, BackUpFails, MoveIn, MoveInFails, RecordInstalled,
           CopyService, CopyServiceFails, SpawnHelper, SpawnHelperFails,
           CleanStaging, RequestServiceStop, ServiceExits, StopService, Crash,
           StartService, HelperTimesOut, HelperReplaces, HelperGivesUp,
           RunInstaller, ApplyFails, Rollback, RolledBack, Moving, Finish,
           ProcessEnds
  <2> QED
    BY <2>1, <2>2
<1>6. CASE RunInstaller
  BY <1>6 DEF RunInstaller, worker
<1> QED
  BY <1>1, <1>2, <1>3, <1>4, <1>5, <1>6, NumbersChange

LEMMA InstallsGrow ==
  ASSUME TypeOK, [Next]_vars, installs' = 0
  PROVE  installs = 0
BY Assumptions DEF TypeOK, Next, WorkerStep, HelperStep, Check, Swap, vars,
       disk, worker, procs, Publish, UpdateCheckNow, UpdateApply,
       FetchManifest, UpToDate, Diff, ResumeBlob, BeginBlob, EndBlob,
       FinishReady, Prepare, BackUp, BackUpFails, MoveIn, MoveInFails,
       RecordInstalled, CopyService, CopyServiceFails, SpawnHelper,
       SpawnHelperFails, CleanStaging, RequestServiceStop, ServiceExits,
       StopService, Crash, StartService, HelperTimesOut, HelperReplaces,
       HelperGivesUp, RunInstaller, ApplyFails, Rollback, RolledBack, Moving,
       Finish, Forget, ProcessEnds

LEMMA BlobsStep ==
  ASSUME TypeOK, [Next]_vars
  PROVE  BlobsOK'
<1>. USE Assumptions DEF TypeOK, BlobsOK, Versions, Contents, Want
<1>1. \/ UNCHANGED blob \/ CleanStaging
      \/ \E f \in Files : BeginBlob(f) \/ EndBlob(f) \/ MoveIn(f)
  BY DEF Next, WorkerStep, HelperStep, Check, Swap, vars, disk, worker, procs,
         Publish, UpdateCheckNow, UpdateApply, FetchManifest, UpToDate, Diff,
         ResumeBlob, FinishReady, Prepare, BackUp, BackUpFails, MoveInFails,
         RecordInstalled, CopyService, CopyServiceFails, SpawnHelper,
         SpawnHelperFails, RequestServiceStop, ServiceExits, StopService,
         Crash, StartService, HelperTimesOut, HelperReplaces, HelperGivesUp,
         RunInstaller, ApplyFails, Rollback, RolledBack, Moving, Finish,
         Forget, ProcessEnds
<1>2. blob' \in [Hashes -> {"none", "torn", "whole"}]
  BY <1>1 DEF CleanStaging, BeginBlob, EndBlob, MoveIn
<1>3. newService' \in {newService, "missing"} \/ CopyService
  BY DEF Next, WorkerStep, HelperStep, Check, Swap, vars, disk, worker, procs,
         Publish, UpdateCheckNow, UpdateApply, FetchManifest, UpToDate, Diff,
         ResumeBlob, BeginBlob, EndBlob, FinishReady, Prepare, BackUp,
         BackUpFails, MoveIn, MoveInFails, RecordInstalled, CopyServiceFails,
         SpawnHelper, SpawnHelperFails, CleanStaging, RequestServiceStop,
         ServiceExits, StopService, Crash, StartService, HelperTimesOut,
         HelperReplaces, HelperGivesUp, RunInstaller, ApplyFails, Rollback,
         RolledBack, Moving, Finish, Forget, ProcessEnds
<1>4. newService' \in Contents
  BY <1>3 DEF CopyService
<1> QED
  BY <1>2, <1>4

LEMMA FilesStep ==
  ASSUME TypeOK, WorkerOK, Restored, [Next]_vars
  PROVE  FilesOK'
<1>. USE Assumptions DEF TypeOK, FilesOK, Contents
<1>1. installed' \in [Files -> Contents]
  <2>1. CASE UNCHANGED installed
    BY <2>1
  <2>2. ASSUME NEW f \in Files, BackUp(f) \/ MoveIn(f)
        PROVE  installed' \in [Files -> Contents]
    BY <2>2 DEF BackUp, MoveIn, Want
  <2>3. ASSUME NEW f \in Files, Rollback(f)
        PROVE  installed' \in [Files -> Contents]
    BY <2>3 DEF Rollback, Restored
  <2>4. CASE HelperReplaces \/ RunInstaller
    BY <2>4 DEF HelperReplaces, RunInstaller
  <2> QED
    BY <2>1, <2>2, <2>3, <2>4, FilesChange
<1>2. todo' \subseteq Files /\ lost' \subseteq Files
  BY DEF Next, WorkerStep, HelperStep, Check, Swap, vars, disk, worker, procs,
         Publish, UpdateCheckNow, UpdateApply, FetchManifest, UpToDate, Diff,
         ResumeBlob, BeginBlob, EndBlob, FinishReady, Prepare, BackUp,
         BackUpFails, MoveIn, MoveInFails, RecordInstalled, CopyService,
         CopyServiceFails, SpawnHelper, SpawnHelperFails, CleanStaging,
         RequestServiceStop, ServiceExits, StopService, Crash, StartService,
         HelperTimesOut, HelperReplaces, HelperGivesUp, RunInstaller,
         ApplyFails, Rollback, RolledBack, Moving, Finish, Forget, ProcessEnds
<1>3. saved' \in [Files -> Contents \cup {"kept"}]
  <2>1. UNCHANGED saved \/ saved' = NoBackups \/ \E f \in Files : BackUp(f)
    BY DEF Next, WorkerStep, HelperStep, Check, Swap, vars, disk, worker,
           procs, Publish, UpdateCheckNow, UpdateApply, FetchManifest,
           UpToDate, Diff, ResumeBlob, BeginBlob, EndBlob, FinishReady,
           Prepare, BackUpFails, MoveIn, MoveInFails, RecordInstalled,
           CopyService, CopyServiceFails, SpawnHelper, SpawnHelperFails,
           CleanStaging, RequestServiceStop, ServiceExits, StopService, Crash,
           StartService, HelperTimesOut, HelperReplaces, HelperGivesUp,
           RunInstaller, ApplyFails, Rollback, RolledBack, Moving, Finish,
           Forget, ProcessEnds
  <2> QED
    BY <2>1 DEF BackUp, NoBackups, procs
<1>4. before' \in [files : [Files -> Contents], recorded : 0 .. MaxVersion]
  BY DEF Recorded, Next, WorkerStep, HelperStep, Check, Swap, vars, disk,
         worker, procs, Publish, UpdateCheckNow, UpdateApply, FetchManifest,
         UpToDate, Diff, ResumeBlob, BeginBlob, EndBlob, FinishReady, Prepare,
         BackUp, BackUpFails, MoveIn, MoveInFails, RecordInstalled,
         CopyService, CopyServiceFails, SpawnHelper, SpawnHelperFails,
         CleanStaging, RequestServiceStop, ServiceExits, StopService, Crash,
         StartService, HelperTimesOut, HelperReplaces, HelperGivesUp,
         RunInstaller, ApplyFails, Rollback, RolledBack, Moving, Finish,
         Forget, ProcessEnds
<1> QED
  BY <1>1, <1>2, <1>3, <1>4

LEMMA FaultsStep ==
  ASSUME FaultsOK, [Next]_vars
  PROVE  /\ FaultsOK' /\ (faults # <<>> => faults' # <<>>)
         /\ \A kinds : Happened(kinds) => Happened(kinds)'
<1>1. UNCHANGED faults \/ \E kind \in FaultKinds : Fault(kind)
  BY DEF FaultKinds, Next, WorkerStep, HelperStep, Check, Swap, vars, disk,
         worker, procs, Publish, UpdateCheckNow, UpdateApply, FetchManifest,
         UpToDate, Diff, ResumeBlob, BeginBlob, EndBlob, FinishReady, Prepare,
         BackUp, BackUpFails, MoveIn, MoveInFails, RecordInstalled,
         CopyService, CopyServiceFails, SpawnHelper, SpawnHelperFails,
         CleanStaging, RequestServiceStop, ServiceExits, StopService, Crash,
         StartService, HelperTimesOut, HelperReplaces, HelperGivesUp,
         RunInstaller, ApplyFails, Rollback, RolledBack, Moving, Finish,
         Forget, ProcessEnds
<1>2. CASE UNCHANGED faults
  BY <1>2, FaultsKept DEF FaultsOK
<1> QED
  BY <1>1, <1>2, FaultRecorded

LEMMA WorkerStepOK ==
  ASSUME TypeOK, WorkerOK, [Next]_vars
  PROVE  WorkerOK'
BY DEF TypeOK, Versions, WorkerOK, Downloads, Swaps, Applies, Undoes, Next,
       WorkerStep, HelperStep, Check, Swap, vars, disk, worker, procs, Publish,
       UpdateCheckNow, UpdateApply, FetchManifest, UpToDate, Diff, ResumeBlob,
       BeginBlob, EndBlob, FinishReady, Prepare, BackUp, BackUpFails, MoveIn,
       MoveInFails, RecordInstalled, CopyService, CopyServiceFails,
       SpawnHelper, SpawnHelperFails, CleanStaging, RequestServiceStop,
       ServiceExits, StopService, Crash, StartService, HelperTimesOut,
       HelperReplaces, HelperGivesUp, RunInstaller, ApplyFails, Rollback,
       RolledBack, Moving, Finish, Forget, ProcessEnds

-----------------------------------------------------------------------------
(* The invariants of any history of releases.                              *)

(* A download ends only when every file that differs is staged; a transfer *)
(* tears only the blob of a file that is still to be downloaded.           *)
LEMMA StagedStep ==
  ASSUME TypeOK, WorkerOK, Staged, [Next]_vars
  PROVE  Staged'
<1>1. ASSUME pc' \in Downloads
      PROVE  \A f \in (Files \ todo)' : installed'[f] # Want(f)'
                                          => blob'[Want(f)'] = "whole"
  <2>. USE DEF TypeOK, Staged, Downloads, Want
  <2>1. CASE Aside
    BY <2>1, <1>1 DEF Aside, disk, worker
  <2>2. CASE Diff
    BY <2>2, <1>1 DEF Diff, disk, Finish
  <2>3. ASSUME NEW f \in Files, ResumeBlob(f) \/ BeginBlob(f)
        PROVE  \A g \in (Files \ todo)' : installed'[g] # Want(g)'
                                            => blob'[Want(g)'] = "whole"
    BY <2>3, Assumptions DEF ResumeBlob, BeginBlob, disk
  <2>4. ASSUME NEW f \in Files, EndBlob(f)
        PROVE  \A g \in (Files \ todo)' : installed'[g] # Want(g)'
                                            => blob'[Want(g)'] = "whole"
    BY <2>4, <1>1, Assumptions DEF EndBlob, Finish
  <2> QED
    BY <1>1, <2>1, <2>2, <2>3, <2>4, Downloading
<1>2. ASSUME g_state' = "Ready" \/ pc' = "prepare"
      PROVE  \A f \in Files : installed'[f] # Release[g_staged'][f]
                                => blob'[Release[g_staged'][f]] = "whole"
  <2>1. CASE Aside
    BY <2>1, <1>2 DEF Aside, Staged, disk
  <2>2. CASE FinishReady
    BY <2>2 DEF FinishReady, Staged, Downloads, Want, disk
  <2>3. CASE UpdateApply
    BY <2>3 DEF UpdateApply, Staged, disk
  <2> QED
    BY <1>2, <2>1, <2>2, <2>3, Readying
<1> QED
  BY <1>1, <1>2 DEF Staged, Want

LEMMA OneAtATimeStep ==
  ASSUME TypeOK, WorkerOK, OneAtATime, [Next]_vars
  PROVE  OneAtATime'
<1>. SUFFICES ASSUME pc' \in Swaps
              PROVE  OneAtATime'
  BY DEF OneAtATime, Swaps
<1>. USE DEF OneAtATime, TypeOK
<1>1. CASE Aside
  BY <1>1 DEF Aside, worker
<1>2. CASE Prepare
  BY <1>2 DEF Prepare, NoBackups
<1>3. ASSUME NEW f \in Files, BackUp(f)
      PROVE  OneAtATime'
  BY <1>3 DEF BackUp
<1>4. ASSUME NEW f \in Files, MoveIn(f)
      PROVE  OneAtATime'
  BY <1>4 DEF MoveIn, Moving
<1> QED
  BY <1>1, <1>2, <1>3, <1>4, Swapping

LEMMA BackupsStep ==
  ASSUME TypeOK, WorkerOK, OneAtATime, Backups, Restored, [Next]_vars
  PROVE  Backups'
<1>. USE Assumptions DEF Backups, TypeOK, Undoes, Applies, Swaps
<1>. SUFFICES ASSUME pc' \in Undoes
              PROVE  Backups'
  OBVIOUS
<1>1. CASE Aside
  BY <1>1 DEF Aside, disk, worker
<1>2. CASE Prepare
  BY <1>2 DEF Prepare, NoBackups, disk
<1>3. ASSUME NEW f \in Files, BackUp(f)
      PROVE  Backups'
  BY <1>3 DEF BackUp, OneAtATime, Contents
<1>4. ASSUME NEW f \in Files, MoveIn(f)
      PROVE  Backups'
  BY <1>4 DEF MoveIn, Moving
<1>5. CASE RecordInstalled \/ CopyService
  BY <1>5 DEF RecordInstalled, CopyService, worker
<1>6. CASE Fails
  BY <1>6, FailsRollBack
<1>7. ASSUME NEW f \in Files, Rollback(f)
      PROVE  Backups'
  BY <1>7 DEF Rollback, Restored
<1> QED
  BY <1>1, <1>2, <1>3, <1>4, <1>5, <1>6, <1>7, Applying, RollingBack

(* Every file that is no longer to be restored is, or is lost.             *)
LEMMA RestoredStep ==
  ASSUME TypeOK, WorkerOK, Restored, [Next]_vars
  PROVE  Restored'
<1>. USE DEF Restored, TypeOK
<1>. SUFFICES ASSUME pc' = "rollback"
              PROVE  Restored'
  OBVIOUS
<1>1. CASE Aside
  BY <1>1 DEF Aside, disk, worker
<1>2. CASE Fails
  BY <1>2, FailsRollBack
<1>3. ASSUME NEW f \in Files, Rollback(f)
      PROVE  Restored'
  BY <1>3 DEF Rollback
<1> QED
  BY <1>1, <1>2, <1>3, RollingBack

LEMMA AnyInit ==
  ASSUME Init
  PROVE  AnyInv
<1>1. TypeOK
  BY Assumptions DEF Init, TypeOK, Versions, Contents, NoBackups
<1> QED
  BY <1>1 DEF Init, AnyInv, WorkerOK, Staged, OneAtATime, Backups, Restored,
              Downloads, Undoes, Applies, Swaps

LEMMA AnyStep ==
  ASSUME AnyInv, [Next]_vars
  PROVE  AnyInv'
<1>1. TypeOK'
  <2>1. (ControlOK /\ NumbersOK /\ BlobsOK /\ FilesOK /\ FaultsOK)'
    BY ControlStep, NumbersStep, BlobsStep, FilesStep, FaultsStep, TypeParts
       DEF AnyInv
  <2> QED
    BY <2>1 DEF TypeOK, ControlOK, NumbersOK, BlobsOK, FilesOK, FaultsOK
<1> QED
  BY <1>1, WorkerStepOK, StagedStep, OneAtATimeStep, BackupsStep, RestoredStep
  DEF AnyInv

(* The invariant of every history of releases: types, the state the UI     *)
(* polls, what is staged and what is backed up.                            *)
THEOREM AnyRelease == Spec => []AnyInv
<1>1. Init => AnyInv
  BY AnyInit
<1>2. AnyInv /\ [Next]_vars => AnyInv'
  BY AnyStep
<1> QED
  BY <1>1, <1>2, PTL DEF Spec

(* What is announced as ready is staged completely.                        *)
THEOREM ReadyIsComplete == Spec => []ReadyIsStaged
<1>1. AnyInv => ReadyIsStaged
  BY DEF AnyInv, Staged, ReadyIsStaged
<1> QED
  BY <1>1, AnyRelease, PTL

(* An apply that fails puts back every file that Rollback can move.        *)
THEOREM FailuresRestore == Spec => FailedApplyRestoresFiles
<1>1. ASSUME AnyInv, [Next]_vars, Failing
      PROVE  \A f \in Files \ lost : installed'[f] = before.files[f]
  <2>1. RolledBack
    BY <1>1, Erring DEF Failing, AnyInv
  <2> QED
    BY <1>1, <2>1 DEF RolledBack, AnyInv, Backups, Restored, Undoes, disk
<1>2. AnyInv /\ [Next]_vars =>
        [Failing => \A f \in Files \ lost : installed'[f] = before.files[f]]_vars
  BY <1>1
<1> QED
  BY <1>2, AnyRelease, PTL DEF Spec, FailedApplyRestoresFiles

-----------------------------------------------------------------------------
(* What is announced.                                                      *)

(* The last two steps fail after a fault of theirs only, if no other file  *)
(* has taken the blob of the service.                                      *)
LEMMA LateFails ==
  ASSUME TypeOK, WorkerOK, BlobsServe, [Next]_vars, NotLate, NotLate'
  PROVE  ~CopyServiceFails /\ ~SpawnHelperFails
<1>1. ~Fault("service")
  BY FaultRecorded, TypeParts DEF NotLate, FaultKinds
<1>2. ASSUME pc = "service"
      PROVE  blob[Want(Service)] # "none"
  BY <1>2, Assumptions DEF BlobsServe, WorkerOK, NotLate, Alone, Only, Want,
         TypeOK
<1> QED
  BY <1>1, <1>2 DEF CopyServiceFails, SpawnHelperFails

LEMMA RecordedStep ==
  ASSUME TypeOK, WorkerOK, BlobsServe, RecordedOK, [Next]_vars
  PROVE  RecordedOK'
<1>. USE Assumptions DEF TypeOK, Versions, RecordedOK, Recorded
<1>1. /\ instManifest' <= latest' /\ shipManifest' <= latest'
      /\ target' <= latest' /\ g_staged' <= latest'
  <2>1. CASE UNCHANGED <<latest, target, g_staged, instManifest, shipManifest,
                         installs>>
    BY <2>1
  <2>2. CASE Publish \/ FetchManifest \/ FinishReady \/ Prepare
    BY <2>2 DEF Publish, FetchManifest, FinishReady, Prepare, disk, worker,
           procs
  <2>3. CASE RecordInstalled \/ Forget \/ RunInstaller
    BY <2>3 DEF RecordInstalled, Forget, RunInstaller, disk, worker
  <2> QED
    BY <2>1, <2>2, <2>3, NumbersChange
<1>2. ASSUME pc' = "compare"
      PROVE  instManifest' <= target' /\ shipManifest' <= target'
  <2>1. CASE Aside
    BY <2>1, <1>2 DEF Aside, disk, worker
  <2>2. CASE FetchManifest
    BY <2>2, <1>2 DEF FetchManifest, Finish, disk
  <2> QED
    BY <1>2, <2>1, <2>2, Comparing
<1>3. ASSUME pc' \in Downloads
      PROVE  /\ instManifest' <= target' /\ shipManifest' <= target'
             /\ Recorded' < target'
  <2>1. CASE Aside
    BY <2>1, <1>3 DEF Aside, disk, worker
  <2>2. CASE Diff
    BY <2>2, <1>3 DEF Diff, Finish, disk, Downloads
  <2>3. ASSUME NEW f \in Files, ResumeBlob(f) \/ BeginBlob(f) \/ EndBlob(f)
        PROVE  pc \in Downloads /\ UNCHANGED <<instManifest, shipManifest, target>>
    BY <2>3 DEF ResumeBlob, BeginBlob, EndBlob, disk, Downloads
  <2> QED
    BY <1>3, <2>1, <2>2, <2>3, Downloading
<1>6. ASSUME pc' = "rollback", NotLate'
      PROVE  Recorded' < target'
  <2>1. NotLate
    BY <1>6, FaultsStep, TypeParts DEF NotLate
  <2>2. CASE Aside
    BY <2>1, <2>2, <1>6 DEF Aside, disk, worker
  <2>3. CASE Fails
    <3>1. ~CopyServiceFails /\ ~SpawnHelperFails
      BY <2>1, <1>6, LateFails
    <3>2. pc \in Swaps
      BY <2>3, <3>1 DEF Fails, BackUpFails, MoveInFails, Moving, Swaps
    <3> QED
      BY <2>3, <3>2, FailsRollBack
  <2>4. ASSUME NEW f \in Files, Rollback(f)
        PROVE  Recorded' < target'
    BY <2>1, <2>4 DEF Rollback
  <2> QED
    BY <1>6, <2>2, <2>3, <2>4, RollingBack
<1>4. ASSUME pc' \in Swaps
      PROVE  /\ instManifest' <= target' /\ shipManifest' <= target'
             /\ Recorded' < target'
  <2>1. CASE Aside
    BY <2>1, <1>4 DEF Aside, disk, worker
  <2>2. CASE Prepare
    BY <2>2 DEF Prepare, disk
  <2>3. ASSUME NEW f \in Files, BackUp(f) \/ MoveIn(f)
        PROVE  pc \in Swaps /\ UNCHANGED <<instManifest, shipManifest, target>>
    BY <2>3 DEF BackUp, MoveIn, Moving, Swaps
  <2> QED
    BY <1>4, <2>1, <2>2, <2>3, Swapping
<1>5. ASSUME pc' = "prepare" \/ g_state' = "Ready"
      PROVE  /\ instManifest' <= g_staged' /\ shipManifest' <= g_staged'
             /\ Recorded' < g_staged'
  <2>1. CASE Aside
    BY <2>1, <1>5 DEF Aside, disk
  <2>2. CASE FinishReady
    BY <2>2 DEF FinishReady, disk, Downloads
  <2>3. CASE UpdateApply
    BY <2>3 DEF UpdateApply, disk
  <2> QED
    BY <1>5, <2>1, <2>2, <2>3, Readying
<1> QED
  BY <1>1, <1>2, <1>3, <1>4, <1>5, <1>6

(* MoveIn takes the blob away from the files that share it.                *)
LEMMA BlobsServeStep ==
  ASSUME TypeOK, WorkerOK, BlobsServe, [Next]_vars
  PROVE  BlobsServe'
<1>. USE DEF BlobsServe, Only, Want, TypeOK
<1>. SUFFICES ASSUME pc' \in Swaps \cup {"service"}
              PROVE  BlobsServe'
  OBVIOUS
<1>1. CASE Aside
  BY <1>1 DEF Aside, disk, worker
<1>2. CASE Prepare
  BY <1>2 DEF Prepare, disk
<1>3. ASSUME NEW f \in Files, BackUp(f)
      PROVE  BlobsServe'
  BY <1>3 DEF BackUp, Swaps
<1>4. ASSUME NEW f \in Files, MoveIn(f)
      PROVE  BlobsServe'
  BY <1>4, Assumptions DEF MoveIn, Moving, Swaps
<1>5. CASE RecordInstalled
  BY <1>5 DEF RecordInstalled, worker, Swaps
<1>6. CASE CopyService
  BY <1>6 DEF CopyService, Swaps
<1> QED
  BY <1>1, <1>2, <1>3, <1>4, <1>5, <1>6, Applying DEF Applies

LEMMA OwnContentsStep ==
  ASSUME TypeOK, WorkerOK, OwnContents, [Next]_vars
  PROVE  OwnContents'
<1>. USE Assumptions DEF TypeOK, OwnContents, Own
<1>1. ASSUME NEW f \in Files \ {Service}
      PROVE  installed'[f] \in Own(f)
  <2>1. CASE UNCHANGED installed
    BY <2>1
  <2>2. ASSUME NEW g \in Files, BackUp(g) \/ MoveIn(g)
        PROVE  installed'[f] \in Own(f)
    BY <2>2 DEF BackUp, MoveIn, Want
  <2>3. ASSUME NEW g \in Files, Rollback(g)
        PROVE  installed'[f] \in Own(f)
    BY <2>3 DEF Rollback, Undoes
  <2>4. CASE HelperReplaces \/ RunInstaller
    BY <2>4 DEF HelperReplaces, RunInstaller
  <2> QED
    BY <2>1, <2>2, <2>3, <2>4, FilesChange
<1>2. ASSUME NEW f \in Files \ {Service}, pc' \in Undoes
      PROVE  saved'[f] \in Own(f)
  <2>1. CASE Aside
    BY <2>1, <1>2 DEF Aside, worker
  <2>2. CASE Prepare
    BY <2>2 DEF Prepare, NoBackups
  <2>3. ASSUME NEW g \in Files, BackUp(g) \/ MoveIn(g)
        PROVE  saved'[f] \in Own(f)
    BY <2>3 DEF BackUp, MoveIn, Moving, Undoes, Applies, Swaps
  <2>4. CASE RecordInstalled \/ CopyService
    BY <2>4 DEF RecordInstalled, CopyService, Undoes, Applies, Swaps, worker
  <2>5. CASE Fails
    BY <2>5, FailsRollBack DEF Undoes
  <2>6. ASSUME NEW g \in Files, Rollback(g)
        PROVE  saved'[f] \in Own(f)
    BY <2>6 DEF Rollback, Undoes
  <2> QED
    BY <1>2, <2>1, <2>2, <2>3, <2>4, <2>5, <2>6, Applying, RollingBack DEF Undoes
<1> QED
  BY <1>1, <1>2

LEMMA ToDownloadStep ==
  ASSUME TypeOK, WorkerOK, ToDownload, [Next]_vars
  PROVE  ToDownload'
<1>. SUFFICES ASSUME pc' \in Downloads
              PROVE  ToDownload'
  BY DEF ToDownload
<1>. USE DEF ToDownload, Want
<1>1. CASE Aside
  BY <1>1 DEF Aside, disk, worker
<1>2. CASE Diff
  BY <1>2 DEF Diff, Finish, Downloads, disk
<1>3. ASSUME NEW f \in Files, ResumeBlob(f) \/ BeginBlob(f) \/ EndBlob(f)
      PROVE  ToDownload'
  BY <1>3 DEF ResumeBlob, BeginBlob, EndBlob, Finish, Downloads, disk
<1> QED
  BY <1>1, <1>2, <1>3, Downloading

LEMMA SwappedStep ==
  ASSUME TypeOK, WorkerOK, Staged, Untorn, Swapped, [Next]_vars
  PROVE  Swapped'
<1>. SUFFICES ASSUME pc' \in Swaps, installs' = 0
              PROVE  Swapped'
  BY DEF Swapped
<1>. USE DEF Swapped, Want, TypeOK
<1>1. CASE Aside
  BY <1>1 DEF Aside, disk, worker
<1>2. CASE Prepare
  BY <1>2, Assumptions DEF Prepare, Staged, WorkerOK, Versions, disk
<1>3. ASSUME NEW f \in Files, BackUp(f)
      PROVE  Swapped'
  BY <1>3 DEF BackUp, Swaps, procs
<1>4. ASSUME NEW f \in Files, MoveIn(f)
      PROVE  Swapped'
  BY <1>4, Assumptions DEF MoveIn, Moving, Swaps, Untorn, Whole, procs
<1> QED
  BY <1>1, <1>2, <1>3, <1>4, Swapping

(* A blob is torn only while what it replaces is not installed anywhere,   *)
(* so that a file that is installed, or backed up, stays whole.            *)
LEMMA UntornStep ==
  ASSUME TypeOK, WorkerOK, Staged, ToDownload, OwnContents, Untorn, [Next]_vars
  PROVE  Untorn'
<1>. SUFFICES ASSUME installs' = 0
              PROVE  Untorn'
  BY DEF Untorn
<1>1. installs = 0
  BY InstallsGrow
<1>. USE <1>1, Assumptions DEF TypeOK
<1>. SUFFICES ASSUME NEW f \in Files \ {Service}, Alone(f)
              PROVE  /\ Whole(installed[f])'
                     /\ (pc \in Undoes)' => Whole(saved[f])'
                     /\ (pc \in Swaps /\ f \in todo)' => blob'[Want(f)'] # "torn"
  BY DEF Untorn, Alone
<1>2. ASSUME installed[f] \in Hashes
      PROVE  blob'[installed[f]] # "torn"
  <2>1. blob[installed[f]] # "torn"
    BY <1>2 DEF Untorn, Whole
  <2>2. SUFFICES ASSUME NEW g \in Files, BeginBlob(g), installed[f] = Want(g)
                 PROVE  FALSE
    BY <1>2, <2>1, BlobsChange, TypeParts
  <2>3. installed[g] # Want(g)
    BY <2>2 DEF BeginBlob, ToDownload, Downloads
  <2>4. PICK v \in Versions : installed[f] = Release[v][f]
    BY <1>2 DEF OwnContents, Own
  <2> QED
    BY <2>2, <2>3, <2>4 DEF Alone, Want
<1>3. Whole(installed[f])'
  <2>1. CASE UNCHANGED installed
    BY <2>1, <1>2 DEF Untorn, Whole
  <2>2. ASSUME NEW g \in Files, BackUp(g)
        PROVE  Whole(installed[f])'
    BY <2>2, <1>2 DEF BackUp, Untorn, Whole
  <2>3. ASSUME NEW g \in Files, MoveIn(g)
        PROVE  Whole(installed[f])'
    BY <2>3, <1>2 DEF MoveIn, Moving, Swaps, Untorn, Whole, Want
  <2>4. ASSUME NEW g \in Files, Rollback(g)
        PROVE  Whole(installed[f])'
    BY <2>4, <1>2 DEF Rollback, Restored, Untorn, Whole, Undoes
  <2>5. CASE HelperReplaces
    BY <2>5, <1>2 DEF HelperReplaces, Untorn, Whole
  <2>6. CASE RunInstaller
    BY <2>6 DEF RunInstaller
  <2> QED
    BY <2>1, <2>2, <2>3, <2>4, <2>5, <2>6, FilesChange
<1>4. ASSUME pc' \in Undoes
      PROVE  Whole(saved[f])'
  <2>1. CASE Aside
    BY <2>1, <1>4 DEF Aside, disk, worker, Untorn, Whole
  <2>2. CASE Prepare
    BY <2>2 DEF Prepare, NoBackups, Whole
  <2>3. ASSUME NEW g \in Files, BackUp(g)
        PROVE  Whole(saved[f])'
    BY <2>3 DEF BackUp, Untorn, Whole, Undoes, Applies, Swaps
  <2>4. ASSUME NEW g \in Files, MoveIn(g)
        PROVE  Whole(saved[f])'
    BY <2>4 DEF MoveIn, Moving, Untorn, Whole, Undoes, Applies, Swaps, Want
  <2>5. CASE RecordInstalled \/ CopyService
    BY <2>5 DEF RecordInstalled, CopyService, Untorn, Whole, Undoes, Applies,
                Swaps, worker
  <2>6. CASE Fails
    BY <2>6, FailsRollBack DEF Untorn, Whole, Undoes
  <2>7. ASSUME NEW g \in Files, Rollback(g)
        PROVE  Whole(saved[f])'
    BY <2>7 DEF Rollback, Untorn, Whole, Undoes
  <2> QED
    BY <1>4, <2>1, <2>2, <2>3, <2>4, <2>5, <2>6, <2>7, Applying, RollingBack
    DEF Undoes
<1>5. ASSUME pc' \in Swaps, f \in todo'
      PROVE  blob'[Want(f)'] # "torn"
  <2>1. CASE Aside
    BY <2>1, <1>5 DEF Aside, disk, worker, Untorn, Want
  <2>2. CASE Prepare
    <3>. SUFFICES blob[Release[g_staged][f]] # "torn"
      BY <2>2 DEF Prepare, Want, disk
    <3>1. CASE installed[f] = Release[g_staged][f]
      BY <3>1, <2>2 DEF Untorn, Whole, WorkerOK, Versions, Prepare
    <3>2. CASE installed[f] # Release[g_staged][f]
      BY <3>2, <2>2 DEF Staged, Prepare
    <3> QED
      BY <3>1, <3>2
  <2>3. ASSUME NEW g \in Files, BackUp(g)
        PROVE  blob'[Want(f)'] # "torn"
    BY <2>3, <1>5 DEF BackUp, Untorn, Swaps, Want
  <2>4. ASSUME NEW g \in Files, MoveIn(g)
        PROVE  blob'[Want(f)'] # "torn"
    BY <2>4, <1>5 DEF MoveIn, Moving, Untorn, Swaps, Want
  <2> QED
    BY <1>5, <2>1, <2>2, <2>3, <2>4, Swapping
<1> QED
  BY <1>3, <1>4, <1>5

LEMMA NoErrorStep ==
  ASSUME TypeOK, WorkerOK, BlobsServe, NoErrorWithoutFault, FaultlessRollback,
         [Next]_vars
  PROVE  NoErrorWithoutFault' /\ FaultlessRollback'
<1>1. FaultsOK
  BY TypeParts
<1>. SUFFICES ASSUME faults' = <<>>, g_state' = "Error" \/ pc' = "rollback"
              PROVE  Shares(target')
  BY DEF NoErrorWithoutFault, FaultlessRollback, Shares
<1>2. faults = <<>> /\ \A kind \in FaultKinds : ~Fault(kind)
  BY <1>1, FaultsStep, FaultRecorded
<1>3. CASE pc' = "rollback"
  <2>1. CASE Aside
    BY <1>2, <1>3, <2>1 DEF Aside, worker, FaultlessRollback
  <2>2. CASE Fails
    <3>. USE DEF BlobsServe, Only, Want, Shares, Swaps
    <3>1. ASSUME NEW f \in Files, MoveInFails(f)
          PROVE  Shares(target)
      BY <1>2, <3>1 DEF MoveInFails, Moving, FaultKinds
    <3>2. ASSUME CopyServiceFails
          PROVE  Shares(target)
      BY <1>2, <3>2, Assumptions DEF CopyServiceFails, WorkerOK, FaultKinds
    <3>3. ~BackUpFails /\ ~SpawnHelperFails
      BY <1>2 DEF BackUpFails, SpawnHelperFails, FaultKinds
    <3> QED
      BY <2>2, <3>1, <3>2, <3>3, FailsRollBack DEF Fails
  <2>3. ASSUME NEW f \in Files, Rollback(f)
        PROVE  Shares(target')
    BY <1>2, <2>3 DEF Rollback, FaultlessRollback
  <2> QED
    BY <1>3, <2>1, <2>2, <2>3, RollingBack
<1>4. CASE g_state' = "Error"
  <2>1. CASE UNCHANGED g_state
    <3>1. UNCHANGED target \/ FetchManifest \/ Prepare
      BY NumbersChange DEF Publish, FinishReady, RecordInstalled, Forget,
                           RunInstaller, worker
    <3>2. ~FetchManifest /\ ~Prepare
      BY <1>4, <2>1 DEF FetchManifest, Prepare, WorkerOK, Undoes
    <3> QED
      BY <1>2, <1>4, <2>1, <3>1, <3>2 DEF NoErrorWithoutFault
  <2>2. CASE RolledBack
    BY <1>2, <2>2 DEF RolledBack, worker, FaultlessRollback
  <2> QED
    BY <1>2, <1>4, <2>1, <2>2, Erring
<1> QED
  BY <1>3, <1>4

(* The files change only while the version recorded is older than that of  *)
(* the worker, and it is recorded only when all of them are swapped in.    *)
LEMMA UpToDateStep ==
  ASSUME TypeOK, WorkerOK, RecordedOK, Swapped, UpToDateIsInstalled, [Next]_vars
  PROVE  UpToDateIsInstalled'
<1>. SUFFICES ASSUME installs' = 0, NotLate', Recorded' = latest',
                     NEW f \in Files \ {Service}
              PROVE  \/ installed'[f] = Release[latest'][f]
                     \/ ~Alone(f) /\ installed'[f] = "torn"
  BY DEF UpToDateIsInstalled, NotLate, Alone
<1>1. installs = 0 /\ FaultsOK /\ NotLate
  BY FaultsStep, InstallsGrow, TypeParts DEF NotLate
<1>. USE <1>1, Assumptions DEF TypeOK, Versions
<1>2. CASE RecordInstalled
  <2>1. target = latest
    BY <1>2 DEF RecordInstalled, Recorded, RecordedOK, Swaps
  <2> QED
    BY <1>2, <2>1 DEF RecordInstalled, Swapped, Swaps, Want, worker
<1>3. CASE RunInstaller
  BY <1>3 DEF RunInstaller
<1>4. CASE UNCHANGED installed /\ ~RecordInstalled /\ ~RunInstaller
  <2>1. latest' >= latest /\ UNCHANGED <<instManifest, shipManifest>>
    BY <1>4, NumbersChange
    DEF Publish, FetchManifest, FinishReady, Prepare, Forget, disk
  <2> QED
    BY <1>1, <1>4, <2>1 DEF UpToDateIsInstalled, Recorded, RecordedOK, NotLate
<1>5. ASSUME NEW g \in Files, BackUp(g) \/ MoveIn(g) \/ Rollback(g)
      PROVE  FALSE
  BY <1>5 DEF BackUp, MoveIn, Rollback, Moving, Recorded, RecordedOK, Swaps
<1>6. CASE HelperReplaces
  BY <1>6 DEF HelperReplaces, UpToDateIsInstalled, Recorded, NotLate, Happened
<1> QED
  BY <1>2, <1>3, <1>4, <1>5, <1>6, FilesChange

LEMMA TrueInit ==
  ASSUME Init
  PROVE  TrueInv
<1>1. AnyInv
  BY AnyInit
<1>2. Untorn /\ OwnContents
  BY Assumptions
  DEF Init, Untorn, OwnContents, Own, Whole, Applies, Swaps, NoBackups, Versions
<1> QED
  BY <1>1, <1>2, Assumptions
  DEF Init, TrueInv, RecordedOK, BlobsServe, ToDownload, Swapped, Recorded,
      Downloads, Swaps, NoErrorWithoutFault, FaultlessRollback,
      UpToDateIsInstalled, Versions

LEMMA TrueStep ==
  ASSUME TrueInv, [Next]_vars
  PROVE  TrueInv'
<1>1. AnyInv'
  BY AnyStep DEF TrueInv
<1> QED
  BY <1>1, RecordedStep, BlobsServeStep, OwnContentsStep, UntornStep,
     ToDownloadStep, SwappedStep, NoErrorStep, UpToDateStep
  DEF TrueInv, AnyInv

(* What is announced is true: nothing torn is installed, what is ready is  *)
(* staged, and "up to date" means that the newest release is installed;    *)
(* with the exceptions that NoTornFile and UpToDateIsInstalled name.       *)
THEOREM AnnouncementsAreTrue == Spec => []AnnouncedIsTrue
<1>1. Init => TrueInv
  BY TrueInit
<1>2. TrueInv /\ [Next]_vars => TrueInv'
  BY TrueStep
<1>3. TrueInv => AnnouncedIsTrue
  <2>1. ASSUME TrueInv
        PROVE  NoTornFile
    BY <2>1 DEF TrueInv, Untorn, Whole, NoTornFile
  <2> QED
    BY <2>1 DEF TrueInv, AnyInv, Staged, ReadyIsStaged, AnnouncedIsTrue
<1> QED
  BY <1>1, <1>2, <1>3, PTL DEF Spec

(* An error is only ever announced after a fault of the network, the disk  *)
(* or a process, or where two files of a release share a blob.             *)
THEOREM ErrorsHaveFaults == Spec => []NoErrorWithoutFault
<1>1. Init => TrueInv
  BY TrueInit
<1>2. TrueInv /\ [Next]_vars => TrueInv'
  BY TrueStep
<1>3. TrueInv => NoErrorWithoutFault
  BY DEF TrueInv
<1> QED
  BY <1>1, <1>2, <1>3, PTL DEF Spec
=============================================================================
