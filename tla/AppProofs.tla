------------------------------ MODULE AppProofs ------------------------------
(***************************************************************************)
(* SavedStateSurvives of AppStateStore, for any number of changes and for  *)
(* every state no more than three faults after the start; SettingsCoherent *)
(* of Settings, for any number of saves and questions under way;           *)
(* SourcesAsMeasured and SelectionIsTheUsers of Sources, for any catalogs  *)
(* and any number of operations under way; MenuIsTrue of TrayMenu, for any *)
(* list, any number of changes and any height of the screen.               *)
(***************************************************************************)
EXTENDS AppStateStore, Settings, TrayMenu, SequenceTheorems,
        WellFoundedInduction, TLAPS

-----------------------------------------------------------------------------
(* The state file (AppStateStore).                                         *)
Versions == Nat \ {0}
Contents == {Absent, Torn} \cup Versions
Steps == {"none", "temp", "backup", "rename", "fallback", "clean"}

(* The state has its types; a save under way is the first that waits.      *)
StoreTypeOK ==
  /\ file \in [primary : Contents, temp : Contents, backup : Contents]
  /\ app \in {"off", "loading", "running", "closing"}
  /\ current \in Nat /\ last \in Nat /\ lastSaved \in Nat /\ faults \in Nat
  /\ timer \in BOOLEAN /\ queue \in Seq(Versions) /\ step \in Steps
  /\ timer => current # 0 /\ app = "running"
  /\ step # "none" => queue # <<>>
  /\ app = "off" => queue = <<>> /\ step = "none"

(* The versions that wait are in order, none older than what was saved or  *)
(* newer than what there is.                                               *)
InOrder(q, low, high) ==
  \A i \in DOMAIN q : low <= q[i] /\ q[i] <= high /\ \A j \in 1 .. i : q[j] <= q[i]
QueueOK ==
  /\ current <= last /\ lastSaved <= last
  /\ app # "off" => lastSaved <= current
  /\ InOrder(queue, lastSaved, current)

(* The files at each step of a save: what is good in the first two is not  *)
(* older than what was saved, and a good primary file is in the backup     *)
(* before it is touched.                                                   *)
FilesOK ==
  /\ file.primary <= last /\ file.temp <= last /\ file.backup <= last
  /\ file.primary = Absent => lastSaved = 0 /\ file.backup = Absent /\ step # "backup"
  /\ Good(file.primary) => lastSaved <= file.primary
  /\ Good(file.temp) => lastSaved <= file.temp
  /\ step \in {"backup", "rename", "fallback"} => file.temp = Head(queue)
  /\ step \in {"rename", "fallback"} /\ Good(file.primary) => file.backup = file.primary
  /\ step = "clean" => file.primary = Head(queue) /\ file.temp \in {Absent, file.primary}

(* What is damaged, and how many faults that took: two for the primary     *)
(* file, one more for the temporary one, or for the backup once the        *)
(* promotion has copied a torn file over it.                               *)
BackupOK == Good(file.backup) /\ lastSaved <= file.backup
DamageOK ==
  /\ step = "fallback" => faults >= 1
  /\ file.primary = Torn =>
       /\ faults >= 2
       /\ step = "fallback" => faults >= 3
       /\ lastSaved # 0 /\ ~Good(file.temp) => faults >= 3 /\ BackupOK
       /\ lastSaved # 0 /\ ~BackupOK => faults >= 3 \/ step = "rename"

(* Without a fault the newest version is in the timer's hand, at the end   *)
(* of the queue or in the primary file.                                    *)
Newest == IF queue = <<>> THEN file.primary ELSE queue[Len(queue)]
NoFaultOK ==
  faults = 0 =>
    /\ step \in {"none", "temp", "clean"} => file.temp = Absent
    /\ ~timer => current = Newest

StoreOK == QueueOK /\ FilesOK /\ DamageOK /\ NoFaultOK
StoreInv == StoreTypeOK /\ (faults <= 3 => StoreOK)

-----------------------------------------------------------------------------
(* What the queue does to its order.                                       *)
LEMMA AppendInOrder ==
  ASSUME NEW q \in Seq(Versions), NEW low \in Nat, NEW v \in Versions,
         InOrder(q, low, v), low <= v
  PROVE  /\ Append(q, v) \in Seq(Versions) /\ InOrder(Append(q, v), low, v)
         /\ Append(q, v) # <<>> /\ Append(q, v)[Len(Append(q, v))] = v
         /\ q # <<>> => Head(Append(q, v)) = Head(q)
BY DEF InOrder, Versions

LEMMA TailInOrder ==
  ASSUME NEW q \in Seq(Versions), q # <<>>, NEW low \in Nat, NEW high \in Nat,
         InOrder(q, low, high)
  PROVE  /\ Tail(q) \in Seq(Versions) /\ Head(q) \in Versions
         /\ low <= Head(q) /\ Head(q) <= high
         /\ InOrder(Tail(q), Head(q), high) /\ InOrder(Tail(q), low, high)
         /\ Tail(q) = <<>> => Head(q) = q[Len(q)]
         /\ Tail(q) # <<>> => Tail(q)[Len(Tail(q))] = q[Len(q)]
<1> USE DEF Versions
<1>1. /\ Len(q) \in Nat /\ Len(q) >= 1 /\ Head(q) = q[1] /\ Head(q) \in Versions
      /\ Tail(q) \in Seq(Versions) /\ Len(Tail(q)) = Len(q) - 1
      /\ \A i \in 1 .. Len(Tail(q)) : Tail(q)[i] = q[i + 1]
      /\ DOMAIN q = 1 .. Len(q) /\ DOMAIN Tail(q) = 1 .. Len(Tail(q))
  OBVIOUS
<1>2. low <= Head(q) /\ Head(q) <= high BY <1>1 DEF InOrder
<1>3. ASSUME NEW i \in 1 .. Len(Tail(q))
      PROVE  /\ low <= Tail(q)[i] /\ Head(q) <= Tail(q)[i] /\ Tail(q)[i] <= high
             /\ \A j \in 1 .. i : Tail(q)[j] <= Tail(q)[i]
  <2>1. i + 1 \in DOMAIN q /\ 1 \in 1 .. i + 1 BY <1>1
  <2>2. /\ low <= q[i + 1] /\ q[i + 1] <= high
        /\ \A j \in 1 .. i + 1 : q[j] <= q[i + 1]
    BY <2>1 DEF InOrder
  <2>3. \A j \in 1 .. i : j + 1 \in 1 .. i + 1 /\ j \in 1 .. Len(Tail(q)) BY <1>1
  <2> QED BY <1>1, <2>1, <2>2, <2>3
<1>4. InOrder(Tail(q), Head(q), high) /\ InOrder(Tail(q), low, high)
  BY <1>1, <1>3 DEF InOrder
<1>5. /\ Tail(q) = <<>> => Len(q) = 1
      /\ Tail(q) # <<>> => Len(Tail(q)) \in 1 .. Len(Tail(q))
  <2>1. Len(<<>>) = 0 OBVIOUS
  <2>2. Tail(q) = <<>> => Len(Tail(q)) = 0 BY <2>1
  <2>3. Tail(q) # <<>> => Len(Tail(q)) >= 1 BY <1>1
  <2> QED BY <1>1, <2>2, <2>3
<1> QED BY <1>1, <1>2, <1>4, <1>5

(* What load returns is good or nothing, and nothing only when there is no *)
(* good file.                                                              *)
LEMMA LoadedIsGood ==
  ASSUME StoreTypeOK, NEW version \in Loaded
  PROVE  /\ version \in Nat
         /\ version \in {file.primary, file.temp, file.backup, Absent}
         /\ version = file.backup /\ version # Absent =>
              \/ version \in {file.primary, file.temp}
              \/ ~Good(file.primary) /\ ~Good(file.temp)
         /\ version = Absent => /\ ~Good(file.primary) /\ ~Good(file.temp)
                                /\ ~Good(file.backup)
BY DEF StoreTypeOK, Loaded, Good, Contents, Versions, Absent, Torn

(* ... and never older than what was saved.                                *)
LEMMA LoadedIsSaved ==
  ASSUME StoreTypeOK, StoreOK, faults <= 3
  PROVE  \A version \in Loaded : lastSaved <= version /\ version <= last
<1> SUFFICES ASSUME NEW version \in Loaded PROVE lastSaved <= version /\ version <= last
  OBVIOUS
<1>1. /\ version \in Nat /\ version \in {file.primary, file.temp, file.backup, Absent}
      /\ version = file.backup /\ version # Absent =>
           \/ version \in {file.primary, file.temp}
           \/ ~Good(file.primary) /\ ~Good(file.temp)
      /\ version = Absent => /\ ~Good(file.primary) /\ ~Good(file.temp)
                             /\ ~Good(file.backup)
  BY LoadedIsGood
<1> USE DEF Good, Contents, Versions, Absent, Torn
<1>2. version <= last
  BY <1>1 DEF StoreTypeOK, StoreOK, FilesOK, QueueOK
<1>3. CASE Good(file.primary)
  BY <1>3 DEF Loaded, StoreTypeOK, StoreOK, FilesOK
<1>4. CASE file.primary = Absent
  BY <1>4, <1>1 DEF StoreTypeOK, StoreOK, FilesOK
<1>5. CASE file.primary = Torn /\ Good(file.temp)
  BY <1>5 DEF Loaded, StoreOK, FilesOK
<1>6. CASE file.primary = Torn /\ ~Good(file.temp)
  <2>1. lastSaved # 0 => BackupOK BY <1>6 DEF StoreOK, DamageOK
  <2>2. BackupOK => version = file.backup BY <1>6 DEF Loaded, BackupOK
  <2> QED BY <1>1, <1>2, <2>1, <2>2 DEF BackupOK, StoreTypeOK
<1> QED BY <1>2, <1>3, <1>4, <1>5, <1>6 DEF StoreTypeOK

LEMMA LoadedWithoutFault ==
  ASSUME StoreTypeOK, StoreOK, faults = 0, app = "off"
  PROVE  Loaded = {current} /\ current = file.primary /\ file.temp = Absent
<1> USE DEF Good, Contents, Versions, Absent, Torn
<1>1. current = file.primary /\ file.temp = Absent
  BY DEF StoreTypeOK, StoreOK, NoFaultOK, Newest
<1>2. file.primary # Torn BY DEF StoreOK, DamageOK
<1>3. file.primary = Absent => file.backup = Absent BY DEF StoreOK, FilesOK
<1> QED BY <1>1, <1>2, <1>3 DEF Loaded, StoreTypeOK

-----------------------------------------------------------------------------
LEMMA StoreInvInit == StoreInit => StoreInv
<1> SUFFICES ASSUME StoreInit PROVE StoreInv OBVIOUS
<1> USE DEF StoreInit, Good, Contents, Versions, Absent, Torn
<1>1. StoreTypeOK
  <2>1. <<>> \in Seq(Versions) OBVIOUS
  <2> QED BY <2>1 DEF StoreTypeOK, Steps
<1>2. QueueOK BY DEF QueueOK, InOrder
<1>3. FilesOK BY DEF FilesOK
<1>4. DamageOK /\ NoFaultOK BY DEF DamageOK, NoFaultOK, Newest
<1> QED BY <1>1, <1>2, <1>3, <1>4 DEF StoreInv, StoreOK

(* load, and what it has the app do.                                       *)
LEMMA LoadStep ==
  ASSUME StoreTypeOK, Load PROVE StoreTypeOK' /\ (faults <= 3 /\ StoreOK => StoreOK')
<1> USE DEF Good, Contents, Versions, Absent, Torn
<1>1. /\ UNCHANGED <<file, last, timer, step, lastSaved, faults>>
      /\ app = "off" /\ app' \in {"loading", "running"}
  BY DEF Load
<1>2. /\ current' \in Loaded
      /\ \/ UNCHANGED queue /\ app' = "running"
         \/ Good(current') /\ queue' = <<current'>>
  BY DEF Load
<1>3. current' \in Nat BY <1>2, LoadedIsGood
<1>4. current' > 0 => <<current'>> \in Seq(Versions) /\ <<current'>> # <<>> BY <1>3
<1>5. StoreTypeOK' BY <1>1, <1>2, <1>3, <1>4 DEF StoreTypeOK
<1>6. ASSUME faults <= 3, StoreOK PROVE StoreOK'
  <2>1. lastSaved <= current' /\ current' <= last BY <1>1, <1>2, <1>6, LoadedIsSaved
  <2>2. InOrder(<<>>, lastSaved, current') BY DEF InOrder
  <2>3. current' > 0 => InOrder(<<current'>>, lastSaved, current')
    BY <1>3, <2>1 DEF InOrder
  <2>4. QueueOK'
    BY <1>1, <1>2, <1>6, <2>1, <2>2, <2>3 DEF StoreOK, QueueOK, StoreTypeOK
  <2>5. FilesOK' BY <1>1, <1>6 DEF StoreOK, FilesOK, StoreTypeOK
  <2>6. DamageOK' BY <1>1, <1>6 DEF StoreOK, DamageOK, BackupOK
  <2>7. NoFaultOK'
    <3>1. faults = 0 => current' = current /\ current = file.primary /\ file.temp = Absent
      BY <1>1, <1>2, <1>6, LoadedWithoutFault
    <3>2. Len(<<current'>>) = 1 /\ <<current'>>[1] = current' OBVIOUS
    <3> QED BY <1>1, <1>2, <1>4, <3>1, <3>2 DEF NoFaultOK, Newest, StoreTypeOK
  <2> QED BY <2>4, <2>5, <2>6, <2>7 DEF StoreOK
<1> QED BY <1>5, <1>6

(* The user, the timer and the end of the app, between the saves.          *)
LEMMA AppStep ==
  ASSUME StoreTypeOK, UserChanges \/ PersistTimerFires \/ Shutdown \/ Exit
  PROVE  StoreTypeOK' /\ (faults <= 3 /\ StoreOK => StoreOK')
<1> USE DEF Good, Versions, Absent
<1>1. /\ UNCHANGED <<file, lastSaved, faults>>
      /\ step' = step \/ (Exit /\ step' = "none")
  BY DEF UserChanges, PersistTimerFires, Shutdown, Exit, Off
<1>2. CASE UserChanges
  <2>1. StoreTypeOK' BY <1>1, <1>2 DEF StoreTypeOK, UserChanges
  <2>2. ASSUME StoreOK PROVE StoreOK'
    <3>1. QueueOK'
      BY <1>1, <1>2, <2>2 DEF StoreOK, QueueOK, InOrder, UserChanges, StoreTypeOK
    <3>2. FilesOK'
      <4>1. last' = last + 1 /\ UNCHANGED <<queue, step>> BY <1>2 DEF UserChanges
      <4> QED BY <1>1, <2>2, <4>1 DEF StoreOK, FilesOK, StoreTypeOK, Contents, Torn
    <3>3. DamageOK' /\ NoFaultOK'
      BY <1>1, <1>2, <2>2 DEF StoreOK, DamageOK, BackupOK, NoFaultOK, UserChanges
    <3> QED BY <3>1, <3>2, <3>3 DEF StoreOK
  <2> QED BY <2>1, <2>2
<1>3. CASE PersistTimerFires \/ Shutdown
  <2>1. /\ UNCHANGED <<current, last, step>> /\ timer' = FALSE /\ app = "running"
        /\ app' \in {"running", "closing"}
        /\ \/ timer /\ queue' = Append(queue, current)
           \/ ~timer /\ queue' = queue
    BY <1>3 DEF PersistTimerFires, Shutdown, StoreTypeOK
  <2>2. timer => /\ current \in Versions /\ Append(queue, current) \in Seq(Versions)
                 /\ Append(queue, current) # <<>>
    BY DEF StoreTypeOK
  <2>3. StoreTypeOK' BY <1>1, <2>1, <2>2 DEF StoreTypeOK
  <2>4. ASSUME StoreOK PROVE StoreOK'
    <3>1. timer => /\ InOrder(Append(queue, current), lastSaved, current)
                   /\ Append(queue, current)[Len(Append(queue, current))] = current
                   /\ queue # <<>> => Head(Append(queue, current)) = Head(queue)
      BY <2>1, <2>2, <2>4, AppendInOrder DEF StoreOK, QueueOK, StoreTypeOK
    <3>2. QueueOK' BY <1>1, <2>1, <2>4, <3>1 DEF StoreOK, QueueOK
    <3>3. FilesOK' BY <1>1, <2>1, <2>4, <3>1 DEF StoreOK, FilesOK, StoreTypeOK
    <3>4. DamageOK' BY <1>1, <2>1, <2>4 DEF StoreOK, DamageOK, BackupOK
    <3>5. NoFaultOK' BY <1>1, <2>1, <2>2, <2>4, <3>1 DEF StoreOK, NoFaultOK, Newest
    <3> QED BY <3>2, <3>3, <3>4, <3>5 DEF StoreOK
  <2> QED BY <2>3, <2>4
<1>4. CASE Exit
  <2>1. /\ UNCHANGED <<current, last>> /\ app' = "off" /\ timer' = FALSE
        /\ queue = <<>> /\ queue' = <<>> /\ step' = "none" /\ step = "none"
        /\ app = "closing"
    BY <1>4 DEF Exit, Off, StoreTypeOK
  <2>2. StoreTypeOK' BY <1>1, <2>1 DEF StoreTypeOK, Steps
  <2>3. ASSUME StoreOK PROVE StoreOK'
    <3>1. QueueOK' BY <1>1, <2>1, <2>3 DEF StoreOK, QueueOK, InOrder
    <3>2. FilesOK' BY <1>1, <2>1, <2>3 DEF StoreOK, FilesOK
    <3>3. DamageOK' BY <1>1, <2>1, <2>3 DEF StoreOK, DamageOK, BackupOK
    <3>4. NoFaultOK' BY <1>1, <2>1, <2>3 DEF StoreOK, NoFaultOK, Newest, StoreTypeOK
    <3> QED BY <3>1, <3>2, <3>3, <3>4 DEF StoreOK
  <2> QED BY <2>2, <2>3
<1> QED BY <1>2, <1>3, <1>4

-----------------------------------------------------------------------------
(* The steps of a save that do no damage.                                  *)
LEMMA WriteStep ==
  ASSUME StoreTypeOK, BeginSave \/ WriteTemp \/ CopyBackup \/ CopyOverPrimary
  PROVE  StoreTypeOK' /\ (faults <= 3 /\ StoreOK => StoreOK')
<1> USE DEF Good, Contents, Versions, Absent, Torn
<1>1. UNCHANGED <<app, current, last, timer, queue, lastSaved, faults>>
  BY DEF BeginSave, WriteTemp, CopyBackup, CopyOverPrimary, Goto
<1>2. queue # <<>> /\ Head(queue) \in Versions
  BY DEF StoreTypeOK, BeginSave, WriteTemp, CopyBackup, CopyOverPrimary
<1>3. StoreOK => /\ QueueOK'
                 /\ lastSaved <= Head(queue) /\ Head(queue) <= last
  <2>1. StoreOK => lastSaved <= Head(queue) /\ Head(queue) <= current
    BY <1>2, TailInOrder DEF StoreOK, QueueOK, StoreTypeOK
  <2> QED BY <1>1, <1>2, <2>1 DEF StoreOK, QueueOK, StoreTypeOK
<1>4. CASE BeginSave
  <2>1. step' = "temp" /\ step = "none" /\ file' = file /\ app # "off"
    BY <1>4 DEF BeginSave, Goto
  <2>2. StoreTypeOK' BY <1>1, <1>2, <2>1 DEF StoreTypeOK, Steps
  <2>3. ASSUME StoreOK PROVE FilesOK' /\ DamageOK' /\ NoFaultOK'
    BY <1>1, <2>1, <2>3 DEF StoreOK, FilesOK, DamageOK, BackupOK, NoFaultOK, Newest
  <2> QED BY <1>3, <2>2, <2>3 DEF StoreOK
<1>5. CASE WriteTemp
  <2>1. /\ step = "temp" /\ step' \in {"rename", "backup"}
        /\ file' = [file EXCEPT !.temp = Head(queue)]
        /\ step' = "rename" <=> file.primary = Absent
    BY <1>5 DEF WriteTemp, Goto
  <2>2. /\ file'.primary = file.primary /\ file'.backup = file.backup
        /\ file'.temp = Head(queue)
        /\ file' \in [primary : Contents, temp : Contents, backup : Contents]
    BY <1>2, <2>1 DEF StoreTypeOK
  <2>3. StoreTypeOK' BY <1>1, <1>2, <2>1, <2>2 DEF StoreTypeOK, Steps
  <2>4. ASSUME StoreOK PROVE FilesOK'
    BY <1>1, <1>2, <1>3, <2>1, <2>2, <2>4 DEF StoreOK, FilesOK, StoreTypeOK
  <2>5. ASSUME StoreOK PROVE DamageOK'
    BY <1>1, <1>2, <1>3, <2>1, <2>2, <2>5 DEF StoreOK, DamageOK, BackupOK, StoreTypeOK
  <2>6. ASSUME StoreOK PROVE NoFaultOK'
    BY <1>1, <1>2, <2>1, <2>2, <2>6 DEF StoreOK, NoFaultOK, Newest
  <2> QED BY <1>3, <2>3, <2>4, <2>5, <2>6 DEF StoreOK
<1>6. CASE CopyBackup
  <2>1. /\ step = "backup" /\ step' = "rename"
        /\ file' = [file EXCEPT !.backup = file.primary]
    BY <1>6 DEF CopyBackup, Goto
  <2>2. /\ file'.primary = file.primary /\ file'.backup = file.primary
        /\ file'.temp = file.temp
        /\ file' \in [primary : Contents, temp : Contents, backup : Contents]
    BY <2>1 DEF StoreTypeOK
  <2>3. StoreTypeOK' BY <1>1, <1>2, <2>1, <2>2 DEF StoreTypeOK, Steps
  <2>4. ASSUME StoreOK PROVE FilesOK'
    BY <1>1, <1>2, <1>3, <2>1, <2>2, <2>4 DEF StoreOK, FilesOK, StoreTypeOK
  <2>5. ASSUME StoreOK PROVE DamageOK'
    BY <1>1, <1>2, <1>3, <2>1, <2>2, <2>5
       DEF StoreOK, FilesOK, DamageOK, BackupOK, StoreTypeOK
  <2>6. ASSUME StoreOK PROVE NoFaultOK'
    BY <1>1, <1>2, <2>1, <2>2, <2>6 DEF StoreOK, NoFaultOK, Newest
  <2> QED BY <1>3, <2>3, <2>4, <2>5, <2>6 DEF StoreOK
<1>7. CASE CopyOverPrimary
  <2>1. /\ step = "fallback" /\ step' = "clean"
        /\ \/ file' = [file EXCEPT !.primary = file.temp, !.temp = Absent]
           \/ file' = [file EXCEPT !.primary = file.temp]
    BY <1>7 DEF CopyOverPrimary, Goto
  <2>2. /\ file'.primary = file.temp /\ file'.backup = file.backup
        /\ file'.temp \in {file.temp, Absent}
        /\ file' \in [primary : Contents, temp : Contents, backup : Contents]
    BY <2>1 DEF StoreTypeOK
  <2>3. StoreTypeOK' BY <1>1, <1>2, <2>1, <2>2 DEF StoreTypeOK, Steps
  <2>4. ASSUME StoreOK PROVE FilesOK'
    BY <1>1, <1>2, <1>3, <2>1, <2>2, <2>4 DEF StoreOK, FilesOK, StoreTypeOK
  <2>5. ASSUME StoreOK PROVE DamageOK' /\ NoFaultOK'
    BY <1>1, <1>2, <2>1, <2>2, <2>5 DEF StoreOK, FilesOK, DamageOK, NoFaultOK, StoreTypeOK
  <2> QED BY <1>3, <2>3, <2>4, <2>5 DEF StoreOK
<1> QED BY <1>4, <1>5, <1>6, <1>7

(* The rename, which may fail.                                             *)
LEMMA RenameStep ==
  ASSUME StoreTypeOK, Rename
  PROVE  /\ StoreTypeOK' /\ faults' \in {faults, faults + 1}
         /\ faults' <= 3 /\ StoreOK => StoreOK'
<1> USE DEF Good, Contents, Versions, Absent, Torn
<1>1. UNCHANGED <<app, current, last, timer, queue, lastSaved>> /\ step = "rename"
  BY DEF Rename, Goto
<1>2. queue # <<>> /\ Head(queue) \in Versions BY <1>1 DEF StoreTypeOK
<1>3. StoreOK => /\ QueueOK'
                 /\ lastSaved <= Head(queue) /\ Head(queue) <= last
  <2>1. StoreOK => lastSaved <= Head(queue) /\ Head(queue) <= current
    BY <1>2, TailInOrder DEF StoreOK, QueueOK, StoreTypeOK
  <2> QED BY <1>1, <1>2, <2>1 DEF StoreOK, QueueOK, StoreTypeOK
<1>4. CASE file' = [file EXCEPT !.primary = file.temp, !.temp = Absent] /\ Goto("clean")
  <2>1. step' = "clean" /\ faults' = faults BY <1>4 DEF Goto
  <2>2. /\ file'.primary = file.temp /\ file'.backup = file.backup
        /\ file'.temp = Absent
        /\ file' \in [primary : Contents, temp : Contents, backup : Contents]
    BY <1>4 DEF StoreTypeOK
  <2>3. StoreTypeOK' BY <1>1, <1>2, <2>1, <2>2 DEF StoreTypeOK, Steps
  <2>4. ASSUME StoreOK PROVE FilesOK'
    BY <1>1, <1>2, <1>3, <2>1, <2>2, <2>4 DEF StoreOK, FilesOK, StoreTypeOK
  <2>5. ASSUME StoreOK PROVE DamageOK'
    BY <1>1, <1>2, <2>1, <2>2, <2>5 DEF StoreOK, FilesOK, DamageOK
  <2>6. ASSUME StoreOK PROVE NoFaultOK'
    BY <1>1, <1>2, <2>1, <2>2, <2>6 DEF StoreOK, NoFaultOK, Newest
  <2> QED BY <1>3, <2>1, <2>3, <2>4, <2>5, <2>6 DEF StoreOK
<1>5. CASE faults' = faults + 1 /\ step' = "fallback" /\ file' = file
  <2>1. StoreTypeOK' BY <1>1, <1>2, <1>5 DEF StoreTypeOK, Steps
  <2>2. ASSUME StoreOK PROVE FilesOK' /\ DamageOK' /\ NoFaultOK'
    BY <1>1, <1>5, <2>2 DEF StoreOK, FilesOK, DamageOK, BackupOK, NoFaultOK, StoreTypeOK
  <2> QED BY <1>3, <1>5, <2>1, <2>2 DEF StoreOK
<1> QED BY <1>4, <1>5 DEF Rename

(* The save is over.                                                       *)
LEMMA DeleteBackupStep ==
  ASSUME StoreTypeOK, DeleteBackup
  PROVE  StoreTypeOK' /\ (faults <= 3 /\ StoreOK => StoreOK')
<1> USE DEF Good, Contents, Versions, Absent, Torn
<1>1. /\ UNCHANGED <<current, last, timer, faults>> /\ step = "clean" /\ step' = "none"
      /\ queue' = Tail(queue) /\ lastSaved' = Head(queue)
      /\ app' = IF app = "loading" THEN "running" ELSE app
      /\ file' \in {file, [file EXCEPT !.backup = Absent]}
  BY DEF DeleteBackup, SaveOver
<1>2. /\ queue # <<>> /\ Head(queue) \in Versions /\ Tail(queue) \in Seq(Versions)
      /\ app # "off"
  BY <1>1 DEF StoreTypeOK
<1>3. /\ file'.primary = file.primary /\ file'.temp = file.temp
      /\ file'.backup \in {file.backup, Absent}
      /\ file' \in [primary : Contents, temp : Contents, backup : Contents]
  BY <1>1 DEF StoreTypeOK
<1>4. StoreTypeOK' BY <1>1, <1>2, <1>3 DEF StoreTypeOK, Steps
<1>5. ASSUME StoreOK PROVE StoreOK'
  <2>1. /\ Head(queue) <= current /\ InOrder(Tail(queue), Head(queue), current)
        /\ Tail(queue) = <<>> => Head(queue) = queue[Len(queue)]
        /\ Tail(queue) # <<>> => Tail(queue)[Len(Tail(queue))] = queue[Len(queue)]
    BY <1>2, <1>5, TailInOrder DEF StoreOK, QueueOK, StoreTypeOK
  <2>2. QueueOK' BY <1>1, <1>2, <1>5, <2>1 DEF StoreOK, QueueOK, StoreTypeOK
  <2>3. FilesOK' BY <1>1, <1>2, <1>3, <1>5 DEF StoreOK, FilesOK, StoreTypeOK
  <2>4. DamageOK' BY <1>1, <1>2, <1>3, <1>5 DEF StoreOK, FilesOK, DamageOK
  <2>5. NoFaultOK'
    BY <1>1, <1>2, <1>3, <1>5, <2>1 DEF StoreOK, FilesOK, NoFaultOK, Newest
  <2> QED BY <2>2, <2>3, <2>4, <2>5 DEF StoreOK
<1> QED BY <1>4, <1>5

-----------------------------------------------------------------------------
(* A save that is cut off, in the app that goes on or with it: the third   *)
(* fault still leaves one file to load.                                    *)
LEMMA InterruptedStep ==
  ASSUME StoreTypeOK, WriteFails \/ Crash
  PROVE  /\ StoreTypeOK' /\ faults' = faults + 1
         /\ faults' <= 3 /\ StoreOK => StoreOK'
<1> USE DEF Good, Contents, Versions, Absent, Torn
<1>1. /\ UNCHANGED <<current, last, lastSaved>> /\ faults' = faults + 1
      /\ step' = "none" /\ file' \in Interrupted
  BY DEF WriteFails, Crash, SaveOver, Off
<1>2. file' \in [primary : Contents, temp : Contents, backup : Contents]
  BY <1>1 DEF Interrupted, StoreTypeOK
<1>3. \/ file' = file
      \/ /\ step = "temp" /\ file'.temp = Torn
         /\ file'.primary = file.primary /\ file'.backup = file.backup
      \/ /\ step = "backup" /\ file'.backup = Torn
         /\ file'.primary = file.primary /\ file'.temp = file.temp
      \/ /\ step = "fallback" /\ file'.primary = Torn
         /\ file'.temp = file.temp /\ file'.backup = file.backup
  BY <1>1 DEF Interrupted, StoreTypeOK
<1>4. StoreTypeOK' /\ (StoreOK => QueueOK')
  <2>1. CASE WriteFails
    <3>1. /\ queue # <<>> /\ Tail(queue) \in Seq(Versions) /\ app # "off"
          /\ queue' = Tail(queue) /\ UNCHANGED timer
          /\ app' # "off" /\ app' \in {"off", "loading", "running", "closing"}
          /\ app = "running" => app' = "running"
          /\ app' = IF app = "loading" THEN "running" ELSE app
      BY <2>1 DEF WriteFails, SaveOver, StoreTypeOK
    <3>2. StoreOK => InOrder(Tail(queue), lastSaved, current)
      BY <3>1, TailInOrder DEF StoreOK, QueueOK, StoreTypeOK
    <3> QED BY <1>1, <1>2, <3>1, <3>2 DEF StoreTypeOK, Steps, StoreOK, QueueOK
  <2>2. CASE Crash
    <3>1. app' = "off" /\ timer' = FALSE /\ queue' = <<>> BY <2>2 DEF Crash, Off
    <3>2. <<>> \in Seq(Versions) /\ InOrder(<<>>, lastSaved, current) BY DEF InOrder
    <3>3. StoreTypeOK'
      <4>1. /\ app' \in {"off", "loading", "running", "closing"}
            /\ queue' \in Seq(Versions)
            /\ step' \in Steps /\ timer' \in BOOLEAN /\ ~timer'
        BY <1>1, <3>1, <3>2 DEF Steps
      <4> QED BY <1>1, <1>2, <3>1, <4>1 DEF StoreTypeOK
    <3>4. StoreOK => QueueOK' BY <1>1, <3>1, <3>2 DEF StoreOK, QueueOK
    <3> QED BY <3>3, <3>4
  <2> QED BY <2>1, <2>2
<1>5. ASSUME StoreOK, faults + 1 <= 3 PROVE FilesOK' /\ DamageOK' /\ NoFaultOK'
  <2>1. NoFaultOK' BY <1>1 DEF NoFaultOK, StoreTypeOK
  <2>2. step \in {"backup", "rename", "fallback"} =>
          Good(file.temp) /\ file.temp = Head(queue)
    BY <1>5 DEF StoreOK, FilesOK, StoreTypeOK
  <2>3. CASE file' = file
    <3>1. FilesOK' BY <1>1, <1>5, <2>3 DEF StoreOK, FilesOK
    <3>2. DamageOK' BY <1>1, <1>5, <2>3 DEF StoreOK, DamageOK, BackupOK, StoreTypeOK
    <3> QED BY <2>1, <3>1, <3>2
  <2>4. CASE step = "temp" /\ file'.temp = Torn /\ file'.primary = file.primary
             /\ file'.backup = file.backup
    <3>1. FilesOK' BY <1>1, <1>5, <2>4 DEF StoreOK, FilesOK, StoreTypeOK
    <3>2. DamageOK' BY <1>1, <1>5, <2>4 DEF StoreOK, DamageOK, BackupOK, StoreTypeOK
    <3> QED BY <2>1, <3>1, <3>2
  <2>5. CASE step = "backup" /\ file'.backup = Torn /\ file'.primary = file.primary
             /\ file'.temp = file.temp
    <3>1. FilesOK' BY <1>1, <1>5, <2>5 DEF StoreOK, FilesOK, StoreTypeOK
    <3>2. DamageOK'
      BY <1>1, <1>5, <2>2, <2>5 DEF StoreOK, DamageOK, BackupOK, StoreTypeOK
    <3> QED BY <2>1, <3>1, <3>2
  <2>6. CASE step = "fallback" /\ file'.primary = Torn /\ file'.temp = file.temp
             /\ file'.backup = file.backup
    <3>1. FilesOK' BY <1>1, <1>5, <2>6 DEF StoreOK, FilesOK, StoreTypeOK, QueueOK
    <3>2. file.primary # Torn BY <1>5, <2>6 DEF StoreOK, DamageOK, StoreTypeOK
    <3>3. lastSaved # 0 => BackupOK
      BY <1>5, <2>6, <3>2 DEF StoreOK, FilesOK, BackupOK, StoreTypeOK
    <3>4. DamageOK'
      BY <1>1, <1>5, <2>2, <2>6, <3>3 DEF StoreOK, DamageOK, BackupOK, StoreTypeOK
    <3> QED BY <2>1, <3>1, <3>4
  <2> QED BY <1>3, <2>3, <2>4, <2>5, <2>6
<1> QED BY <1>1, <1>4, <1>5 DEF StoreOK, StoreTypeOK

LEMMA StoreInvStep == StoreInv /\ [StoreNext]_storeVars => StoreInv'
<1> SUFFICES ASSUME StoreInv, [StoreNext]_storeVars PROVE StoreInv' OBVIOUS
<1>1. StoreTypeOK /\ (faults <= 3 => StoreOK) /\ faults \in Nat
  BY DEF StoreInv, StoreTypeOK
<1>2. CASE UNCHANGED storeVars
  BY <1>2 DEF storeVars, StoreInv, StoreTypeOK, StoreOK, QueueOK, InOrder, FilesOK,
              DamageOK, BackupOK, NoFaultOK, Newest
<1>3. CASE Load
  <2>1. faults' = faults BY <1>3 DEF Load
  <2> QED BY <1>1, <1>3, <2>1, LoadStep DEF StoreInv
<1>4. CASE UserChanges \/ PersistTimerFires \/ Shutdown \/ Exit
  <2>1. faults' = faults BY <1>4 DEF UserChanges, PersistTimerFires, Shutdown, Exit
  <2> QED BY <1>1, <1>4, <2>1, AppStep DEF StoreInv
<1>5. CASE BeginSave \/ WriteTemp \/ CopyBackup \/ CopyOverPrimary
  <2>1. faults' = faults
    BY <1>5 DEF BeginSave, WriteTemp, CopyBackup, CopyOverPrimary, Goto
  <2> QED BY <1>1, <1>5, <2>1, WriteStep DEF StoreInv
<1>6. CASE Rename BY <1>1, <1>6, RenameStep DEF StoreInv
<1>7. CASE DeleteBackup
  <2>1. faults' = faults BY <1>7 DEF DeleteBackup
  <2> QED BY <1>1, <1>7, <2>1, DeleteBackupStep DEF StoreInv
<1>8. CASE WriteFails \/ Crash BY <1>1, <1>8, InterruptedStep DEF StoreInv
<1> QED BY <1>2, <1>3, <1>4, <1>5, <1>6, <1>7, <1>8 DEF StoreNext

(* A state that was saved survives any three faults, and the last one      *)
(* there was is found again when nothing went wrong: the temporary file,   *)
(* the .bak and the order in which _writeStateFile touches them, with what *)
(* load recovers and promotes (app_state_store.dart).                      *)
THEOREM SavedStateIsFound ==
  StoreInit /\ [][StoreNext]_storeVars => [](faults <= 3 => SavedStateSurvives)
<1>1. StoreInv => (faults <= 3 => SavedStateSurvives)
  <2> SUFFICES ASSUME StoreInv, faults <= 3 PROVE SavedStateSurvives OBVIOUS
  <2>1. StoreTypeOK /\ StoreOK BY DEF StoreInv
  <2>2. \A version \in Loaded : lastSaved <= version /\ version <= last
    BY <2>1, LoadedIsSaved
  <2>3. app = "off" /\ faults = 0 => Loaded = {current} BY <2>1, LoadedWithoutFault
  <2> QED BY <2>2, <2>3 DEF SavedStateSurvives
<1> QED BY <1>1, StoreInvInit, StoreInvStep, PTL

-----------------------------------------------------------------------------
(* The settings (Settings).                                                *)
Pending ==
  [step : {"save", "saveThenAsk", "ask"}, captured : SettingsValues,
   before : SettingsValues, had : BOOLEAN]

(* The state has its types, and no settings that are shown or could be     *)
(* restored have a split tunnel outside TUN mode.                          *)
InTun(state) == state.apps \/ state.domains => state.mode = "tun"
SettingsOK ==
  /\ settings \in SettingsValues /\ saved \in SettingsValues /\ used \in SettingsValues
  /\ saves \in Seq(Pending) /\ link \in {"idle", "busy", "connected"}
  /\ queued \in BOOLEAN /\ granted \in BOOLEAN /\ overlap \in BOOLEAN
  /\ unasked \in BOOLEAN
  /\ InTun(settings)
  /\ \A i \in DOMAIN saves : InTun(saves[i].before)

(* Without overlap one change awaits the privileges at most.  It is the    *)
(* last save that was asked for, of the settings as they are; nothing      *)
(* else happens to them until it is over, and once it asks every save      *)
(* before it is done.                                                      *)
AskingOK ==
  /\ Asking => ~queued /\ link = "idle" /\ settings.mode = "tun"
  /\ \A i \in DOMAIN saves : saves[i].step # "save" =>
       /\ i = Len(saves) /\ saves[i].captured = settings
       /\ saves[i].before.mode = "tun" => saves[i].had \/ unasked
       /\ saves[i].step = "ask" => i = 1 /\ saved = settings
ShownOK ==
  /\ settings.mode = "tun" /\ ~Asking => granted \/ unasked
  /\ link # "idle" => settings = used

SettingsInv == SettingsOK /\ (~overlap => AskingOK /\ ShownOK)

-----------------------------------------------------------------------------
(* A position in a sequence is the last one or before it.                  *)
LEMMA LastOrBefore == \A n \in Nat : \A k \in 1 .. n : k \in 1 .. n - 1 \/ k = n
OBVIOUS

(* What is left of a list without one of its elements.                     *)
LEMMA RemovedElements ==
  ASSUME NEW S, NEW list \in Seq(S), NEW i \in DOMAIN list
  PROVE  /\ RemovedAt(list, i) \in Seq(S) /\ Len(RemovedAt(list, i)) = Len(list) - 1
         /\ DOMAIN RemovedAt(list, i) = 1 .. Len(list) - 1
         /\ \A k \in 1 .. Len(list) - 1 :
              RemovedAt(list, i)[k] = IF k < i THEN list[k] ELSE list[k + 1]
<1>1. /\ Len(list) \in Nat /\ i \in Int /\ 1 <= i /\ i <= Len(list)
      /\ DOMAIN list = 1 .. Len(list)
  OBVIOUS
<1> DEFINE before == SubSeq(list, 1, i - 1)
           after == SubSeq(list, i + 1, Len(list))
<1>2. /\ before \in Seq(S) /\ Len(before) = i - 1
      /\ \A k \in 1 .. i - 1 : before[k] = list[k]
  BY <1>1
<1>3. /\ after \in Seq(S) /\ Len(after) = Len(list) - i
      /\ \A k \in 1 .. Len(list) - i : after[k] = list[i + k]
  BY <1>1
<1> HIDE DEF before, after
<1>4. /\ before \o after \in Seq(S)
      /\ Len(before \o after) = Len(before) + Len(after)
      /\ \A k \in 1 .. Len(before) + Len(after) : (before \o after)[k] =
            IF k <= Len(before) THEN before[k] ELSE after[k - Len(before)]
  BY <1>2, <1>3, ConcatProperties
<1>5. Len(before) + Len(after) = Len(list) - 1 BY <1>1, <1>2, <1>3
<1>6. ASSUME NEW k \in 1 .. Len(list) - 1
      PROVE  (before \o after)[k] = IF k < i THEN list[k] ELSE list[k + 1]
  <2>1. CASE k < i BY <2>1, <1>4, <1>5, <1>1, <1>2
  <2>2. CASE ~(k < i)
    <3>1. (before \o after)[k] = after[k - (i - 1)]
      BY <2>2, <1>4, <1>5, <1>1, <1>2
    <3>2. k - (i - 1) \in 1 .. Len(list) - i /\ i + (k - (i - 1)) = k + 1
      BY <2>2, <1>1
    <3> QED BY <3>1, <3>2, <2>2, <1>3
  <2> QED BY <2>1, <2>2
<1>7. DOMAIN (before \o after) = 1 .. Len(before \o after) BY <1>4
<1>8. RemovedAt(list, i) = before \o after BY DEF RemovedAt, before, after
<1>9. /\ Len(before \o after) = Len(list) - 1
      /\ DOMAIN (before \o after) = 1 .. Len(list) - 1
  BY <1>4, <1>5, <1>7
<1> HIDE DEF RemovedAt
<1> QED BY <1>4, <1>6, <1>8, <1>9

LEMMA WithoutOne ==
  ASSUME saves \in Seq(Pending), NEW i \in DOMAIN saves
  PROVE  /\ Without(i) \in Seq(Pending) /\ Len(Without(i)) = Len(saves) - 1
         /\ DOMAIN Without(i) = 1 .. Len(saves) - 1
         /\ \A k \in 1 .. Len(saves) - 1 :
              Without(i)[k] = IF k < i THEN saves[k] ELSE saves[k + 1]
<1>1. Without(i) = RemovedAt(saves, i) BY DEF Without, RemovedAt
<1> QED BY <1>1, RemovedElements

LEMMA RestoredInTun ==
  \A state \in SettingsValues :
    Restored(state) \in SettingsValues /\ InTun(Restored(state))
BY DEF SettingsValues, Restored, InTun

(* The three setters change the settings to some that are coherent.        *)
LEMMA SetterChanges ==
  ASSUME SettingsOK,
         \/ \E mode \in {"proxy", "tun"} : SetTrafficMode(mode)
         \/ \E on \in BOOLEAN : SetSplitTunnelMode(on) \/ SetDomainSplitTunnelMode(on)
  PROVE  \E next \in SettingsValues : InTun(next) /\ Change(next)
<1>1. ASSUME NEW mode \in {"proxy", "tun"}, SetTrafficMode(mode)
      PROVE  \E next \in SettingsValues : InTun(next) /\ Change(next)
  <2> DEFINE next == IF mode = "tun" THEN [settings EXCEPT !.mode = mode]
                     ELSE [mode |-> mode, apps |-> FALSE, domains |-> FALSE]
  <2>1. next \in SettingsValues /\ InTun(next) BY DEF SettingsOK, SettingsValues, InTun
  <2> QED BY <1>1, <2>1 DEF SetTrafficMode
<1>2. ASSUME NEW on \in BOOLEAN, SetSplitTunnelMode(on)
      PROVE  \E next \in SettingsValues : InTun(next) /\ Change(next)
  <2> DEFINE next == [settings EXCEPT !.apps = on, !.mode = IF on THEN "tun" ELSE @]
  <2>1. next \in SettingsValues /\ InTun(next) BY DEF SettingsOK, SettingsValues, InTun
  <2> QED BY <1>2, <2>1 DEF SetSplitTunnelMode
<1>3. ASSUME NEW on \in BOOLEAN, SetDomainSplitTunnelMode(on)
      PROVE  \E next \in SettingsValues : InTun(next) /\ Change(next)
  <2> DEFINE next == [settings EXCEPT !.domains = on, !.mode = IF on THEN "tun" ELSE @]
  <2>1. next \in SettingsValues /\ InTun(next) BY DEF SettingsOK, SettingsValues, InTun
  <2> QED BY <1>3, <2>1 DEF SetDomainSplitTunnelMode
<1> QED BY <1>1, <1>2, <1>3

LEMMA SettingsInvInit == SettingsInit => SettingsInv
<1> SUFFICES ASSUME SettingsInit PROVE SettingsInv OBVIOUS
<1>1. /\ saved \in SettingsValues /\ settings = Restored(saved) /\ used = settings
      /\ queued = FALSE /\ saves = <<>> /\ overlap = FALSE /\ granted = TRUE
      /\ link = "idle" /\ unasked = FALSE
  BY DEF SettingsInit, Start
<1>2. settings \in SettingsValues /\ InTun(settings) BY <1>1, RestoredInTun
<1>3. saves \in Seq(Pending) /\ DOMAIN saves = {} BY <1>1
<1>4. SettingsOK BY <1>1, <1>2, <1>3 DEF SettingsOK
<1>5. AskingOK /\ ShownOK BY <1>1, <1>3 DEF AskingOK, ShownOK, Asking
<1> QED BY <1>4, <1>5 DEF SettingsInv

(* A change appends its save, and overlaps with one that awaits.           *)
LEMMA ChangeStep ==
  ASSUME SettingsInv, NEW next \in SettingsValues, InTun(next), Change(next)
  PROVE  SettingsInv'
<1> DEFINE new == [step |-> "saveThenAsk", captured |-> next,
                   before |-> settings, had |-> granted]
<1>1. /\ link = "idle" /\ UNCHANGED <<saved, link, used, unasked>> /\ settings' = next
      /\ overlap' = (overlap \/ Asking) /\ granted' = (granted /\ settings.mode = "tun")
      /\ \/ next.mode = "tun" /\ saves' = Append(saves, new) /\ queued' = FALSE
         \/ next.mode # "tun" /\ saves' = saves /\ queued' = TRUE
  BY DEF Change, CanChange
<1>2. new \in Pending BY DEF Pending, SettingsInv, SettingsOK
<1>3. /\ saves \in Seq(Pending) /\ Len(saves) \in Nat
      /\ Append(saves, new) \in Seq(Pending)
      /\ Len(Append(saves, new)) = Len(saves) + 1
      /\ DOMAIN Append(saves, new) = 1 .. Len(saves) + 1
      /\ Append(saves, new)[Len(saves) + 1] = new
      /\ \A i \in 1 .. Len(saves) : Append(saves, new)[i] = saves[i]
      /\ DOMAIN saves = 1 .. Len(saves)
  BY <1>2 DEF SettingsInv, SettingsOK
<1>4. new.step = "saveThenAsk" /\ new.captured = next /\ new.before = settings
      /\ new.had = granted
  OBVIOUS
<1> HIDE DEF new
<1>5. SettingsOK'
  <2>1. overlap' \in BOOLEAN /\ granted' \in BOOLEAN /\ queued' \in BOOLEAN
    BY <1>1 DEF SettingsInv, SettingsOK
  <2>2. \A i \in DOMAIN saves' : InTun(saves'[i].before)
    <3>1. CASE saves' = saves BY <3>1 DEF SettingsInv, SettingsOK
    <3>2. CASE saves' = Append(saves, new)
      <4> SUFFICES ASSUME NEW i \in 1 .. Len(saves) + 1
                   PROVE  InTun(Append(saves, new)[i].before)
        BY <1>3, <3>2
      <4>1. CASE i = Len(saves) + 1 BY <4>1, <1>3, <1>4 DEF SettingsInv, SettingsOK
      <4>2. CASE i # Len(saves) + 1
        BY <4>2, <1>3 DEF SettingsInv, SettingsOK
      <4> QED BY <4>1, <4>2
    <3> QED BY <3>1, <3>2, <1>1
  <2>3. saves' \in Seq(Pending) BY <1>1, <1>3
  <2> QED BY <1>1, <2>1, <2>2, <2>3 DEF SettingsInv, SettingsOK
<1>6. ASSUME ~overlap' PROVE AskingOK' /\ ShownOK'
  <2>1. ~Asking /\ ~overlap BY <1>1, <1>6 DEF SettingsInv, SettingsOK
  <2>2. \A i \in 1 .. Len(saves) : saves[i].step = "save" BY <1>3, <2>1 DEF Asking
  <2>3. settings.mode = "tun" => granted \/ unasked BY <2>1 DEF SettingsInv, ShownOK
  <2>4. CASE next.mode # "tun" /\ saves' = saves
    <3>1. ~Asking' BY <2>1, <2>4 DEF Asking
    <3> QED BY <1>1, <1>3, <2>2, <2>4, <3>1 DEF AskingOK, ShownOK
  <2>5. CASE next.mode = "tun" /\ saves' = Append(saves, new) /\ queued' = FALSE
    <3>1. Len(saves)' = Len(saves) + 1 /\ DOMAIN saves' = 1 .. Len(saves) + 1
      BY <1>3, <2>5
    <3>2. \A i \in 1 .. Len(saves) : saves'[i].step = "save" BY <1>3, <2>2, <2>5
    <3>3. saves'[Len(saves) + 1] = new BY <1>3, <2>5
    <3>4. Asking' BY <3>1, <3>3, <1>3, <1>4 DEF Asking
    <3>5. \A i \in 1 .. Len(saves) + 1 : saves'[i].step # "save" => i = Len(saves) + 1
      BY <3>2, <1>3
    <3>6. AskingOK'
      BY <1>1, <1>3, <1>4, <2>3, <2>5, <3>1, <3>3, <3>5 DEF AskingOK
    <3>7. ShownOK' BY <1>1, <3>4 DEF ShownOK
    <3> QED BY <3>6, <3>7
  <2> QED BY <2>4, <2>5, <1>1
<1> QED BY <1>5, <1>6 DEF SettingsInv

(* A save that asks for nothing is appended: by the timer, ...             *)
LEMMA PersistTimerStep ==
  ASSUME SettingsInv, PersistTimer PROVE SettingsInv'
<1>1. /\ UNCHANGED <<settings, saved, link, used, granted, overlap, unasked>>
      /\ queued /\ queued' = FALSE /\ saves' = Append(saves, Save)
  BY DEF PersistTimer
<1>2. Save \in Pending /\ Save.step = "save" /\ Save.before = settings
  BY DEF Save, Pending, SettingsInv, SettingsOK
<1> HIDE DEF Save
<1>3. /\ saves \in Seq(Pending) /\ Len(saves) \in Nat /\ saves' \in Seq(Pending)
      /\ Len(saves') = Len(saves) + 1 /\ DOMAIN saves' = 1 .. Len(saves) + 1
      /\ saves'[Len(saves) + 1] = Save
      /\ \A i \in 1 .. Len(saves) : saves'[i] = saves[i]
      /\ DOMAIN saves = 1 .. Len(saves)
  BY <1>1, <1>2 DEF SettingsInv, SettingsOK
<1>4. \A i \in 1 .. Len(saves) + 1 : i \in 1 .. Len(saves) \/ i = Len(saves) + 1
  BY <1>3
<1>5. SettingsOK'
  <2>1. \A i \in DOMAIN saves' : InTun(saves'[i].before)
    BY <1>2, <1>3, <1>4 DEF SettingsInv, SettingsOK
  <2> QED BY <1>1, <1>3, <2>1 DEF SettingsInv, SettingsOK
<1>6. ASSUME ~overlap' PROVE AskingOK' /\ ShownOK'
  <2>1. ~Asking BY <1>1, <1>6 DEF SettingsInv, AskingOK
  <2>2. \A i \in DOMAIN saves' : saves'[i].step = "save"
    BY <1>2, <1>3, <1>4, <2>1 DEF Asking
  <2>3. ~Asking' BY <2>2 DEF Asking
  <2> QED BY <1>1, <1>6, <2>1, <2>2, <2>3 DEF SettingsInv, AskingOK, ShownOK
<1> QED BY <1>5, <1>6 DEF SettingsInv

(* A save that ends, goes on to ask, or fails: then the list is without    *)
(* it, and if it was to ask the failure is noted.                          *)
LEMMA SaveStep ==
  ASSUME SettingsInv, NEW i \in DOMAIN saves, SaveEnds(i) \/ SaveFails(i)
  PROVE  SettingsInv'
<1>1. /\ UNCHANGED <<settings, queued, link, used, granted, overlap>>
      /\ saves[i].step # "ask" /\ \A j \in 1 .. i - 1 : saves[j].step = "ask"
      /\ saved' \in {saved, saves[i].captured}
      /\ unasked' \in BOOLEAN /\ (unasked => unasked')
      /\ \/ /\ saves[i].step = "saveThenAsk" /\ settings.mode = "tun"
            /\ saved' = saves[i].captured /\ unasked' = unasked
            /\ saves' = [saves EXCEPT ![i].step = "ask"]
         \/ /\ saves' = Without(i)
            /\ \/ ~(saves[i].step = "saveThenAsk" /\ settings.mode = "tun")
               \/ saves[i].step = "saveThenAsk" /\ unasked'
  BY DEF SaveEnds, SaveFails, Writing, SettingsInv, SettingsOK
<1>2. /\ saves \in Seq(Pending) /\ Len(saves) \in Nat /\ DOMAIN saves = 1 .. Len(saves)
      /\ i \in 1 .. Len(saves) /\ saves[i] \in Pending
      /\ saves[i].captured \in SettingsValues
  <2>1. saves \in Seq(Pending) BY DEF SettingsInv, SettingsOK
  <2>2. saves[i] \in Pending BY <2>1
  <2> QED BY <2>1, <2>2 DEF Pending
<1>3. CASE /\ saves[i].step = "saveThenAsk" /\ settings.mode = "tun"
           /\ saved' = saves[i].captured /\ unasked' = unasked
           /\ saves' = [saves EXCEPT ![i].step = "ask"]
  <2>1. saves' = [saves EXCEPT ![i].step = "ask"] BY <1>3
  <2>2. [saves[i] EXCEPT !.step = "ask"] \in Pending BY <1>2 DEF Pending
  <2>3. /\ saves' \in Seq(Pending) /\ Len(saves') = Len(saves)
        /\ DOMAIN saves' = 1 .. Len(saves)
        /\ saves'[i] = [saves[i] EXCEPT !.step = "ask"]
        /\ \A k \in 1 .. Len(saves) : k # i => saves'[k] = saves[k]
    BY <1>2, <2>1, <2>2
  <2>4. /\ saves'[i].step = "ask" /\ saves'[i].captured = saves[i].captured
        /\ saves'[i].before = saves[i].before /\ saves'[i].had = saves[i].had
    BY <1>2, <2>3 DEF Pending
  <2>5. SettingsOK'
    <3>1. \A k \in DOMAIN saves' : InTun(saves'[k].before)
      BY <1>2, <2>3, <2>4 DEF SettingsInv, SettingsOK
    <3> QED BY <1>1, <1>2, <2>3, <3>1 DEF SettingsInv, SettingsOK
  <2>6. ASSUME ~overlap PROVE AskingOK' /\ ShownOK'
    <3>1. AskingOK /\ ShownOK BY <2>6 DEF SettingsInv
    <3>2. i = Len(saves) /\ saves[i].captured = settings
          /\ (saves[i].before.mode = "tun" => saves[i].had \/ unasked)
      BY <1>2, <1>3, <3>1 DEF AskingOK
    <3>3. i = 1
      <4> SUFFICES ASSUME i # 1 PROVE FALSE OBVIOUS
      <4>1. 1 \in 1 .. i - 1 /\ 1 \in DOMAIN saves BY <1>2
      <4>2. saves[1].step = "ask" BY <4>1, <1>1
      <4> QED BY <3>1, <3>2, <4>1, <4>2 DEF AskingOK
    <3>4. Asking /\ Asking' BY <1>2, <1>3, <2>3, <2>4 DEF Asking
    <3>5. \A k \in DOMAIN saves' : k = i
      <4>1. DOMAIN saves' = 1 .. 1 BY <3>2, <3>3, <2>3
      <4> QED BY <4>1, <3>3
    <3>6. AskingOK'
      <4>1. saved' = settings' /\ unasked' = unasked /\ queued' = queued /\ link' = link
        BY <1>1, <1>3, <3>2
      <4>2. ~queued' /\ link' = "idle" /\ settings'.mode = "tun"
        BY <1>1, <1>3, <4>1, <3>1, <3>4 DEF AskingOK
      <4>3. /\ i = Len(saves') /\ saves'[i].captured = settings'
            /\ saves'[i].before.mode = "tun" => saves'[i].had \/ unasked'
        BY <1>1, <4>1, <2>3, <2>4, <3>2
      <4>4. ASSUME NEW k \in DOMAIN saves'
            PROVE  /\ k = Len(saves') /\ saves'[k].captured = settings'
                   /\ saves'[k].before.mode = "tun" => saves'[k].had \/ unasked'
                   /\ k = 1 /\ saved' = settings'
        BY <4>1, <4>3, <3>3, <3>5
      <4> QED BY <4>2, <4>4 DEF AskingOK
    <3>7. ShownOK' BY <1>1, <3>1, <3>4 DEF ShownOK
    <3> QED BY <3>6, <3>7
  <2> QED BY <1>1, <2>5, <2>6 DEF SettingsInv
<1>4. CASE /\ saves' = Without(i)
           /\ \/ ~(saves[i].step = "saveThenAsk" /\ settings.mode = "tun")
              \/ saves[i].step = "saveThenAsk" /\ unasked'
  <2>1. saves' = Without(i) BY <1>4
  <2>2. /\ saves' \in Seq(Pending) /\ Len(saves') = Len(saves) - 1
        /\ DOMAIN saves' = 1 .. Len(saves) - 1
        /\ \A k \in 1 .. Len(saves) - 1 :
             saves'[k] = IF k < i THEN saves[k] ELSE saves[k + 1]
    BY <1>2, <2>1, WithoutOne
  <2>3. \A k \in 1 .. Len(saves) - 1 : k \in DOMAIN saves /\ k + 1 \in DOMAIN saves
    BY <1>2
  <2>4. SettingsOK'
    <3>1. \A k \in DOMAIN saves' : InTun(saves'[k].before)
      BY <2>2, <2>3 DEF SettingsInv, SettingsOK
    <3> QED BY <1>1, <1>2, <2>2, <3>1 DEF SettingsInv, SettingsOK
  <2>5. ASSUME ~overlap, saves[i].step = "save" PROVE AskingOK' /\ ShownOK'
    <3>1. AskingOK /\ ShownOK BY <2>5 DEF SettingsInv
    <3>2. saves[i].step = "save" BY <2>5
    <3>3. ASSUME NEW k \in 1 .. Len(saves) - 1, saves'[k].step # "save"
          PROVE  /\ k = Len(saves) - 1 /\ saves'[k] = saves[Len(saves)]
                 /\ saves[Len(saves)].step # "save" /\ saves[Len(saves)].step # "ask"
      <4>1. CASE k < i
        <5>1. saves'[k] = saves[k] /\ saves[k].step # "save" BY <4>1, <2>2, <3>3
        <5>2. k = Len(saves) BY <5>1, <2>3, <3>1 DEF AskingOK
        <5> QED BY <5>2, <1>2
      <4>2. CASE ~(k < i)
        <5>1. saves'[k] = saves[k + 1] /\ saves[k + 1].step # "save" BY <4>2, <2>2, <3>3
        <5>2. k + 1 = Len(saves) /\ (saves[k + 1].step = "ask" => k + 1 = 1)
          BY <5>1, <2>3, <3>1 DEF AskingOK
        <5> QED BY <5>1, <5>2, <1>2
      <4> QED BY <4>1, <4>2
    <3>4. Asking <=> Asking'
      <4>1. ASSUME Asking PROVE Asking'
        <5>1. PICK j \in DOMAIN saves : saves[j].step # "save" BY <4>1 DEF Asking
        <5>2. j = Len(saves) /\ j # i BY <5>1, <3>1, <3>2 DEF AskingOK
        <5>3. Len(saves) - 1 \in 1 .. Len(saves) - 1 /\ ~(Len(saves) - 1 < i)
              /\ (Len(saves) - 1) + 1 = Len(saves)
          BY <5>2, <1>2
        <5>4. saves'[Len(saves) - 1] = saves[Len(saves)] BY <5>3, <2>2
        <5> QED BY <5>1, <5>2, <5>3, <5>4, <2>2 DEF Asking
      <4>2. ASSUME Asking' PROVE Asking
        <5>1. PICK k \in DOMAIN saves' : saves'[k].step # "save" BY <4>2 DEF Asking
        <5> QED BY <5>1, <2>2, <2>3 DEF Asking
      <4> QED BY <4>1, <4>2
    <3>5. AskingOK'
      <4>1. Asking' => ~queued' /\ link' = "idle" /\ settings'.mode = "tun"
        BY <1>1, <3>1, <3>4 DEF AskingOK
      <4>2. ASSUME NEW k \in DOMAIN saves', saves'[k].step # "save"
            PROVE  /\ k = Len(saves') /\ saves'[k].captured = settings'
                   /\ saves'[k].before.mode = "tun" => saves'[k].had \/ unasked'
                   /\ saves'[k].step # "ask"
        <5>1. /\ k = Len(saves) - 1 /\ saves'[k] = saves[Len(saves)]
              /\ saves[Len(saves)].step # "save" /\ saves[Len(saves)].step # "ask"
          BY <4>2, <2>2, <3>3
        <5>2. Len(saves) \in DOMAIN saves BY <4>2, <2>2, <1>2
        <5> QED BY <5>1, <5>2, <1>1, <2>2, <3>1 DEF AskingOK
      <4> QED BY <4>1, <4>2 DEF AskingOK
    <3>6. ShownOK' BY <1>1, <3>1, <3>4 DEF ShownOK
    <3> QED BY <3>5, <3>6
  <2>6. ASSUME ~overlap, saves[i].step # "save" PROVE AskingOK' /\ ShownOK'
    <3>1. AskingOK /\ ShownOK BY <2>6 DEF SettingsInv
    <3>2. Asking BY <2>6 DEF Asking
    <3>3. unasked'
      <4>1. saves[i].step \in {"save", "saveThenAsk", "ask"} BY <1>2 DEF Pending
      <4>2. settings.mode = "tun" BY <3>1, <3>2 DEF AskingOK
      <4> QED BY <1>1, <1>4, <2>6, <4>1, <4>2
    <3>4. i = Len(saves) BY <2>6, <3>1 DEF AskingOK
    <3>5. ASSUME NEW k \in 1 .. Len(saves) - 1 PROVE saves'[k].step = "save"
      <4>1. k < i /\ k # Len(saves) BY <3>4, <1>2
      <4>2. saves'[k] = saves[k] BY <4>1, <2>2
      <4> QED BY <4>1, <4>2, <2>3, <3>1 DEF AskingOK
    <3>6. ~Asking' BY <2>2, <3>5 DEF Asking
    <3>7. AskingOK' BY <2>2, <3>5, <3>6 DEF AskingOK
    <3>8. ShownOK' BY <1>1, <3>1, <3>3 DEF ShownOK
    <3> QED BY <3>7, <3>8
  <2> QED BY <1>1, <2>4, <2>5, <2>6 DEF SettingsInv
<1> QED BY <1>1, <1>3, <1>4

(* The answer of Windows: without overlap the change that asked was the    *)
(* only save under way.                                                    *)
LEMMA PrivilegesStep ==
  ASSUME SettingsInv, NEW i \in DOMAIN saves, PrivilegesGranted(i) \/ PrivilegesRefused(i)
  PROVE  SettingsInv'
<1>1. /\ saves[i].step = "ask" /\ UNCHANGED <<saved, link, used, overlap, unasked>>
  BY DEF PrivilegesGranted, PrivilegesRefused
<1>2. /\ saves \in Seq(Pending) /\ Len(saves) \in Nat /\ DOMAIN saves = 1 .. Len(saves)
      /\ i \in 1 .. Len(saves) /\ saves[i] \in Pending
      /\ saves[i].before \in SettingsValues /\ saves[i].had \in BOOLEAN
      /\ InTun(saves[i].before)
  <2>1. saves \in Seq(Pending) /\ InTun(saves[i].before) BY DEF SettingsInv, SettingsOK
  <2>2. saves[i] \in Pending BY <2>1
  <2> QED BY <2>1, <2>2 DEF Pending
<1>3. /\ Without(i) \in Seq(Pending) /\ Len(Without(i)) = Len(saves) - 1
      /\ DOMAIN Without(i) = 1 .. Len(saves) - 1
      /\ \A k \in 1 .. Len(saves) - 1 :
           Without(i)[k] = IF k < i THEN saves[k] ELSE saves[k + 1]
  BY <1>2, WithoutOne
<1>4. \A k \in 1 .. Len(saves) - 1 : k \in DOMAIN saves /\ k + 1 \in DOMAIN saves
  BY <1>2
<1>5. \A k \in 1 .. Len(saves) - 1 : InTun(Without(i)[k].before)
  BY <1>3, <1>4 DEF SettingsInv, SettingsOK
<1>6. ~overlap => /\ Len(saves) = 1 /\ link = "idle"
                  /\ saves[i].before.mode = "tun" => saves[i].had \/ unasked
  BY <1>1, <1>2 DEF SettingsInv, AskingOK, Asking
<1>7. CASE PrivilegesGranted(i)
  <2>1. saves' = Without(i) /\ granted' = TRUE /\ UNCHANGED <<settings, queued>>
    BY <1>7 DEF PrivilegesGranted
  <2>2. SettingsOK' BY <1>1, <1>3, <1>5, <2>1 DEF SettingsInv, SettingsOK
  <2>3. ASSUME ~overlap PROVE AskingOK' /\ ShownOK'
    <3>1. DOMAIN saves' = 1 .. Len(saves) - 1 /\ Len(saves) = 1
      BY <1>3, <1>6, <2>1, <2>3
    <3>2. DOMAIN saves' = {} BY <3>1
    <3>3. ~Asking' BY <3>2 DEF Asking
    <3> QED BY <1>1, <1>6, <2>1, <2>3, <3>2, <3>3 DEF AskingOK, ShownOK
  <2> QED BY <1>1, <2>2, <2>3 DEF SettingsInv
<1>8. CASE PrivilegesRefused(i)
  <2> DEFINE new == [Save EXCEPT !.captured = settings']
  <2>1. /\ settings' = saves[i].before /\ granted' = saves[i].had /\ queued' = FALSE
        /\ saves' = Append(Without(i), new)
    BY <1>8 DEF PrivilegesRefused
  <2>2. new \in Pending /\ new.step = "save" /\ InTun(new.before)
    BY <1>2, <2>1 DEF Save, Pending, SettingsInv, SettingsOK
  <2> HIDE DEF new
  <2>3. /\ saves' \in Seq(Pending) /\ Len(saves') = Len(saves)
        /\ DOMAIN saves' = 1 .. Len(saves) /\ saves'[Len(saves)] = new
        /\ \A k \in 1 .. Len(saves) - 1 : saves'[k] = Without(i)[k]
    <3>1. (Len(saves) - 1) + 1 = Len(saves) BY <1>2
    <3>2. /\ saves' \in Seq(Pending) /\ Len(saves') = (Len(saves) - 1) + 1
          /\ saves'[(Len(saves) - 1) + 1] = new
          /\ \A k \in 1 .. Len(saves) - 1 : saves'[k] = Without(i)[k]
      BY <1>3, <2>1, <2>2
    <3> QED BY <3>1, <3>2
  <2>4. \A k \in 1 .. Len(saves) : k \in 1 .. Len(saves) - 1 \/ k = Len(saves)
    BY <1>2, LastOrBefore
  <2>5. SettingsOK'
    <3>1. \A k \in DOMAIN saves' : InTun(saves'[k].before) BY <1>5, <2>2, <2>3, <2>4
    <3> QED BY <1>1, <1>2, <2>1, <2>3, <3>1 DEF SettingsInv, SettingsOK
  <2>6. ASSUME ~overlap PROVE AskingOK' /\ ShownOK'
    <3>1. \A k \in DOMAIN saves' : saves'[k].step = "save" BY <1>6, <2>2, <2>3, <2>6
    <3>2. ~Asking' BY <3>1 DEF Asking
    <3> QED BY <1>1, <1>6, <2>1, <2>6, <3>1, <3>2 DEF AskingOK, ShownOK
  <2> QED BY <1>1, <2>5, <2>6 DEF SettingsInv
<1> QED BY <1>7, <1>8

(* The next instance, and the connection.                                  *)
LEMMA OtherStep ==
  ASSUME SettingsInv, Relaunch \/ LinkBegins \/ LinkEnds \/ LinkGoes PROVE SettingsInv'
<1>1. CASE Relaunch
  <2>1. /\ settings' = Restored(saved) /\ saved' = saved /\ used' = settings'
        /\ queued' = FALSE /\ saves' = <<>> /\ overlap' = FALSE /\ granted' = TRUE
        /\ link' = "idle" /\ unasked' = FALSE
    BY <1>1 DEF Relaunch
  <2>2. saved \in SettingsValues BY DEF SettingsInv, SettingsOK
  <2>3. settings' \in SettingsValues /\ InTun(settings')
    BY <2>1, <2>2, RestoredInTun
  <2>4. saves' \in Seq(Pending) /\ DOMAIN saves' = {} BY <2>1
  <2>5. SettingsOK' BY <2>1, <2>2, <2>3, <2>4 DEF SettingsOK
  <2>6. ~Asking' BY <2>4 DEF Asking
  <2> QED BY <2>1, <2>4, <2>5, <2>6 DEF SettingsInv, AskingOK, ShownOK
<1>2. CASE LinkBegins
  <2>1. /\ link' = "busy" /\ used' = settings /\ overlap' = (overlap \/ Asking)
        /\ UNCHANGED <<settings, saved, queued, saves, granted, unasked>>
    BY <1>2 DEF LinkBegins
  <2>2. SettingsOK' BY <2>1 DEF SettingsInv, SettingsOK
  <2>3. Asking' = Asking BY <2>1 DEF Asking
  <2>4. ASSUME ~overlap' PROVE AskingOK' /\ ShownOK'
    BY <2>1, <2>3, <2>4 DEF SettingsInv, AskingOK, ShownOK
  <2> QED BY <2>2, <2>4 DEF SettingsInv
<1>3. CASE LinkEnds \/ LinkGoes
  <2>1. /\ link # "idle" /\ link' \in {"idle", "connected"}
        /\ UNCHANGED <<settings, saved, queued, saves, used, granted, overlap, unasked>>
    BY <1>3 DEF LinkEnds, LinkGoes
  <2>2. SettingsOK' BY <2>1 DEF SettingsInv, SettingsOK
  <2>3. Asking' = Asking BY <2>1 DEF Asking
  <2>4. ASSUME ~overlap' PROVE AskingOK' /\ ShownOK'
    BY <2>1, <2>3, <2>4 DEF SettingsInv, AskingOK, ShownOK
  <2> QED BY <2>2, <2>4 DEF SettingsInv
<1> QED BY <1>1, <1>2, <1>3

LEMMA SettingsInvStep == SettingsInv /\ [SettingsNext]_settingsVars => SettingsInv'
<1> SUFFICES ASSUME SettingsInv, [SettingsNext]_settingsVars PROVE SettingsInv' OBVIOUS
<1>1. CASE UNCHANGED settingsVars
  BY <1>1 DEF settingsVars, SettingsInv, SettingsOK, AskingOK, ShownOK, Asking
<1>2. CASE \/ \E mode \in {"proxy", "tun"} : SetTrafficMode(mode)
           \/ \E on \in BOOLEAN : SetSplitTunnelMode(on) \/ SetDomainSplitTunnelMode(on)
  <2>1. PICK next \in SettingsValues : InTun(next) /\ Change(next)
    BY <1>2, SetterChanges DEF SettingsInv
  <2> QED BY <2>1, ChangeStep
<1>3. CASE PersistTimer BY <1>3, PersistTimerStep
<1>4. CASE Relaunch \/ LinkBegins \/ LinkEnds \/ LinkGoes BY <1>4, OtherStep
<1>5. CASE \E i \in DOMAIN saves : SaveEnds(i) \/ SaveFails(i) BY <1>5, SaveStep
<1>6. CASE \E i \in DOMAIN saves : PrivilegesGranted(i) \/ PrivilegesRefused(i)
  BY <1>6, PrivilegesStep
<1> QED BY <1>1, <1>2, <1>3, <1>4, <1>5, <1>6 DEF SettingsNext

(* Whatever changes and refusals overlap, a split tunnel is never on       *)
(* outside TUN mode; and as long as none overlapped, the state file holds  *)
(* the change when the privileges are asked for, TUN mode does not stay    *)
(* without them, unless a save that failed kept them from being asked for, *)
(* and the settings shown during a connection are those it was made with   *)
(* (_applyTunSensitiveSettingsChange and                     *)
(* _ensureWindowsTunPrivilegesOrRollback of vpn_controller.dart).          *)
THEOREM SettingsStayCoherent ==
  SettingsInit /\ [][SettingsNext]_settingsVars => []SettingsCoherent
<1>1. SettingsInv => SettingsCoherent
  BY DEF SettingsInv, SettingsOK, AskingOK, ShownOK, SettingsCoherent, InTun
<1> QED BY <1>1, SettingsInvInit, SettingsInvStep, PTL
-----------------------------------------------------------------------------
(* The subscriptions (Sources), with the selections made in the tray       *)
(* (SelectItem of TrayMenu, which may carry an id that is gone).           *)
SourcesStep ==
  \/ SourcesNext
  \/ \E id, index \in Nat : SelectSource(id) \/ SelectProfile(id, index)

Places == UNION {DOMAIN c : c \in Catalogs}
Keys == UNION {{c[i] : i \in DOMAIN c} : c \in Catalogs}
SourceSet ==
  [id : Nat, input : Inputs, profiles : Catalogs, selected : Places,
   updating : BOOLEAN, pinging : BOOLEAN, latencies : SUBSET (Places \X Keys)]
JobSet ==
  [op : {"refresh"}, id : Nat, source : SourceSet, index : {0}]
    \cup [op : {"ping"}, id : Nat, source : [profiles : Catalogs], index : Nat]

(* What is read from the state file: nothing is under way or measured.     *)
AtRest(list) ==
  /\ list \in Seq(SourceSet)
  /\ \A i \in DOMAIN list :
       /\ list[i].id = i /\ list[i].selected \in DOMAIN list[i].profiles
       /\ ~list[i].updating /\ ~list[i].pinging /\ list[i].latencies = {}

(* An id is given once.                                                    *)
ListOK ==
  /\ sources \in Seq(SourceSet) /\ lastId \in Nat
  /\ \A i \in Indexes : sources[i].id <= lastId
  /\ \A i, k \in Indexes : sources[i].id = sources[k].id => i = k

(* Work under way, one source and one operation, whatever else there is.   *)
(* What a refresh has captured is as true as the list was: it writes it    *)
(* back when it fails.                                                     *)
Running(work, op, id) ==
  \E j \in DOMAIN work : work[j].op = op /\ work[j].id = id
AsMeasured(source) ==
  \A l \in source.latencies : source.profiles[l[1]] = l[2]
SourceOK(source, work, known) ==
  /\ source.selected \in DOMAIN source.profiles
  /\ source.updating => Running(work, "refresh", source.id)
  /\ source.id \notin known =>
       (source.pinging => Running(work, "ping", source.id)) /\ AsMeasured(source)
JobOK(job, known) ==
  job.op = "refresh" =>
    /\ job.source.id = job.id
    /\ job.source.selected \in DOMAIN job.source.profiles
    /\ job.id \notin known => AsMeasured(job.source)

SourcesInv ==
  /\ ListOK /\ jobs \in Seq(JobSet) /\ adding \in Inputs \cup {"none"}
  /\ \A i \in Indexes : SourceOK(sources[i], jobs, marks)
  /\ \A j \in DOMAIN jobs : JobOK(jobs[j], marks)

-----------------------------------------------------------------------------
LEMMA FoundProfile ==
  ASSUME SourcesAssumption, NEW c \in Catalogs, NEW key
  PROVE  /\ FindProfileIndex(c, key) \in DOMAIN c /\ FindProfileIndex(c, key) \in Places
         /\ (\E n \in DOMAIN c : c[n] = key) => c[FindProfileIndex(c, key)] = key
<1>1. /\ FindProfileIndex(c, key) \in DOMAIN c
      /\ (\E n \in DOMAIN c : c[n] = key) => c[FindProfileIndex(c, key)] = key
  BY DEF FindProfileIndex, SourcesAssumption
<1> QED BY <1>1 DEF Places

LEMMA FoundSource ==
  ASSUME ListOK
  PROVE  /\ \A id : Has(id) =>
              /\ SourceById(id) \in SourceSet /\ SourceById(id).id = id
              /\ \E i \in Indexes : sources[i] = SourceById(id)
         /\ sources # <<>> =>
              /\ SelectedSource \in SourceSet
              /\ \E i \in Indexes : sources[i] = SelectedSource
<1>1. ASSUME NEW id, Has(id)
      PROVE  /\ SourceById(id) \in SourceSet /\ SourceById(id).id = id
             /\ \E i \in Indexes : sources[i] = SourceById(id)
  <2>1. PICK i \in Indexes : SourceById(id) = sources[i] /\ sources[i].id = id
    BY <1>1 DEF Has, SourceById
  <2> QED BY <2>1 DEF ListOK, Indexes
<1>2. sources # <<>> => 1 \in Indexes /\ sources[1] \in SourceSet BY DEF ListOK, Indexes
<1> QED BY <1>1, <1>2 DEF SelectedSource

LEMMA ReplacedList ==
  ASSUME ListOK, NEW new \in SourceSet, ReplaceSource(new), lastId' = lastId
  PROVE  /\ ListOK' /\ Indexes' = Indexes
         /\ \A i \in Indexes :
              /\ sources'[i] = IF sources[i].id = new.id THEN new ELSE sources[i]
              /\ sources'[i].id = sources[i].id
<1>1. Len(sources) \in Nat /\ \A i \in Indexes : sources[i] \in SourceSet
  BY DEF ListOK, Indexes
<1>2. sources' = [i \in 1 .. Len(sources) |->
                    IF sources[i].id = new.id THEN new ELSE sources[i]]
  BY DEF ReplaceSource, Indexes
<1>3. sources' \in Seq(SourceSet) /\ Len(sources') = Len(sources)
  <2>1. sources' \in [1 .. Len(sources) -> SourceSet] BY <1>1, <1>2 DEF Indexes
  <2> QED BY <1>1, <2>1
<1>4. Indexes' = Indexes BY <1>3 DEF Indexes
<1>5. \A i \in Indexes :
        /\ sources'[i] = IF sources[i].id = new.id THEN new ELSE sources[i]
        /\ sources'[i].id = sources[i].id
  BY <1>2 DEF Indexes
<1>6. ListOK' BY <1>3, <1>4, <1>5 DEF ListOK
<1> QED BY <1>4, <1>5, <1>6

(* What runs goes on when an operation begins or another one ends, and     *)
(* what is known to be inconsistent stays so.                              *)
LEMMA StillOK ==
  ASSUME NEW source, NEW work, NEW work2, NEW known, NEW known2,
         SourceOK(source, work, known), known \subseteq known2,
         \A op : Running(work, op, source.id) => Running(work2, op, source.id)
  PROVE  SourceOK(source, work2, known2)
BY DEF SourceOK

LEMMA JobBegins ==
  ASSUME jobs \in Seq(JobSet), NEW job \in JobSet, Begin(job)
  PROVE  /\ jobs' \in Seq(JobSet) /\ Running(jobs', job.op, job.id)
         /\ \A op, id : Running(jobs, op, id) => Running(jobs', op, id)
         /\ \A j \in DOMAIN jobs' :
              jobs'[j] = job \/ \E k \in DOMAIN jobs : jobs'[j] = jobs[k]
<1>1. /\ jobs' = Append(jobs, job) /\ Len(jobs) \in Nat /\ jobs' \in Seq(JobSet)
      /\ DOMAIN jobs = 1 .. Len(jobs) /\ DOMAIN jobs' = 1 .. Len(jobs) + 1
      /\ jobs'[Len(jobs) + 1] = job /\ \A j \in 1 .. Len(jobs) : jobs'[j] = jobs[j]
  BY DEF Begin
<1>2. 1 .. Len(jobs) \subseteq 1 .. Len(jobs) + 1 /\ Len(jobs) + 1 \in 1 .. Len(jobs) + 1
      /\ \A j \in 1 .. Len(jobs) + 1 : j \in 1 .. Len(jobs) \/ j = Len(jobs) + 1
  BY <1>1
<1> QED BY <1>1, <1>2 DEF Running

LEMMA JobEnds ==
  ASSUME jobs \in Seq(JobSet), NEW j \in DOMAIN jobs, End(j)
  PROVE  /\ jobs' \in Seq(JobSet) /\ jobs[j] \in JobSet
         /\ \A op, id : Running(jobs, op, id) /\ (op # jobs[j].op \/ id # jobs[j].id) =>
                          Running(jobs', op, id)
         /\ \A k \in DOMAIN jobs' : \E m \in DOMAIN jobs : jobs'[k] = jobs[m]
<1>1. /\ jobs' \in Seq(JobSet) /\ DOMAIN jobs' = 1 .. Len(jobs) - 1
      /\ \A k \in 1 .. Len(jobs) - 1 : jobs'[k] = IF k < j THEN jobs[k] ELSE jobs[k + 1]
  BY RemovedElements DEF End
<1>2. DOMAIN jobs = 1 .. Len(jobs) /\ Len(jobs) \in Nat /\ jobs[j] \in JobSet OBVIOUS
<1>3. ASSUME NEW m \in DOMAIN jobs, m # j
      PROVE  \E k \in DOMAIN jobs' : jobs'[k] = jobs[m]
  <2>1. CASE m < j
    <3>1. m \in 1 .. Len(jobs) - 1 BY <1>2, <2>1
    <3> QED BY <1>1, <2>1, <3>1
  <2>2. CASE m > j
    <3>1. m - 1 \in 1 .. Len(jobs) - 1 /\ ~(m - 1 < j) /\ (m - 1) + 1 = m BY <1>2, <2>2
    <3> QED BY <1>1, <3>1
  <2> QED BY <1>2, <1>3, <2>1, <2>2
<1>4. ASSUME NEW k \in DOMAIN jobs' PROVE \E m \in DOMAIN jobs : jobs'[k] = jobs[m]
  <2>1. k \in DOMAIN jobs /\ k + 1 \in DOMAIN jobs BY <1>1, <1>2
  <2> QED BY <1>1, <2>1
<1> QED BY <1>1, <1>2, <1>3, <1>4 DEF Running
(* The selection of a source before a step and after it: kept where the    *)
(* new catalog has the profile, unless a refresh had captured another one. *)
Kept(old, next) ==
  next.profiles # old.profiles /\ SelectedKey(old) # SelectedKey(next) =>
    \/ \A n \in DOMAIN next.profiles : next.profiles[n] # SelectedKey(old)
    \/ \E j \in DOMAIN jobs :
         /\ jobs[j].op = "refresh" /\ jobs[j].id = old.id
         /\ SelectedKey(jobs[j].source) # SelectedKey(old)
SelectionKept ==
  \A i \in Indexes : \A k \in DOMAIN sources' :
    sources'[k].id = sources[i].id => Kept(sources[i], sources'[k])

LEMMA FoundAgain ==
  ASSUME SourcesAssumption, NEW old, NEW next, NEW catalog \in Catalogs,
         next.profiles = catalog,
         next.selected = FindProfileIndex(catalog, SelectedKey(old))
  PROVE  \/ SelectedKey(next) = SelectedKey(old)
         \/ \A n \in DOMAIN next.profiles : next.profiles[n] # SelectedKey(old)
<1> DEFINE key == SelectedKey(old)
<1>1. SelectedKey(next) = catalog[FindProfileIndex(catalog, key)]
  BY DEF SelectedKey
<1> HIDE DEF key
<1> QED BY <1>1, FoundProfile DEF key

LEMMA SameListKept ==
  ASSUME ListOK, \A k \in DOMAIN sources' : \E m \in Indexes : sources'[k] = sources[m]
  PROVE  SelectionKept
BY DEF ListOK, SelectionKept, Kept

LEMMA ReplacedKept ==
  ASSUME ListOK, NEW new \in SourceSet, ReplaceSource(new),
         \A i \in Indexes : sources[i].id = new.id => Kept(sources[i], new)
  PROVE  SelectionKept
<1>1. DOMAIN sources' = Indexes /\ \A k \in Indexes :
        sources'[k] = IF sources[k].id = new.id THEN new ELSE sources[k]
  BY DEF ReplaceSource
<1>2. ASSUME NEW i \in Indexes, NEW k \in Indexes, sources'[k].id = sources[i].id
      PROVE  Kept(sources[i], sources'[k])
  <2>1. k = i BY <1>1, <1>2 DEF ListOK
  <2>2. CASE sources[i].id = new.id BY <1>1, <2>1, <2>2
  <2>3. CASE sources[i].id # new.id
    <3>1. sources'[k] = sources[i] BY <1>1, <2>1, <2>3
    <3> QED BY <3>1 DEF Kept
  <2> QED BY <2>2, <2>3
<1> QED BY <1>1, <1>2 DEF SelectionKept

(* Everything but a new catalog and the failure of a refresh leaves the    *)
(* profiles of every source alone.                                         *)
LEMMA SameProfilesKept ==
  ASSUME ListOK, NEW old \in SourceSet, \E i \in Indexes : sources[i] = old,
         NEW new \in SourceSet, new.id = old.id, new.profiles = old.profiles,
         ReplaceSource(new)
  PROVE  SelectionKept
<1>1. \A i \in Indexes : sources[i].id = new.id => sources[i] = old BY DEF ListOK
<1>2. \A i \in Indexes : sources[i].id = new.id => Kept(sources[i], new)
  BY <1>1 DEF Kept
<1> QED BY <1>2, ReplacedKept

(* A step that writes one source, if it is still there, and work with it.  *)
LEMMA ReplacedOK ==
  ASSUME SourcesInv, NEW new \in SourceSet, ReplaceSource(new),
         lastId' = lastId, adding' = adding,
         jobs' \in Seq(JobSet), marks \subseteq marks',
         Has(new.id) => SourceOK(new, jobs', marks'),
         \A op, id : Running(jobs, op, id) /\ id # new.id => Running(jobs', op, id),
         \A j \in DOMAIN jobs' : JobOK(jobs'[j], marks')
  PROVE  SourcesInv'
<1>1. ListOK BY DEF SourcesInv
<1>2. /\ ListOK' /\ Indexes' = Indexes
      /\ \A i \in Indexes :
           sources'[i] = IF sources[i].id = new.id THEN new ELSE sources[i]
  BY <1>1, ReplacedList
<1>3. ASSUME NEW i \in Indexes PROVE SourceOK(sources'[i], jobs', marks')
  <2>1. CASE sources[i].id = new.id BY <1>2, <2>1 DEF Has
  <2>2. CASE sources[i].id # new.id
    <3>1. SourceOK(sources[i], jobs, marks) BY DEF SourcesInv
    <3>2. \A op : Running(jobs, op, sources[i].id) => Running(jobs', op, sources[i].id)
      BY <2>2
    <3>3. SourceOK(sources[i], jobs', marks') BY <3>1, <3>2, StillOK
    <3> QED BY <1>2, <2>2, <3>3
  <2> QED BY <2>1, <2>2
<1>4. \A i \in Indexes' : SourceOK(sources'[i], jobs', marks') BY <1>2, <1>3
<1> QED BY <1>2, <1>4 DEF SourcesInv

LEMMA SourcesInvInit ==
  ASSUME NEW initial, AtRest(initial), SourcesInit(initial)
  PROVE  SourcesInv
<1>1. /\ sources = initial /\ jobs = <<>> /\ marks = {} /\ lastId = Len(initial)
      /\ adding = "none" /\ initial \in Seq(SourceSet) /\ Len(initial) \in Nat
      /\ DOMAIN initial = 1 .. Len(initial) /\ Indexes = 1 .. Len(initial)
  BY DEF SourcesInit, AtRest, Indexes
<1>2. \A i \in 1 .. Len(initial) : initial[i].id = i BY <1>1 DEF AtRest
<1>3. ListOK BY <1>1, <1>2 DEF ListOK
<1>4. \A i \in Indexes : SourceOK(sources[i], jobs, marks)
  BY <1>1 DEF AtRest, SourceOK, AsMeasured
<1>5. jobs \in Seq(JobSet) /\ DOMAIN jobs = {} BY <1>1
<1> QED BY <1>1, <1>3, <1>4, <1>5 DEF SourcesInv

(* The connection, the selection and the beginning of an addition.         *)
LEMMA ListUnchanged ==
  ASSUME SourcesInv, UNCHANGED <<sources, lastId, jobs, marks>>,
         adding' \in Inputs \cup {"none"}
  PROVE  SourcesInv' /\ SelectionKept
<1>1. ListOK /\ DOMAIN sources = Indexes BY DEF SourcesInv, ListOK, Indexes
<1>2. SelectionKept BY <1>1, SameListKept
<1> QED BY <1>2 DEF SourcesInv, ListOK, Indexes

LEMMA AddSourceStep ==
  ASSUME SourcesAssumption, SourcesInv, NEW catalog \in Catalogs, AddSourceEnds(catalog)
  PROVE  SourcesInv' /\ SelectionKept
<1>1. /\ adding \in Inputs /\ adding' = "none" /\ jobs' = jobs
      /\ ListOK /\ jobs \in Seq(JobSet) /\ Len(sources) \in Nat
      /\ DOMAIN sources = Indexes /\ Indexes = 1 .. Len(sources)
  BY DEF SourcesInv, ListOK, AddSourceEnds, Indexes
<1>2. CASE \E i \in Indexes : sources[i].input = adding
  <2> DEFINE i == CHOOSE i \in Indexes : sources[i].input = adding
             next == [sources[i] EXCEPT
                         !.profiles = catalog, !.updating = FALSE,
                         !.selected = FindProfileIndex(catalog, SelectedKey(sources[i]))]
  <2>1. /\ sources' = [sources EXCEPT ![i] = next] /\ lastId' = lastId
        /\ marks' = IF next.latencies = {} THEN marks ELSE marks \cup {next.id}
    BY <1>2 DEF AddSourceEnds
  <2>2. i \in Indexes BY <1>2
  <2>3. sources[i] \in SourceSet /\ SourceOK(sources[i], jobs, marks)
    BY <1>1, <2>2 DEF SourcesInv, ListOK
  <2> HIDE DEF i
  <2>4. FindProfileIndex(catalog, SelectedKey(sources[i])) \in DOMAIN catalog \cap Places
    BY FoundProfile
  <2>5. /\ next \in SourceSet /\ next.id = sources[i].id /\ ~next.updating
        /\ next.selected \in DOMAIN next.profiles
        /\ next.pinging = sources[i].pinging /\ next.profiles = catalog
        /\ next.selected = FindProfileIndex(catalog, SelectedKey(sources[i]))
    BY <2>3, <2>4 DEF SourceSet
  <2>6. SourceOK(next, jobs, marks')
    <3>1. next.id \notin marks' => next.latencies = {} /\ next.id \notin marks
      BY <2>1
    <3> HIDE DEF next
    <3> QED BY <2>3, <2>5, <3>1 DEF SourceOK, AsMeasured
  <2> HIDE DEF next
  <2>7. ListOK' /\ Indexes' = Indexes
        /\ \A k \in Indexes : sources'[k] = IF k = i THEN next ELSE sources[k]
    BY <1>1, <2>1, <2>2, <2>5 DEF ListOK, Indexes
  <2>8. marks \subseteq marks' BY <2>1
  <2>9. ASSUME NEW k \in Indexes PROVE SourceOK(sources'[k], jobs, marks')
    <3>1. SourceOK(sources[k], jobs, marks) BY DEF SourcesInv
    <3>2. SourceOK(sources[k], jobs, marks') BY <2>8, <3>1, StillOK
    <3> QED BY <2>6, <2>7, <3>2
  <2>10. \A j \in DOMAIN jobs : JobOK(jobs[j], marks')
    BY <2>8 DEF SourcesInv, JobOK
  <2>11. SelectionKept
    <3>1. Kept(sources[i], next) BY <2>5, FoundAgain DEF Kept
    <3>2. DOMAIN sources' = Indexes BY <1>1, <2>1
    <3>3. \A k, m \in Indexes : sources'[k].id = sources[m].id => k = m
      BY <1>1, <2>2, <2>5, <2>7 DEF ListOK
    <3>4. \A k \in Indexes : Kept(sources[k], sources'[k]) BY <2>7, <3>1 DEF Kept
    <3> QED BY <3>2, <3>3, <3>4 DEF SelectionKept
  <2> QED BY <1>1, <2>7, <2>9, <2>10, <2>11 DEF SourcesInv
<1>3. CASE ~\E i \in Indexes : sources[i].input = adding
  <2> DEFINE new == Source(lastId + 1, adding, catalog)
  <2>1. lastId' = lastId + 1 /\ sources' = Append(sources, new) /\ marks' = marks
    BY <1>3 DEF AddSourceEnds
  <2>2. 1 \in DOMAIN catalog /\ 1 \in Places BY DEF SourcesAssumption, Places
  <2>3. new \in SourceSet /\ new.id = lastId + 1 /\ SourceOK(new, jobs, marks)
    BY <1>1, <2>2 DEF Source, SourceSet, SourceOK, AsMeasured, ListOK
  <2> HIDE DEF new
  <2>4. /\ sources' \in Seq(SourceSet) /\ Len(sources') = Len(sources) + 1
        /\ Indexes' = 1 .. Len(sources) + 1
        /\ \A k \in Indexes : sources'[k] = sources[k]
        /\ sources'[Len(sources) + 1] = new
    BY <1>1, <2>1, <2>3 DEF ListOK, Indexes
  <2>5. \A k \in Indexes' : k \in Indexes \/ k = Len(sources) + 1 BY <1>1, <2>4
  <2>6. \A k \in Indexes : sources[k].id \in Nat /\ sources[k].id <= lastId
    <3>1. \A k \in Indexes : sources[k] \in SourceSet BY <1>1 DEF ListOK
    <3> QED BY <1>1, <3>1 DEF ListOK, SourceSet
  <2>7. /\ lastId \in Nat /\ lastId' \in Nat
        /\ \A n \in Nat : n <= lastId => n <= lastId' /\ n # lastId + 1
    BY <1>1, <2>1 DEF ListOK
  <2>8. \A k \in Indexes' : sources'[k].id <= lastId'
    BY <2>1, <2>3, <2>4, <2>5, <2>6, <2>7
  <2>9. \A k, m \in Indexes' : sources'[k].id = sources'[m].id => k = m
    BY <1>1, <2>3, <2>4, <2>5, <2>6, <2>7 DEF ListOK
  <2>10. ListOK' BY <2>4, <2>7, <2>8, <2>9 DEF ListOK
  <2>11. \A k \in Indexes' : SourceOK(sources'[k], jobs, marks)
    BY <2>3, <2>4, <2>5 DEF SourcesInv
  <2>12. ASSUME NEW i \in Indexes, NEW k \in DOMAIN sources',
                sources'[k].id = sources[i].id
         PROVE  Kept(sources[i], sources'[k])
    <3>1. k \in Indexes' BY <2>4, <2>12 DEF Indexes
    <3>2. k \in Indexes BY <2>3, <2>4, <2>5, <2>6, <2>7, <2>12, <3>1
    <3>3. k = i BY <1>1, <2>4, <2>12, <3>2 DEF ListOK
    <3>4. sources'[k] = sources[i] BY <2>4, <3>2, <3>3
    <3> QED BY <3>4 DEF Kept
  <2>13. SelectionKept BY <2>12 DEF SelectionKept
  <2> QED BY <1>1, <2>1, <2>10, <2>11, <2>13 DEF SourcesInv
<1> QED BY <1>2, <1>3

LEMMA RemoveSourceStep ==
  ASSUME SourcesInv, NEW id, RemoveSource(id)
  PROVE  SourcesInv' /\ SelectionKept
<1> DEFINE removed == CHOOSE i \in Indexes : sources[i].id = id
<1>1. removed \in Indexes BY DEF RemoveSource, Has
<1>2. /\ sources' = RemovedAt(sources, removed)
      /\ UNCHANGED <<lastId, adding, jobs, marks>>
  BY DEF RemoveSource
<1>3. ListOK /\ Len(sources) \in Nat /\ DOMAIN sources = Indexes
  BY DEF SourcesInv, ListOK, Indexes
<1> HIDE DEF removed
<1>4. /\ sources' \in Seq(SourceSet) /\ Len(sources') = Len(sources) - 1
      /\ Indexes' = 1 .. Len(sources) - 1
      /\ \A k \in 1 .. Len(sources) - 1 :
           sources'[k] = IF k < removed THEN sources[k] ELSE sources[k + 1]
  <2>1. sources \in Seq(SourceSet) BY <1>3 DEF ListOK
  <2>2. /\ sources' \in Seq(SourceSet) /\ Len(sources') = Len(sources) - 1
        /\ \A k \in 1 .. Len(sources) - 1 :
             sources'[k] = IF k < removed THEN sources[k] ELSE sources[k + 1]
    BY <1>1, <1>2, <1>3, <2>1, RemovedElements
  <2> QED BY <2>2 DEF Indexes
<1>5. \A k \in Indexes' : k \in Indexes /\ k + 1 \in Indexes
  BY <1>3, <1>4 DEF Indexes
<1>6. \A k \in Indexes' : \E i \in Indexes : sources'[k] = sources[i] BY <1>4, <1>5
<1>7. ASSUME NEW k \in Indexes', NEW m \in Indexes', sources'[k].id = sources'[m].id
      PROVE  k = m
  <2> DEFINE Was(n) == IF n < removed THEN n ELSE n + 1
  <2>1. Was(k) \in Indexes /\ Was(m) \in Indexes BY <1>5
  <2>2. sources'[k] = sources[Was(k)] /\ sources'[m] = sources[Was(m)] BY <1>4
  <2>3. Was(k) = Was(m) BY <1>3, <1>7, <2>1, <2>2 DEF ListOK
  <2> QED BY <1>1, <1>3, <1>4, <2>3 DEF Indexes
<1>8. ListOK' BY <1>2, <1>3, <1>4, <1>6, <1>7 DEF ListOK
<1>9. DOMAIN sources' = Indexes' BY <1>4 DEF Indexes
<1>10. SelectionKept BY <1>3, <1>6, <1>9, SameListKept
<1> QED BY <1>2, <1>6, <1>8, <1>10 DEF SourcesInv

(* The operations that await, and the choice of a profile.                 *)
LEMMA SelectionStep ==
  ASSUME SourcesInv, NEW index,
         \/ SetSelectedProfileIndex(index)
         \/ \E id : SelectProfile(id, index)
  PROVE  SourcesInv' /\ SelectionKept
<1>1. /\ lastId' = lastId /\ adding' = adding /\ jobs' = jobs /\ marks' = marks
      /\ jobs \in Seq(JobSet) /\ ListOK
  BY DEF SetSelectedProfileIndex, SelectProfile, SourcesInv
<1>2. CASE UNCHANGED sources
  BY <1>1, <1>2, ListUnchanged DEF SourcesInv
<1>3. ASSUME NEW old \in SourceSet, \E i \in Indexes : sources[i] = old,
             index \in DOMAIN old.profiles, ReplaceSource([old EXCEPT !.selected = index])
      PROVE  SourcesInv' /\ SelectionKept
  <2> DEFINE new == [old EXCEPT !.selected = index]
  <2>1. index \in Places BY <1>3 DEF SourceSet, Places
  <2>2. /\ new \in SourceSet /\ new.id = old.id /\ new.profiles = old.profiles
        /\ new.selected = index /\ new.updating = old.updating
        /\ new.pinging = old.pinging /\ new.latencies = old.latencies
    BY <2>1 DEF SourceSet
  <2>3. SourceOK(old, jobs, marks) BY <1>3 DEF SourcesInv
  <2> HIDE DEF new
  <2>4. SourceOK(new, jobs, marks) BY <1>3, <2>2, <2>3 DEF SourceOK, AsMeasured
  <2>5. ReplaceSource(new) BY <1>3 DEF new
  <2>6. \A j \in DOMAIN jobs : JobOK(jobs[j], marks) BY DEF SourcesInv
  <2>7. SelectionKept BY <1>1, <1>3, <2>2, <2>5, SameProfilesKept
  <2> QED BY <1>1, <2>2, <2>4, <2>5, <2>6, <2>7, ReplacedOK
<1>4. CASE SetSelectedProfileIndex(index)
  BY <1>1, <1>3, <1>4, FoundSource DEF SetSelectedProfileIndex
<1>5. ASSUME NEW id, SelectProfile(id, index), ~UNCHANGED sources
      PROVE  SourcesInv' /\ SelectionKept
  <2> DEFINE old == IF Has(id) THEN SourceById(id) ELSE sources[1]
  <2>1. /\ sources # <<>> /\ index \in DOMAIN old.profiles
        /\ ReplaceSource([old EXCEPT !.selected = index])
    BY <1>5 DEF SelectProfile
  <2>2. 1 \in Indexes /\ sources[1] \in SourceSet BY <1>1, <2>1 DEF ListOK, Indexes
  <2>3. old \in SourceSet /\ \E i \in Indexes : sources[i] = old
    BY <1>1, <2>2, FoundSource
  <2> HIDE DEF old
  <2> QED BY <1>3, <2>1, <2>3
<1> QED BY <1>2, <1>4, <1>5

LEMMA RefreshSourceStep ==
  ASSUME SourcesInv, NEW id \in Nat, RefreshSource(id)
  PROVE  SourcesInv' /\ SelectionKept
<1> DEFINE old == SourceById(id)
           new == [old EXCEPT !.updating = TRUE]
           job == [op |-> "refresh", id |-> id, source |-> old, index |-> 0]
<1>1. /\ lastId' = lastId /\ adding' = adding /\ marks' = marks
      /\ jobs \in Seq(JobSet) /\ ListOK /\ Has(id) /\ Begin(job) /\ ReplaceSource(new)
  BY DEF RefreshSource, SourcesInv
<1>2. old \in SourceSet /\ old.id = id /\ \E i \in Indexes : sources[i] = old
  BY <1>1, FoundSource
<1>3. SourceOK(old, jobs, marks) BY <1>2 DEF SourcesInv
<1> HIDE DEF old
<1>4. /\ new \in SourceSet /\ new.id = old.id /\ new.profiles = old.profiles
      /\ new.selected = old.selected
      /\ new.pinging = old.pinging /\ new.latencies = old.latencies
  BY <1>2 DEF SourceSet
<1>5. /\ job \in JobSet /\ job.op = "refresh" /\ job.id = id /\ job.source = old
  BY <1>2 DEF JobSet
<1> HIDE DEF new, job
<1>6. /\ jobs' \in Seq(JobSet) /\ Running(jobs', "refresh", id)
      /\ \A op, n : Running(jobs, op, n) => Running(jobs', op, n)
      /\ \A j \in DOMAIN jobs' :
           jobs'[j] = job \/ \E k \in DOMAIN jobs : jobs'[j] = jobs[k]
  BY <1>1, <1>5, JobBegins
<1>7. SourceOK(new, jobs', marks)
  BY <1>2, <1>3, <1>4, <1>6 DEF SourceOK, AsMeasured
<1>8. JobOK(job, marks) BY <1>2, <1>3, <1>5 DEF JobOK, SourceOK
<1>9. \A j \in DOMAIN jobs' : JobOK(jobs'[j], marks) BY <1>6, <1>8 DEF SourcesInv
<1>10. SelectionKept BY <1>1, <1>2, <1>4, SameProfilesKept
<1> QED BY <1>1, <1>4, <1>6, <1>7, <1>9, <1>10, ReplacedOK

LEMMA PingStep ==
  ASSUME SourcesInv, NEW id \in Nat, NEW index \in Nat,
         \/ PingSource(id) /\ index = 0
         \/ PingProfile(id, index)
  PROVE  SourcesInv' /\ SelectionKept
<1> DEFINE old == SourceById(id)
           job == [op |-> "ping", id |-> id, source |-> Profiles(id), index |-> index]
<1>1. /\ lastId' = lastId /\ adding' = adding /\ marks' = marks
      /\ jobs \in Seq(JobSet) /\ ListOK /\ Has(id) /\ Begin(job)
  BY DEF PingSource, PingProfile, CanPing, SourcesInv
<1>2. old \in SourceSet /\ old.id = id /\ \E i \in Indexes : sources[i] = old
  BY <1>1, FoundSource
<1>3. SourceOK(old, jobs, marks) BY <1>2 DEF SourcesInv
<1>4. \/ ReplaceSource([old EXCEPT !.pinging = TRUE, !.latencies = {}])
      \/ ReplaceSource([old EXCEPT !.pinging = TRUE])
  BY DEF PingSource, PingProfile
<1>5. job \in JobSet /\ job.op = "ping" /\ job.id = id
  BY <1>2 DEF JobSet, Profiles, SourceSet
<1> HIDE DEF old, job
<1>6. PICK new \in SourceSet :
        /\ ReplaceSource(new)
        /\ new.id = old.id /\ new.profiles = old.profiles
        /\ new.selected = old.selected /\ new.updating = old.updating
        /\ new.latencies = {} \/ new.latencies = old.latencies
  <2>1. CASE ReplaceSource([old EXCEPT !.pinging = TRUE, !.latencies = {}])
    <3> DEFINE new == [old EXCEPT !.pinging = TRUE, !.latencies = {}]
    <3>1. /\ new \in SourceSet /\ new.id = old.id /\ new.profiles = old.profiles
          /\ new.selected = old.selected /\ new.updating = old.updating
          /\ new.latencies = {}
      BY <1>2 DEF SourceSet
    <3> HIDE DEF new
    <3>2. ReplaceSource(new) BY <2>1 DEF new
    <3> QED BY <3>1, <3>2
  <2>2. CASE ReplaceSource([old EXCEPT !.pinging = TRUE])
    <3> DEFINE new == [old EXCEPT !.pinging = TRUE]
    <3>1. /\ new \in SourceSet /\ new.id = old.id /\ new.profiles = old.profiles
          /\ new.selected = old.selected /\ new.updating = old.updating
          /\ new.latencies = old.latencies
      BY <1>2 DEF SourceSet
    <3> HIDE DEF new
    <3>2. ReplaceSource(new) BY <2>2 DEF new
    <3> QED BY <3>1, <3>2
  <2> QED BY <1>4, <2>1, <2>2
<1>7. /\ jobs' \in Seq(JobSet) /\ Running(jobs', "ping", id)
      /\ \A op, n : Running(jobs, op, n) => Running(jobs', op, n)
      /\ \A j \in DOMAIN jobs' :
           jobs'[j] = job \/ \E k \in DOMAIN jobs : jobs'[j] = jobs[k]
  BY <1>1, <1>5, JobBegins
<1>8. SourceOK(new, jobs', marks)
  BY <1>2, <1>3, <1>6, <1>7 DEF SourceOK, AsMeasured
<1>9. JobOK(job, marks) BY <1>5 DEF JobOK
<1>10. \A j \in DOMAIN jobs' : JobOK(jobs'[j], marks) BY <1>7, <1>9 DEF SourcesInv
<1>11. SelectionKept BY <1>1, <1>2, <1>6, SameProfilesKept
<1> QED BY <1>1, <1>6, <1>7, <1>8, <1>10, <1>11, ReplacedOK

LEMMA RefreshStep ==
  ASSUME SourcesAssumption, SourcesInv, NEW j \in DOMAIN jobs,
         RefreshFails(j) \/ \E catalog \in Catalogs : RefreshEnds(j, catalog)
  PROVE  SourcesInv' /\ SelectionKept
<1> DEFINE old == jobs[j].source
<1>1. /\ lastId' = lastId /\ adding' = adding /\ marks \subseteq marks'
      /\ jobs \in Seq(JobSet) /\ End(j) /\ jobs[j].op = "refresh"
  BY DEF RefreshFails, RefreshEnds, SourcesInv
<1>2. /\ jobs' \in Seq(JobSet)
      /\ jobs[j] \in JobSet
      /\ \A op, n : Running(jobs, op, n) /\ (op # "refresh" \/ n # jobs[j].id) =>
                      Running(jobs', op, n)
      /\ \A k \in DOMAIN jobs' : \E m \in DOMAIN jobs : jobs'[k] = jobs[m]
  BY <1>1, JobEnds
<1>3. /\ old \in SourceSet /\ old.id = jobs[j].id
      /\ old.selected \in DOMAIN old.profiles
      /\ old.id \notin marks => AsMeasured(old)
  BY <1>1, <1>2 DEF SourcesInv, JobOK, JobSet
<1>4. \A m \in DOMAIN jobs : JobOK(jobs[m], marks') BY <1>1 DEF SourcesInv, JobOK
<1>5. \A k \in DOMAIN jobs' : JobOK(jobs'[k], marks') BY <1>2, <1>4
<1> DEFINE Selected(next) ==
             \/ SelectedKey(next) = SelectedKey(old)
             \/ \A n \in DOMAIN next.profiles : next.profiles[n] # SelectedKey(old)
<1>6. ASSUME NEW new \in SourceSet, new.id = old.id, Selected(new), ReplaceSource(new)
      PROVE  SelectionKept
  <2>1. \A i \in Indexes : sources[i].id = new.id => Kept(sources[i], new)
    BY <1>1, <1>3, <1>6 DEF Kept
  <2> QED BY <1>6, <2>1, ReplacedKept DEF SourcesInv
<1>7. CASE RefreshFails(j)
  <2> DEFINE new == [old EXCEPT !.updating = FALSE]
  <2>1. /\ ReplaceSource(new)
        /\ old.pinging /\ ~UnderWay("ping", old.id) => old.id \in marks'
    BY <1>3, <1>7 DEF RefreshFails
  <2> HIDE DEF old
  <2>2. /\ new \in SourceSet /\ new.id = old.id /\ new.profiles = old.profiles
        /\ new.selected = old.selected /\ ~new.updating
        /\ new.pinging = old.pinging /\ new.latencies = old.latencies
    BY <1>3 DEF SourceSet
  <2> HIDE DEF new
  <2>3. old.pinging /\ old.id \notin marks' => Running(jobs', "ping", old.id)
    <3>1. UnderWay("ping", old.id) => Running(jobs, "ping", old.id)
      BY DEF UnderWay, Running
    <3> QED BY <1>1, <1>2, <2>1, <3>1
  <2>4. SourceOK(new, jobs', marks')
    BY <1>1, <1>3, <2>2, <2>3 DEF SourceOK, AsMeasured
  <2>5. SelectionKept BY <1>6, <2>1, <2>2 DEF SelectedKey
  <2> QED BY <1>1, <1>2, <1>3, <1>5, <2>1, <2>2, <2>4, <2>5, ReplacedOK
<1>8. ASSUME NEW catalog \in Catalogs, RefreshEnds(j, catalog)
      PROVE  SourcesInv' /\ SelectionKept
  <2> DEFINE place == FindProfileIndex(catalog, SelectedKey(old))
             new == [old EXCEPT !.profiles = catalog, !.updating = FALSE,
                       !.selected = place, !.pinging = FALSE, !.latencies = {}]
  <2>1. ReplaceSource(new) BY <1>8 DEF RefreshEnds
  <2>2. place \in DOMAIN catalog /\ place \in Places BY FoundProfile
  <2> HIDE DEF old, place
  <2>3. /\ new \in SourceSet /\ new.id = old.id /\ new.profiles = catalog
        /\ new.selected = place /\ ~new.updating /\ ~new.pinging /\ new.latencies = {}
    BY <1>3, <2>2 DEF SourceSet
  <2> HIDE DEF new
  <2>4. SourceOK(new, jobs', marks') BY <2>2, <2>3 DEF SourceOK, AsMeasured
  <2>5. Selected(new) BY <2>3, FoundAgain DEF place
  <2>6. SelectionKept BY <1>6, <2>1, <2>3, <2>5
  <2> QED BY <1>1, <1>2, <1>3, <1>5, <2>1, <2>3, <2>4, <2>6, ReplacedOK
<1> QED BY <1>7, <1>8

LEMMA PingEndsStep ==
  ASSUME SourcesInv, NEW j \in DOMAIN jobs, PingEnds(j) \/ PingFails(j)
  PROVE  SourcesInv' /\ SelectionKept
<1> DEFINE job == jobs[j]
           old == SourceById(job.id)
<1>1. /\ lastId' = lastId /\ adding' = adding /\ marks' = marks
      /\ jobs \in Seq(JobSet) /\ End(j) /\ job.op = "ping" /\ ListOK
  BY DEF PingEnds, PingFails, SourcesInv
<1>2. /\ jobs' \in Seq(JobSet)
      /\ job \in JobSet
      /\ \A op, n : Running(jobs, op, n) /\ (op # "ping" \/ n # job.id) =>
                      Running(jobs', op, n)
      /\ \A k \in DOMAIN jobs' : \E m \in DOMAIN jobs : jobs'[k] = jobs[m]
  BY <1>1, JobEnds
<1>3. \A k \in DOMAIN jobs' : JobOK(jobs'[k], marks) BY <1>2 DEF SourcesInv
<1>4. CASE ~Has(job.id)
  <2>1. sources' = sources BY <1>4 DEF PingEnds, PingFails
  <2>2. \A i \in Indexes : sources[i].id # job.id BY <1>4 DEF Has
  <2>3. ASSUME NEW i \in Indexes PROVE SourceOK(sources[i], jobs', marks)
    <3>1. \A op : Running(jobs, op, sources[i].id) => Running(jobs', op, sources[i].id)
      BY <1>2, <2>2
    <3>2. SourceOK(sources[i], jobs, marks) BY DEF SourcesInv
    <3> QED BY <3>1, <3>2, StillOK
  <2>4. SelectionKept
    <3>1. DOMAIN sources = Indexes BY <1>1 DEF ListOK, Indexes
    <3> QED BY <1>1, <2>1, <3>1, SameListKept
  <2> QED BY <1>1, <1>2, <1>3, <2>1, <2>3, <2>4 DEF SourcesInv, ListOK, Indexes
<1>5. CASE Has(job.id)
  <2>1. old \in SourceSet /\ old.id = job.id /\ \E i \in Indexes : sources[i] = old
    BY <1>1, <1>5, FoundSource
  <2>2. SourceOK(old, jobs, marks) BY <2>1 DEF SourcesInv
  <2> DEFINE With(latencies) == [old EXCEPT !.pinging = FALSE, !.latencies = latencies]
  <2>3. PICK latencies :
          /\ ReplaceSource(With(latencies))
          /\ \/ PingEnds(j) /\ job.index = 0 /\ latencies = Measured(job, old)
             \/ /\ PingEnds(j) /\ job.index \in DOMAIN old.profiles
                /\ latencies = MeasuredProfile(job, old)
             \/ PingFails(j) /\ latencies = {}
             \/ PingFails(j) /\ latencies = old.latencies
    <3>1. CASE PingEnds(j) /\ job.index = 0
      <4>1. ReplaceSource(With(Measured(job, old))) BY <1>5, <3>1 DEF PingEnds
      <4> QED BY <3>1, <4>1
    <3>2. CASE PingEnds(j) /\ job.index # 0
      <4>1. ReplaceSource(With(MeasuredProfile(job, old))) BY <1>5, <3>2 DEF PingEnds
      <4> QED BY <1>5, <3>2, <4>1 DEF PingEnds
    <3>3. CASE PingFails(j) /\ job.index = 0
      <4>1. ReplaceSource(With({})) BY <1>5, <3>3 DEF PingFails
      <4> QED BY <3>3, <4>1
    <3>4. CASE PingFails(j) /\ job.index # 0
      <4>1. ReplaceSource(With(old.latencies)) BY <1>5, <3>4 DEF PingFails
      <4> QED BY <3>4, <4>1
    <3> QED BY <3>1, <3>2, <3>3, <3>4
  <2> HIDE DEF old, job
  <2>4. old.profiles \in Catalogs /\ old.latencies \in SUBSET (Places \X Keys)
    BY <2>1 DEF SourceSet
  <2>5. \A n \in DOMAIN old.profiles : <<n, old.profiles[n]>> \in Places \X Keys
    BY <2>4 DEF Places, Keys
  <2>6. latencies \in SUBSET (Places \X Keys)
    BY <2>3, <2>4, <2>5 DEF Measured, MeasuredProfile
  <2>7. \A l \in latencies : l \in old.latencies \/ old.profiles[l[1]] = l[2]
    BY <2>3 DEF Measured, MeasuredProfile
  <2> DEFINE new == With(latencies)
  <2>8. /\ new \in SourceSet /\ new.id = old.id /\ new.profiles = old.profiles
        /\ new.selected = old.selected /\ new.updating = old.updating
        /\ ~new.pinging /\ new.latencies = latencies
    BY <2>1, <2>6 DEF SourceSet
  <2>9. ReplaceSource(new) BY <2>3
  <2> HIDE DEF new
  <2>10. SourceOK(new, jobs', marks)
    BY <1>2, <2>2, <2>7, <2>8 DEF SourceOK, AsMeasured
  <2> QED BY <1>1, <1>2, <1>3, <2>1, <2>8, <2>9, <2>10, ReplacedOK, SameProfilesKept
<1> QED BY <1>4, <1>5

LEMMA SourcesInvStep ==
  ASSUME SourcesAssumption, SourcesInv, [SourcesStep]_sourceVars
  PROVE  SourcesInv' /\ SelectionKept
<1>1. CASE UNCHANGED sourceVars BY <1>1, ListUnchanged DEF sourceVars, SourcesInv
<1>2. CASE Connection \/ AddSourceFails \/ \E id : SelectSource(id)
  BY <1>2, ListUnchanged
  DEF Connection, ConnectBegins, ConnectEnds, Disconnects, AddSourceFails,
      SelectSource, SourcesInv
<1>3. CASE \E input \in Inputs : AddSource(input)
  BY <1>3, ListUnchanged DEF AddSource
<1>4. CASE \E catalog \in Catalogs : AddSourceEnds(catalog) BY <1>4, AddSourceStep
<1>5. lastId \in Nat /\ 1 .. lastId \subseteq Nat /\ 0 \in Nat
  BY DEF SourcesInv, ListOK
<1>6. CASE \E id \in 1 .. lastId :
             \/ SelectSource(id) \/ RemoveSource(id) \/ RefreshSource(id) \/ PingSource(id)
             \/ \E index \in 1 .. 2 : PingProfile(id, index)
  <2>1. PICK id \in Nat :
             \/ SelectSource(id) \/ RemoveSource(id) \/ RefreshSource(id) \/ PingSource(id)
             \/ \E index \in Nat : PingProfile(id, index)
    BY <1>5, <1>6
  <2> QED BY <1>2, <1>5, <2>1, RemoveSourceStep, RefreshSourceStep, PingStep
<1>7. CASE \E index \in 1 .. 2 : SetSelectedProfileIndex(index) BY <1>7, SelectionStep
<1>8. CASE \E j \in DOMAIN jobs :
             \/ RefreshFails(j) \/ PingEnds(j) \/ PingFails(j)
             \/ \E catalog \in Catalogs : RefreshEnds(j, catalog)
  BY <1>8, RefreshStep, PingEndsStep
<1>9. CASE \E id, index \in Nat : SelectSource(id) \/ SelectProfile(id, index)
  BY <1>2, <1>9, SelectionStep
<1> QED BY <1>1, <1>2, <1>3, <1>4, <1>6, <1>7, <1>8, <1>9 DEF SourcesStep, SourcesNext

(* However refreshes, measurements, additions and removals overlap, what   *)
(* the list shows of a source is so, but for the two known inconsistencies *)
(* (_refreshSource, pingSource, pingProfile and addSource of               *)
(* vpn_controller.dart, each of which writes a copy after its await).      *)
THEOREM ListIsTrue ==
  ASSUME NEW initial, AtRest(initial)
  PROVE  SourcesInit(initial) /\ [][SourcesStep]_sourceVars => []SourcesAsMeasured
<1>1. SourcesInv => SourcesAsMeasured
  BY DEF SourcesInv, SourcesAsMeasured, SourceOK, AsMeasured, Running, UnderWay
<1>2. SourcesInit(initial) => SourcesInv BY SourcesInvInit
<1>3. SourcesInv /\ [SourcesStep]_sourceVars => SourcesInv'
  BY SourcesInvStep, SourcesAssumption
<1> QED BY <1>1, <1>2, <1>3, PTL

(* Only the user takes the selection from one profile to another, or a     *)
(* refresh that had captured another one before the user did: the index    *)
(* that _findProfileIndex looks up again for every new catalog, in the     *)
(* list as it is and in the copy a refresh writes back.                    *)
THEOREM SelectionStays ==
  ASSUME NEW initial, AtRest(initial)
  PROVE  SourcesInit(initial) /\ [][SourcesStep]_sourceVars => SelectionIsTheUsers
<1> DEFINE Stays ==
      \A i \in Indexes : \A k \in DOMAIN sources' :
       /\ sources'[k].id = sources[i].id
       /\ sources'[k].profiles # sources[i].profiles
       /\ SelectedKey(sources[i]) # SelectedKey(sources'[k])
       => \/ \A n \in DOMAIN sources'[k].profiles :
              sources'[k].profiles[n] # SelectedKey(sources[i])
          \/ \E j \in DOMAIN jobs :
               /\ jobs[j].op = "refresh" /\ jobs[j].id = sources[i].id
               /\ SelectedKey(jobs[j].source) # SelectedKey(sources[i])
<1>1. SourcesInit(initial) => SourcesInv BY SourcesInvInit
<1>2. SourcesInv /\ [SourcesStep]_sourceVars => SourcesInv'
  BY SourcesInvStep, SourcesAssumption
<1>3. SourcesInv /\ [SourcesStep]_sourceVars => [Stays]_sourceVars
  BY SourcesInvStep, SourcesAssumption DEF SelectionKept, Kept
<1> QED BY <1>1, <1>2, <1>3, PTL DEF SelectionIsTheUsers

-----------------------------------------------------------------------------
(* Induction over the naturals without an operator as a parameter: a set   *)
(* that has 0 and every successor has them all.  The library has it for a  *)
(* predicate; this form, about a set, can be cited.                        *)
LEMMA LeastNat == ASSUME NEW T, T \subseteq Nat, T # {}
  PROVE \E n \in T : \A m \in T : n <= m
<1> DEFINE R == {ss \in Nat \X Nat : ss[1] < ss[2]}
<1>1. IsWellFoundedOn(R, Nat)
  BY NatLessThanWellFounded DEF OpToRel
<1>2. \A m, n \in Nat : m < n => <<m, n>> \in R
  OBVIOUS
<1> HIDE DEF R
<1>3. \E n \in T : \A m \in T : ~(<<m, n>> \in R)
  BY <1>1, WFMin
<1>4. PICK n \in T : \A m \in T : ~(<<m, n>> \in R) BY <1>3
<1>5. n \in Nat /\ \A m \in T : m \in Nat /\ ~(m < n) BY <1>2, <1>4
<1>6. \A m \in T : n <= m BY <1>5
<1> QED BY <1>6

LEMMA Inductive ==
  ASSUME NEW S, 0 \in S, \A n \in Nat : n \in S => n + 1 \in S
  PROVE Nat \subseteq S
<1> DEFINE T == Nat \ S
<1> SUFFICES ASSUME T # {} PROVE FALSE
  OBVIOUS
<1>1. PICK n \in T : \A m \in T : n <= m
  BY LeastNat
<1>2. n \in Nat /\ n # 0 /\ n \notin S
  OBVIOUS
<1>3. n - 1 \in Nat /\ n - 1 \notin T
  BY <1>1, <1>2
<1>4. n - 1 \in S
  BY <1>3
<1> QED BY <1>2, <1>3, <1>4

-----------------------------------------------------------------------------
(* The menu of the tray (TrayMenu).                                        *)

(* A list of anything.                                                     *)
IsList(s) == \E S : s \in Seq(S)

(* How far the rows reach, by recursion over the list: what the recursion  *)
(* says, that it only rises, and that lists of one shape are as high.      *)
LEMMA ItemHeights == \A item : ItemHeight(item) \in {6, 34}
BY DEF ItemHeight

LEMMA BottomIs ==
  ASSUME NEW items, IsList(items)
  PROVE  /\ Bottom(items, 0) = 0
         /\ \A i \in 1 .. Len(items) :
              Bottom(items, i) = Bottom(items, i - 1) + ItemHeight(items[i])
<1> DEFINE N == Len(items)
           Step(f, i) == IF i = 0 THEN 0 ELSE f[i - 1] + ItemHeight(items[i])
           T == {n \in Nat : \E f \in [0 .. n -> Nat] : \A i \in 0 .. n : f[i] = Step(f, i)}
<1>1. N \in Nat BY DEF IsList
<1>2. 0 \in T
  <2> DEFINE f == [i \in 0 .. 0 |-> 0]
  <2>1. f \in [0 .. 0 -> Nat] /\ \A i \in 0 .. 0 : f[i] = Step(f, i) OBVIOUS
  <2> QED BY <2>1
<1>3. ASSUME NEW n \in Nat, n \in T PROVE n + 1 \in T
  <2>1. PICK f \in [0 .. n -> Nat] : \A i \in 0 .. n : f[i] = Step(f, i) BY <1>3
  <2> DEFINE g == [i \in 0 .. n + 1 |-> IF i = n + 1 THEN f[n] + ItemHeight(items[n + 1])
                                        ELSE f[i]]
  <2>2. f[n] \in Nat /\ ItemHeight(items[n + 1]) \in Nat BY ItemHeights
  <2>3. \A i \in 0 .. n + 1 : i = n + 1 \/ i \in 0 .. n OBVIOUS
  <2>4. g \in [0 .. n + 1 -> Nat]
     BY <2>2, <2>3
  <2>5. \A i \in 0 .. n : i # n + 1 /\ g[i] = f[i]
     OBVIOUS
  <2>6. \A i \in 0 .. n : g[i] = Step(g, i)
    <3> TAKE i \in 0 .. n
    <3>1. i # 0 => i - 1 \in 0 .. n OBVIOUS
    <3> QED BY <2>1, <2>5, <3>1
  <2>7. g[n + 1] = Step(g, n + 1)
    <3>1. n + 1 # 0 /\ n \in 0 .. n /\ n + 1 - 1 = n /\ n + 1 \in 0 .. n + 1 OBVIOUS
    <3>2. g[n + 1] = f[n] + ItemHeight(items[n + 1]) /\ g[n] = f[n] BY <2>5, <3>1
    <3> HIDE DEF g
    <3> QED BY <3>1, <3>2
  <2>8. \A i \in 0 .. n + 1 : g[i] = Step(g, i) BY <2>3, <2>6, <2>7
  <2> HIDE DEF g, Step
  <2>9. \E h \in [0 .. n + 1 -> Nat] : \A i \in 0 .. n + 1 : h[i] = Step(h, i)
    BY <2>4, <2>8
  <2> QED BY <2>9
<1>4. N \in T
  <2> HIDE DEF T
  <2> QED BY <1>1, <1>2, <1>3, Inductive
<1>5. PICK f \in [0 .. N -> Nat] : \A i \in 0 .. N : f[i] = Step(f, i) BY <1>4
<1> DEFINE D(b) == b = [i \in 0 .. N |-> Step(b, i)]
           bottom == CHOOSE b : D(b)
<1>6. D(f) BY <1>5
<1>7. D(bottom) 
  <2> HIDE DEF D
  <2> QED BY <1>6
<1>8. \A i \in 0 .. N : Bottom(items, i) = bottom[i] 
  BY DEF Bottom
<1>9. \A i \in 0 .. N : bottom[i] = Step(bottom, i)
  <2> HIDE DEF bottom, Step
  <2> QED BY <1>7
<1>10. 0 \in 0 .. N /\ \A i \in 1 .. N : i \in 0 .. N /\ i - 1 \in 0 .. N /\ i # 0 BY <1>1
<1> HIDE DEF bottom, N
<1> QED BY <1>8, <1>9, <1>10 DEF N

LEMMA BottomNat ==
  ASSUME NEW items, IsList(items)
  PROVE  \A i \in 0 .. Len(items) : Bottom(items, i) \in Nat
<1> DEFINE N == Len(items)
           T == {n \in Nat : n <= N => Bottom(items, n) \in Nat}
<1>1. N \in Nat BY DEF IsList
<1>2. 0 \in T BY BottomIs
<1>3. ASSUME NEW n \in Nat, n \in T PROVE n + 1 \in T
  <2>1. CASE n + 1 <= N
    <3>1. n + 1 \in 1 .. N /\ n + 1 - 1 = n /\ n <= N BY <1>1, <2>1
    <3>2. Bottom(items, n + 1) = Bottom(items, n) + ItemHeight(items[n + 1])
      BY <3>1, BottomIs
    <3> QED BY <1>3, <3>1, <3>2, ItemHeights
  <2> QED BY <2>1
<1> HIDE DEF T
<1>4. Nat \subseteq T BY <1>2, <1>3, Inductive
<1> QED BY <1>1, <1>4 DEF T

LEMMA BottomRises ==
  ASSUME NEW items, IsList(items), NEW i \in 0 .. Len(items)
  PROVE  \A j \in i .. Len(items) : Bottom(items, i) <= Bottom(items, j)
<1> DEFINE N == Len(items)
           T == {n \in Nat : i <= n /\ n <= N => Bottom(items, i) <= Bottom(items, n)}
<1>1. N \in Nat BY DEF IsList
<1>2. 0 \in T BY BottomNat
<1>3. ASSUME NEW n \in Nat, n \in T PROVE n + 1 \in T
  <2>1. CASE n + 1 <= N /\ i <= n
    <3>1. n + 1 \in 1 .. N /\ n + 1 - 1 = n /\ n \in 0 .. N BY <1>1, <2>1
    <3>2. Bottom(items, n + 1) = Bottom(items, n) + ItemHeight(items[n + 1])
      BY <3>1, BottomIs
    <3>3. Bottom(items, i) \in Nat /\ Bottom(items, n) \in Nat BY <3>1, BottomNat
    <3> QED BY <1>3, <2>1, <3>1, <3>2, <3>3, ItemHeights
  <2>2. CASE i = n + 1 /\ n + 1 <= N
    <3>1. Bottom(items, i) \in Nat BY BottomNat
    <3> QED BY <2>2, <3>1
  <2> QED BY <2>1, <2>2, <1>1
<1> HIDE DEF T
<1>4. Nat \subseteq T BY <1>2, <1>3, Inductive
<1>5. \A j \in i .. N : j \in Nat /\ i <= j /\ j <= N BY <1>1
<1> QED BY <1>4, <1>5 DEF T

LEMMA SameBottoms ==
  ASSUME NEW a, NEW b, IsList(a), IsList(b), SameShape(a, b)
  PROVE  MenuHeight(a) = MenuHeight(b)
<1> DEFINE N == Len(a)
           T == {n \in Nat : n <= N => Bottom(a, n) = Bottom(b, n)}
<1>1. N \in Nat /\ Len(b) = N /\ DOMAIN a = 1 .. N BY DEF IsList, SameShape
<1>2. \A i \in 1 .. N : ItemHeight(a[i]) = ItemHeight(b[i])
  BY <1>1 DEF SameShape, Shape, ItemHeight
<1>3. 0 \in T BY BottomIs
<1>4. ASSUME NEW n \in Nat, n \in T PROVE n + 1 \in T
  <2>1. CASE n + 1 <= N
    <3>1. n + 1 \in 1 .. N /\ n + 1 - 1 = n /\ n <= N BY <1>1, <2>1
    <3>2. /\ Bottom(a, n + 1) = Bottom(a, n) + ItemHeight(a[n + 1])
          /\ Bottom(b, n + 1) = Bottom(b, n) + ItemHeight(b[n + 1])
      BY <1>1, <3>1, BottomIs
    <3> QED BY <1>2, <1>4, <3>1, <3>2
  <2> QED BY <2>1
<1> HIDE DEF T
<1>5. Nat \subseteq T BY <1>3, <1>4, Inductive
<1> QED BY <1>1, <1>5 DEF T, MenuHeight

(* The item under a point is one that is enabled there.                    *)
LEMMA IndexIsOn ==
  ASSUME NEW items, IsList(items), NEW y \in Nat
  PROVE  \/ IndexAt(items, y) = 0
         \/ IndexAt(items, y) \in DOMAIN items /\ items[IndexAt(items, y)].on
<1> DEFINE At(i) == Bottom(items, i - 1) <= y /\ y < Bottom(items, i)
<1>1. Len(items) \in Nat /\ DOMAIN items = 1 .. Len(items) BY DEF IsList
<1>2. ASSUME NEW i \in DOMAIN items, NEW k \in DOMAIN items, At(i), At(k), i < k
      PROVE  FALSE
  <2>1. /\ i \in 0 .. Len(items) /\ k - 1 \in i .. Len(items) /\ k \in 0 .. Len(items)
        /\ k - 1 \in 0 .. Len(items)
    BY <1>1, <1>2
  <2>2. Bottom(items, i) <= Bottom(items, k - 1) BY <2>1, BottomRises
  <2>3. Bottom(items, i) \in Nat /\ Bottom(items, k - 1) \in Nat BY <2>1, BottomNat
  <2> QED BY <1>2, <2>2, <2>3
<1>3. \A i, k \in DOMAIN items : At(i) /\ At(k) => i = k BY <1>1, <1>2
<1> HIDE DEF At
<1>4. CASE \E i \in DOMAIN items : items[i].on /\ At(i)
  <2> DEFINE c == CHOOSE i \in DOMAIN items : At(i)
  <2>1. PICK i \in DOMAIN items : items[i].on /\ At(i) BY <1>4
  <2>2. c \in DOMAIN items /\ At(c) BY <2>1
  <2>3. c = i BY <1>3, <2>1, <2>2
  <2>4. IndexAt(items, y) = c BY <1>4 DEF IndexAt, At
  <2> QED BY <2>1, <2>3, <2>4
<1>5. CASE ~\E i \in DOMAIN items : items[i].on /\ At(i)
  BY <1>5 DEF IndexAt, At
<1> QED BY <1>4, <1>5

-----------------------------------------------------------------------------
(* What the rows of a menu are.                                            *)
Kinds == {"separator", "open", "quit", "toggle", "source", "profile"}
RowOK(item) ==
  /\ item.kind \in Kinds /\ (item.on => item.kind # "separator")
  /\ item.id \in Nat /\ item.index \in Nat
RowsOK(rows) ==
  IsList(rows) /\ \A n \in DOMAIN rows : RowOK(rows[n]) /\ rows[n].kind = "profile"
ItemsOK(items) ==
  IsList(items) /\ \A i \in DOMAIN items : RowOK(items[i]) /\ RowsOK(items[i].rows)

(* Lists that are made of others: tails, joins, and one entry for each.    *)
LEMMA ListFacts ==
  ASSUME NEW s, IsList(s)
  PROVE  /\ Len(s) \in Nat /\ DOMAIN s = 1 .. Len(s) /\ (s = <<>> <=> Len(s) = 0)
         /\ s # <<>> => /\ Head(s) = s[1] /\ IsList(Tail(s)) /\ Len(Tail(s)) = Len(s) - 1
                        /\ \A i \in 1 .. Len(s) - 1 : Tail(s)[i] = s[i + 1]
<1>1. PICK S : s \in Seq(S) BY DEF IsList
<1>2. Len(s) \in Nat /\ DOMAIN s = 1 .. Len(s) /\ (s = <<>> <=> Len(s) = 0)
  BY <1>1, EmptySeq, LenProperties
<1>3. s # <<>> => Head(s) = s[1] /\ IsList(Tail(s))
  BY <1>1, HeadTailProperties DEF IsList
<1>4. s # <<>> => /\ Len(Tail(s)) = Len(s) - 1
                  /\ \A i \in 1 .. Len(s) - 1 : Tail(s)[i] = s[i + 1]
  BY <1>1, HeadTailProperties
<1> QED BY <1>2, <1>3, <1>4

LEMMA ListOf == IsList(<<>>) /\ \A x : IsList(<<x>>)
<1>1. <<>> \in Seq({}) OBVIOUS
<1>2. \A x : <<x>> \in Seq({x}) OBVIOUS
<1> QED BY <1>1, <1>2 DEF IsList

LEMMA ConcatLists ==
  ASSUME NEW a, NEW b, IsList(a), IsList(b)
  PROVE  /\ IsList(a \o b) /\ Len(a \o b) = Len(a) + Len(b)
         /\ \A i \in DOMAIN (a \o b) :
              \/ i \in DOMAIN a /\ (a \o b)[i] = a[i]
              \/ i - Len(a) \in DOMAIN b /\ (a \o b)[i] = b[i - Len(a)]
         /\ a \o b = <<>> => a = <<>> /\ b = <<>>
<1>1. PICK A : a \in Seq(A) BY DEF IsList
<1>2. PICK B : b \in Seq(B) BY DEF IsList
<1> DEFINE S == A \cup B
<1>3. a \in Seq(S) /\ b \in Seq(S) BY <1>1, <1>2, SeqMonotonic
<1> HIDE DEF S
<1>4. /\ a \o b \in Seq(S) /\ Len(a \o b) = Len(a) + Len(b)
      /\ \A i \in 1 .. Len(a) + Len(b) :
           (a \o b)[i] = IF i <= Len(a) THEN a[i] ELSE b[i - Len(a)]
  BY <1>3, ConcatProperties
<1>5. a \o b = <<>> => a = <<>> /\ b = <<>> BY <1>3, ConcatEqualIffEmpty
<1>6. IsList(a \o b) BY <1>4 DEF IsList
<1>7. /\ Len(a) \in Nat /\ DOMAIN a = 1 .. Len(a) /\ Len(b) \in Nat /\ DOMAIN b = 1 .. Len(b)
      /\ DOMAIN (a \o b) = 1 .. Len(a \o b)
  BY <1>6, ListFacts
<1>8. \A i \in 1 .. Len(a) + Len(b) :
        IF i <= Len(a) THEN i \in 1 .. Len(a) ELSE i - Len(a) \in 1 .. Len(b)
  BY <1>7
<1> QED BY <1>4, <1>5, <1>6, <1>7, <1>8

LEMMA AppendList ==
  ASSUME NEW s, NEW x, IsList(s)
  PROVE  /\ IsList(Append(s, x)) /\ Append(s, x) # <<>>
         /\ Len(Append(s, x)) = Len(s) + 1 /\ Append(s, x)[Len(s) + 1] = x
         /\ \A i \in 1 .. Len(s) : Append(s, x)[i] = s[i]
<1>1. PICK S : s \in Seq(S) BY DEF IsList
<1>2. s \in Seq(S \cup {x}) BY <1>1, SeqMonotonic
<1>3. /\ Append(s, x) \in Seq(S \cup {x}) /\ Len(Append(s, x)) = Len(s) + 1
      /\ Append(s, x)[Len(s) + 1] = x /\ Append(s, x) # <<>>
      /\ \A i \in 1 .. Len(s) : Append(s, x)[i] = s[i]
  BY <1>2, AppendProperties
<1> QED BY <1>3 DEF IsList

LEMMA JoinedOK ==
  ASSUME NEW a, NEW b, ItemsOK(a), ItemsOK(b) PROVE ItemsOK(a \o b)
<1>1. IsList(a) /\ IsList(b) BY DEF ItemsOK
<1>2. /\ IsList(a \o b)
      /\ \A i \in DOMAIN (a \o b) :
           \/ i \in DOMAIN a /\ (a \o b)[i] = a[i]
           \/ i - Len(a) \in DOMAIN b /\ (a \o b)[i] = b[i - Len(a)]
  BY <1>1, ConcatLists
<1>3. ASSUME NEW i \in DOMAIN (a \o b)
      PROVE  RowOK((a \o b)[i]) /\ RowsOK((a \o b)[i].rows)
  <2>1. CASE i \in DOMAIN a /\ (a \o b)[i] = a[i] BY <2>1 DEF ItemsOK
  <2>2. CASE i - Len(a) \in DOMAIN b /\ (a \o b)[i] = b[i - Len(a)] BY <2>2 DEF ItemsOK
  <2> QED BY <1>2, <2>1, <2>2
<1> QED BY <1>2, <1>3 DEF ItemsOK

LEMMA OneOK ==
  ASSUME NEW item, RowOK(item), RowsOK(item.rows) PROVE ItemsOK(<<item>>)
<1>1. IsList(<<item>>) BY ListOf
<1>2. DOMAIN <<item>> = {1} /\ <<item>>[1] = item OBVIOUS
<1> QED BY <1>1, <1>2 DEF ItemsOK

LEMMA MappedList ==
  ASSUME NEW n \in Nat, NEW f, f = [i \in 1 .. n |-> f[i]]
  PROVE  IsList(f) /\ Len(f) = n
<1> DEFINE S == {f[i] : i \in 1 .. n}
<1>1. f \in [1 .. n -> S] OBVIOUS
<1>2. f \in Seq(S) BY <1>1, SeqDef
<1>3. DOMAIN f = 1 .. n /\ DOMAIN f = 1 .. Len(f) /\ Len(f) \in Nat
  BY <1>1, <1>2, LenProperties
<1>4. \A i \in Nat : i \in 1 .. n <=> i \in 1 .. Len(f) BY <1>3
<1>5. n \in 1 .. n \/ n = 0 OBVIOUS
<1>6. Len(f) \in 1 .. Len(f) \/ Len(f) = 0 BY <1>3
<1>7. Len(f) = n BY <1>3, <1>4, <1>5, <1>6
<1> QED BY <1>2, <1>7 DEF IsList

(* The menu that Dart sends.                                               *)
LEMMA RowsAreOK ==
  ASSUME NEW source, NEW selected, IsList(source.profiles), source.id \in Nat
  PROVE  RowsOK(ProfileRows(source, selected))
<1> DEFINE rows == ProfileRows(source, selected)
           n == Len(source.profiles)
<1>1. n \in Nat /\ DOMAIN source.profiles = 1 .. n BY ListFacts
<1>2. rows = [i \in 1 .. n |-> rows[i]] /\ DOMAIN rows = 1 .. n
  BY <1>1 DEF ProfileRows
<1>3. \A i \in 1 .. n : RowOK(rows[i]) /\ rows[i].kind = "profile"
  BY <1>1 DEF ProfileRows, Item, RowOK, Kinds
<1> HIDE DEF rows, n
<1>4. IsList(rows) BY <1>1, <1>2, MappedList
<1> QED BY <1>2, <1>3, <1>4 DEF RowsOK, rows

LEMMA SourceRowOK ==
  ASSUME NEW source, IsList(source.profiles), source.id \in Nat
  PROVE  RowOK(SourceRow(source)) /\ RowsOK(SourceRow(source).rows)
<1>1. RowsOK(<<>>) /\ \A selected : RowsOK(ProfileRows(source, selected))
  BY RowsAreOK, ListOf DEF RowsOK
<1>2. RowOK(SourceRow(source)) BY DEF SourceRow, Item, RowOK, Kinds
<1>3. SourceRow(source).rows = <<>> \/ \E selected : SourceRow(source).rows = ProfileRows(source, selected)
  BY DEF SourceRow, Item
<1> QED BY <1>1, <1>2, <1>3

LEMMA BuildItemsOK == SourcesAssumption /\ SourcesInv => ItemsOK(BuildItems)
<1> SUFFICES ASSUME SourcesAssumption, SourcesInv PROVE ItemsOK(BuildItems) OBVIOUS
<1> DEFINE rows == [i \in Indexes |-> SourceRow(sources[i])]
<1>1. RowsOK(<<>>) BY ListOf DEF RowsOK
<1>2. ItemsOK(<<ConnectionAction>>)
  BY <1>1, OneOK DEF ConnectionAction, Item, RowOK, Kinds
<1>3. ItemsOK(<<Separator>>) BY <1>1, OneOK DEF Separator, Item, RowOK, Kinds
<1>4. ItemsOK(<<>>) BY ListOf DEF ItemsOK
<1>5. ItemsOK(rows)
  <2>1. Len(sources) \in Nat /\ Indexes = 1 .. Len(sources)
    BY DEF SourcesInv, ListOK, Indexes
  <2>2. \A i \in Indexes : IsList(sources[i].profiles) /\ sources[i].id \in Nat
    <3>1. \A c \in Catalogs : IsList(c) BY DEF SourcesAssumption, IsList
    <3>2. \A i \in Indexes : sources[i] \in SourceSet BY DEF SourcesInv, ListOK, Indexes
    <3> QED BY <3>1, <3>2 DEF SourceSet
  <2>3. \A i \in Indexes : RowOK(rows[i]) /\ RowsOK(rows[i].rows) BY <2>2, SourceRowOK
  <2>4. rows = [i \in 1 .. Len(sources) |-> rows[i]] /\ DOMAIN rows = 1 .. Len(sources)
    BY <2>1
  <2> HIDE DEF rows
  <2>5. IsList(rows) BY <2>1, <2>4, MappedList
  <2> QED BY <2>1, <2>3, <2>4, <2>5 DEF ItemsOK
<1> HIDE DEF rows
<1>6. ItemsOK(<<Separator>> \o rows) BY <1>3, <1>5, JoinedOK
<1>7. CASE sources = <<>>
  <2>1. BuildItems = <<ConnectionAction>> \o <<>> BY <1>7 DEF BuildItems
  <2> QED BY <1>2, <1>4, <2>1, JoinedOK
<1>8. CASE sources # <<>>
  <2>1. BuildItems = <<ConnectionAction>> \o (<<Separator>> \o rows)
    BY <1>8 DEF BuildItems, rows
  <2> QED BY <1>2, <1>6, <2>1, JoinedOK
<1> QED BY <1>7, <1>8

(* What the runner adds to it: the commands to open and to quit.           *)
LEMMA MenuItemsOK ==
  ASSUME NEW items, ItemsOK(items) PROVE ItemsOK(MenuItems(items))
<1>1. RowsOK(<<>>) BY ListOf DEF RowsOK
<1>2. ItemsOK(<<Separator>>) BY <1>1, OneOK DEF Separator, Item, RowOK, Kinds
<1>3. /\ RowOK(Separator) /\ RowsOK(Separator.rows)
      /\ \A kind \in {"open", "quit"} : RowOK(Command(kind)) /\ RowsOK(Command(kind).rows)
  BY <1>1 DEF Separator, Command, Item, RowOK, Kinds
<1>4. ItemsOK(<<Command("open"), Separator>>)
  <2> DEFINE a == Command("open")
             b == Separator
  <2>1. RowOK(a) /\ RowsOK(a.rows) /\ RowOK(b) /\ RowsOK(b.rows) BY <1>3
  <2> HIDE DEF a, b
  <2>2. /\ <<a, b>> \in Seq({a, b}) /\ DOMAIN <<a, b>> = {1, 2}
        /\ <<a, b>>[1] = a /\ <<a, b>>[2] = b
    OBVIOUS
  <2>3. IsList(<<a, b>>) BY <2>2 DEF IsList
  <2> QED BY <2>1, <2>2, <2>3 DEF ItemsOK, a, b
<1>5. ItemsOK(<<Command("quit")>>) BY <1>3, OneOK
<1>6. ItemsOK(<<>>) BY ListOf DEF ItemsOK
<1> DEFINE middle == IF items = <<>> THEN <<>> ELSE items \o <<Separator>>
<1>7. ItemsOK(middle) BY <1>2, <1>6, JoinedOK
<1>8. MenuItems(items) = <<Command("open"), Separator>> \o middle \o <<Command("quit")>>
  BY DEF MenuItems
<1> HIDE DEF middle
<1> QED BY <1>4, <1>5, <1>7, <1>8, JoinedOK

-----------------------------------------------------------------------------
(* What Dart and the runner have of each other: unless a change was        *)
(* skipped, the last setItems under way is the controller's list, and what *)
(* the runner has was the last it answered.                                *)
PipelineOK ==
  /\ IsList(toNative) /\ IsList(answers) /\ IsList(toDart)
  /\ ItemsOK(switchItems) /\ \A i \in DOMAIN toNative : ItemsOK(toNative[i])
  /\ \A i \in DOMAIN toDart :
       RowOK(toDart[i]) /\ toDart[i].kind \in {"toggle", "source", "profile"}
  /\ switchItems = IF answers = <<>> THEN lastPayload ELSE answers[Len(answers)]
  /\ ~missed => BuildItems = IF toNative = <<>> THEN switchItems
                             ELSE toNative[Len(toNative)]

(* A list of rows in a window: the hovered one is not a separator.         *)
WindowOK(w) ==
  /\ w.open \in BOOLEAN /\ w.scroll \in Nat /\ w.visible \in Nat /\ w.content \in Nat
  /\ w.hover \in 0 .. Len(w.items) /\ w.scroll <= MaxScroll(w)
  /\ w.open => w.content = MenuHeight(w.items)
Hovered(w, index) == index \in DOMAIN w.items /\ w.items[index].kind # "separator"
MenuOK ==
  /\ menu = [open |-> menu.open, items |-> menu.items, hover |-> menu.hover,
             scroll |-> menu.scroll, content |-> menu.content, visible |-> menu.visible]
  /\ menu.open \in BOOLEAN
  /\ menu.open => /\ WindowOK(menu) /\ menu.items = MenuItems(switchItems)
                  /\ menu.hover # 0 => Hovered(menu, menu.hover)
SubOK ==
  /\ sub = [parent |-> sub.parent, open |-> sub.open, items |-> sub.items,
            hover |-> sub.hover, scroll |-> sub.scroll, content |-> sub.content,
            visible |-> sub.visible]
  /\ WindowOK(sub) /\ RowsOK(sub.items)
  /\ sub.open => /\ menu.open /\ Hovered(menu, sub.parent)
                 /\ sub.items = menu.items[sub.parent].rows
EndOK ==
  /\ quitting => ~icon
  /\ window = "gone" => ~menu.open
MenuInv == PipelineOK /\ MenuOK /\ SubOK /\ EndOK

-----------------------------------------------------------------------------
LEMMA SameBuild == UNCHANGED sourceVars => BuildItems' = BuildItems
BY DEF sourceVars, BuildItems, ConnectionAction, SourceRow, ProfileRows, Indexes,
   IsConnected, IsBusy, CanEditSources, SelectedSource, SelectedKey, Has, SourceById,
   Item, Separator

(* The end of the process of one side leaves the other as it was.          *)
LEMMA SameEnds ==
  ASSUME MenuInv, UNCHANGED <<dartVars, toNative, answers, switchItems>>,
         IsList(toDart'),
         \A i \in DOMAIN toDart' :
           RowOK(toDart'[i]) /\ toDart'[i].kind \in {"toggle", "source", "profile"}
  PROVE  PipelineOK'
<1>1. BuildItems' = BuildItems BY SameBuild DEF dartVars
<1>2. PipelineOK BY DEF MenuInv
<1> QED BY <1>1, <1>2 DEF PipelineOK, dartVars

(* The controller sends its list, unless one is under way.                 *)
LEMMA SyncStep ==
  ASSUME SourcesAssumption, PipelineOK, SourcesInv', Sync, toDart' = <<>> \/ toDart' = toDart
  PROVE  PipelineOK' /\ UNCHANGED nativeVars
<1>1. /\ UNCHANGED nativeVars /\ switchItems' = switchItems
      /\ UNCHANGED <<lastPayload, answers>>
  BY DEF Sync, nativeVars
<1>2. ItemsOK(BuildItems)'
  <2>1. SourcesAssumption' BY DEF SourcesAssumption
  <2> QED BY <2>1, BuildItemsOK, PTL
<1>3. /\ IsList(toDart')
      /\ \A i \in DOMAIN toDart' :
           RowOK(toDart'[i]) /\ toDart'[i].kind \in {"toggle", "source", "profile"}
  <2>1. DOMAIN <<>> = {} OBVIOUS
  <2> QED BY <2>1, ListOf DEF PipelineOK
<1>4. CASE BuildItems' = lastPayload
  <2>1. toNative' = toNative /\ missed' = (toNative \o answers # <<>>)
    BY <1>4 DEF Sync
  <2>2. ASSUME ~missed' PROVE toNative = <<>> /\ answers = <<>>
    BY <2>1, <2>2, ConcatLists DEF PipelineOK
  <2>3. ~missed' => BuildItems' = IF toNative' = <<>> THEN switchItems'
                                  ELSE toNative'[Len(toNative')]
    BY <1>1, <1>4, <2>1, <2>2 DEF PipelineOK
  <2> QED BY <1>1, <1>3, <2>1, <2>3 DEF PipelineOK
<1>5. CASE BuildItems' # lastPayload
  <2> DEFINE items == BuildItems'
  <2>1. toNative' = Append(toNative, items) /\ ~missed' BY <1>5 DEF Sync
  <2> HIDE DEF items
  <2>2. IsList(toNative) BY DEF PipelineOK
  <2>3. /\ IsList(toNative') /\ toNative' # <<>> /\ Len(toNative') = Len(toNative) + 1
        /\ toNative'[Len(toNative) + 1] = items
        /\ \A i \in 1 .. Len(toNative) : toNative'[i] = toNative[i]
    BY <2>1, <2>2, AppendList
  <2>4. /\ Len(toNative) \in Nat /\ DOMAIN toNative = 1 .. Len(toNative)
        /\ DOMAIN toNative' = 1 .. Len(toNative')
    BY <2>2, <2>3, ListFacts
  <2>5. \A i \in DOMAIN toNative' : i \in DOMAIN toNative \/ i = Len(toNative) + 1
    BY <2>3, <2>4
  <2>6. ItemsOK(items) BY <1>2 DEF items
  <2>7. \A i \in DOMAIN toNative' : ItemsOK(toNative'[i])
    BY <2>3, <2>4, <2>5, <2>6 DEF PipelineOK
  <2>8. BuildItems' = toNative'[Len(toNative')] BY <2>3 DEF items
  <2> QED BY <1>1, <1>3, <2>1, <2>3, <2>7, <2>8 DEF PipelineOK
<1> QED BY <1>1, <1>4, <1>5

(* The answer to a setItems is taken.                                      *)
LEMMA AnsweredStep ==
  ASSUME MenuInv, Answered PROVE PipelineOK' /\ UNCHANGED nativeVars
<1>1. /\ answers # <<>> /\ lastPayload' = Head(answers) /\ answers' = Tail(answers)
      /\ UNCHANGED <<sourceVars, changes, missed, toNative, toDart, switchItems>>
      /\ UNCHANGED nativeVars
  BY DEF Answered, nativeVars
<1>2. PipelineOK /\ IsList(answers) BY DEF MenuInv, PipelineOK
<1>3. /\ Len(answers) \in Nat /\ Len(answers) # 0 /\ Head(answers) = answers[1]
      /\ IsList(answers') /\ Len(answers') = Len(answers) - 1
      /\ \A i \in 1 .. Len(answers) - 1 : answers'[i] = answers[i + 1]
  BY <1>1, <1>2, ListFacts
<1>4. answers' = <<>> <=> Len(answers) = 1 BY <1>3, ListFacts
<1>5. answers' # <<>> => answers'[Len(answers')] = answers[Len(answers)]
  BY <1>3, <1>4
<1>6. switchItems' = IF answers' = <<>> THEN lastPayload' ELSE answers'[Len(answers')]
  BY <1>1, <1>2, <1>3, <1>4, <1>5 DEF PipelineOK
<1>7. BuildItems' = BuildItems BY <1>1, SameBuild
<1> QED BY <1>1, <1>2, <1>3, <1>6, <1>7 DEF PipelineOK

(* What is sent to Dart, or done, for a row that is clicked or entered.    *)
LEMMA InvokeStep ==
  ASSUME MenuInv, NEW item, RowOK(item), item.kind # "separator", InvokeTrayMenuItem(item)
  PROVE  \/ ShowWindow \/ QuitFromTray
         \/ /\ item.kind \in {"toggle", "source", "profile"} /\ toDart' = <<item>>
            /\ UNCHANGED <<dartVars, toNative, answers, nativeVars>>
<1>1. item.kind \in {"open", "quit", "toggle", "source", "profile"} BY DEF RowOK, Kinds
<1> QED BY <1>1 DEF InvokeTrayMenuItem

-----------------------------------------------------------------------------
(* The windows of the menu and of the submenu.                             *)
LEMMA SubmenuIs ==
  /\ NoSubmenu = [parent |-> 0, open |-> FALSE, items |-> <<>>, hover |-> 0, scroll |-> 0,
                  content |-> 0, visible |-> 0]
  /\ \A items, index :
       Submenu(items, index) =
         [parent |-> index, open |-> TRUE, items |-> items[index].rows, hover |-> 0,
          scroll |-> 0, content |-> MenuHeight(items[index].rows),
          visible |-> MinOf(MenuHeight(items[index].rows), ScreenHeight)]
BY DEF NoSubmenu, Submenu, SubmenuOf, Opened, Closed

(* A window that was just opened, and none.                                *)
LEMMA OpenedOK ==
  ASSUME TrayMenuAssumption, NEW w, NEW items, IsList(items), w.open \in BOOLEAN, w.items = items,
         w.hover = 0, w.scroll = 0, w.content = MenuHeight(items),
         w.visible = MinOf(MenuHeight(items), ScreenHeight)
  PROVE  WindowOK(w)
<1>1. Len(items) \in Nat /\ MenuHeight(items) \in Nat
  BY ListFacts, BottomNat DEF MenuHeight
<1>2. w.visible \in Nat BY <1>1 DEF MinOf, TrayMenuAssumption
<1>3. MaxScroll(w) \in Nat BY <1>1, <1>2 DEF MaxScroll
<1> QED BY <1>1, <1>2, <1>3 DEF WindowOK

LEMMA NoSubmenuOK == ASSUME sub' = NoSubmenu PROVE SubOK' /\ ~sub'.open
<1>1. /\ sub' = [parent |-> 0, open |-> FALSE, items |-> <<>>, hover |-> 0, scroll |-> 0,
                 content |-> 0, visible |-> 0]
  BY SubmenuIs
<1>2. /\ ~sub'.open /\ sub'.open \in BOOLEAN /\ sub'.items = <<>> /\ sub'.hover = 0
      /\ sub'.scroll = 0 /\ sub'.content = 0 /\ sub'.visible = 0
  BY <1>1
<1>3. RowsOK(<<>>) BY ListOf DEF RowsOK
<1>4. WindowOK(sub)'
  <2>1. MaxScroll(sub)' = 0 BY <1>2 DEF MaxScroll
  <2> QED BY <1>2, <2>1 DEF WindowOK
<1> QED BY <1>1, <1>2, <1>3, <1>4 DEF SubOK

LEMMA ClosedOK ==
  ASSUME NEW items, menu' = Closed(items), sub' = NoSubmenu PROVE MenuOK' /\ SubOK' /\ ~menu'.open
<1>1. menu' = [open |-> FALSE, items |-> items, hover |-> 0, scroll |-> 0,
               content |-> 0, visible |-> 0]
  BY DEF Closed
<1>2. MenuOK' BY <1>1 DEF MenuOK
<1> QED BY <1>1, <1>2, NoSubmenuOK

(* The menu is opened on what the runner has.                              *)
LEMMA ShowStep ==
  ASSUME TrayMenuAssumption, MenuInv, ShowTrayMenu PROVE MenuOK' /\ SubOK'
<1> DEFINE items == MenuItems(switchItems)
<1>1. sub' = NoSubmenu /\ switchItems' = switchItems BY DEF ShowTrayMenu, MenuOnly
<1>2. CASE menu' = Closed(items) BY <1>1, <1>2, ClosedOK
<1>3. CASE menu' = Opened(items)
  <2>1. ItemsOK(items) BY MenuItemsOK DEF MenuInv, PipelineOK
  <2>2. IsList(items) BY <2>1 DEF ItemsOK
  <2> HIDE DEF items
  <2>3. menu' = [open |-> TRUE, items |-> items, hover |-> 0, scroll |-> 0,
                 content |-> MenuHeight(items),
                 visible |-> MinOf(MenuHeight(items), ScreenHeight)]
    BY <1>3 DEF Opened
  <2>4. WindowOK(menu')
    BY <2>2, <2>3, OpenedOK
  <2>5. WindowOK(menu)' BY <2>4 DEF WindowOK, MaxScroll, MenuHeight, Bottom, ItemHeight
  <2>6. MenuItems(switchItems)' = items
    BY <1>1 DEF items, MenuItems, Command, Separator, Item
  <2>7. MenuOK' BY <2>3, <2>5, <2>6 DEF MenuOK
  <2> QED BY <1>1, <2>7, NoSubmenuOK
<1> QED BY <1>2, <1>3 DEF ShowTrayMenu

(* The rows are replaced: what had their shape still has it.               *)
LEMMA SameShapeKeeps ==
  ASSUME NEW a, NEW b, IsList(a), IsList(b), SameShape(a, b)
  PROVE  /\ Len(a) = Len(b) /\ DOMAIN a = DOMAIN b /\ MenuHeight(a) = MenuHeight(b)
         /\ \A i \in DOMAIN a : a[i].kind # "separator" => b[i].kind # "separator"
<1>1. Len(a) = Len(b) /\ DOMAIN a = DOMAIN b BY ListFacts DEF SameShape
<1>2. \A i \in DOMAIN a : a[i].kind # "separator" => b[i].kind # "separator"
  BY DEF SameShape, Shape
<1> QED BY <1>1, <1>2, SameBottoms

(* The runner takes the items of a setItems: it has what was sent, and     *)
(* answers it.                                                             *)
LEMMA SetItemsPipeline == ASSUME MenuInv, SetItems PROVE PipelineOK'
<1> DEFINE head == Head(toNative)
<1>1. /\ toNative # <<>> /\ switchItems' = head /\ toNative' = Tail(toNative)
      /\ answers' = Append(answers, head)
      /\ UNCHANGED <<dartVars, toDart>>
  BY DEF SetItems
<1>2. PipelineOK /\ IsList(toNative) /\ IsList(answers) BY DEF MenuInv, PipelineOK
<1>3. /\ Len(toNative) \in Nat /\ Len(toNative) # 0 /\ head = toNative[1]
      /\ DOMAIN toNative = 1 .. Len(toNative)
      /\ IsList(toNative') /\ Len(toNative') = Len(toNative) - 1
      /\ DOMAIN toNative' = 1 .. Len(toNative) - 1
      /\ \A i \in 1 .. Len(toNative) - 1 : toNative'[i] = toNative[i + 1]
  BY <1>1, <1>2, ListFacts
<1> HIDE DEF head
<1>4. /\ IsList(answers') /\ answers' # <<>> /\ answers'[Len(answers')] = head
  BY <1>1, <1>2, AppendList
<1>5. switchItems' = IF answers' = <<>> THEN lastPayload' ELSE answers'[Len(answers')]
  BY <1>1, <1>4
<1>6. ItemsOK(switchItems') /\ \A i \in DOMAIN toNative' : ItemsOK(toNative'[i])
  <2>1. \A i \in 1 .. Len(toNative) - 1 : i + 1 \in DOMAIN toNative BY <1>3
  <2>2. 1 \in DOMAIN toNative BY <1>3
  <2> QED BY <1>1, <1>2, <1>3, <2>1, <2>2 DEF PipelineOK
<1>7. BuildItems' = BuildItems BY <1>1, SameBuild DEF dartVars
<1>8. toNative' = <<>> <=> Len(toNative) = 1 BY <1>3, ListFacts
<1>9. toNative' # <<>> => toNative'[Len(toNative')] = toNative[Len(toNative)]
  BY <1>3, <1>8
<1>10. ~missed' => BuildItems' = IF toNative' = <<>> THEN switchItems'
                                 ELSE toNative'[Len(toNative')]
  BY <1>1, <1>2, <1>3, <1>7, <1>8, <1>9 DEF PipelineOK, dartVars
<1> QED BY <1>1, <1>2, <1>3, <1>4, <1>5, <1>6, <1>10 DEF PipelineOK

LEMMA SetItemsMenu == ASSUME MenuInv, SetItems PROVE MenuOK' /\ SubOK'
<1> DEFINE items == MenuItems(switchItems')
<1>1. ItemsOK(switchItems') BY SetItemsPipeline DEF PipelineOK
<1>2. ItemsOK(items) BY <1>1, MenuItemsOK
<1>3. IsList(items) /\ Len(items) \in Nat /\ DOMAIN items = 1 .. Len(items)
  BY <1>2, ListFacts DEF ItemsOK
<1>4. MenuItems(switchItems)' = items BY DEF MenuItems, Command, Separator, Item
<1>5. \/ ~menu.open /\ menu' = [menu EXCEPT !.items = items] /\ UNCHANGED sub
      \/ menu' = Closed(items) /\ sub' = NoSubmenu
      \/ /\ menu.open /\ SameShape(menu.items, items)
         /\ menu' = [menu EXCEPT !.items = items] /\ sub' = UpdatedSubmenu(items)
  BY DEF SetItems
<1> HIDE DEF items
<1>6. MenuOK /\ SubOK BY DEF MenuInv
<1>7. CASE menu' = Closed(items) /\ sub' = NoSubmenu BY <1>7, ClosedOK
<1>8. CASE ~menu.open /\ menu' = [menu EXCEPT !.items = items] /\ UNCHANGED sub
  <2>1. menu' = [open |-> FALSE, items |-> items, hover |-> menu.hover,
                 scroll |-> menu.scroll, content |-> menu.content,
                 visible |-> menu.visible]
    BY <1>6, <1>8 DEF MenuOK
  <2>2. MenuOK' BY <2>1 DEF MenuOK
  <2>3. ~sub.open /\ WindowOK(sub) /\ RowsOK(sub.items) BY <1>6, <1>8 DEF SubOK
  <2>4. WindowOK(sub)'
    BY <1>8, <2>3 DEF WindowOK, MaxScroll, MenuHeight, Bottom, ItemHeight
  <2>5. SubOK' BY <1>6, <1>8, <2>3, <2>4 DEF SubOK
  <2> QED BY <2>2, <2>5
<1>9. CASE /\ menu.open /\ SameShape(menu.items, items)
           /\ menu' = [menu EXCEPT !.items = items] /\ sub' = UpdatedSubmenu(items)
  <2>1. ItemsOK(menu.items)
    <3>1. menu.items = MenuItems(switchItems) BY <1>6, <1>9 DEF MenuOK
    <3> QED BY <3>1, MenuItemsOK DEF MenuInv, PipelineOK
  <2>2. /\ Len(menu.items) = Len(items) /\ DOMAIN menu.items = DOMAIN items
        /\ MenuHeight(menu.items) = MenuHeight(items)
        /\ \A i \in DOMAIN menu.items :
             menu.items[i].kind # "separator" => items[i].kind # "separator"
    BY <1>3, <1>9, <2>1, SameShapeKeeps DEF ItemsOK
  <2>3. menu' = [open |-> menu.open, items |-> items, hover |-> menu.hover,
                 scroll |-> menu.scroll, content |-> menu.content,
                 visible |-> menu.visible]
    BY <1>6, <1>9 DEF MenuOK
  <2>4. MaxScroll(menu') = MaxScroll(menu) BY <2>3 DEF MaxScroll
  <2>5. WindowOK(menu) BY <1>6, <1>9 DEF MenuOK
  <2>6. WindowOK(menu') BY <2>2, <2>3, <2>4, <2>5 DEF WindowOK
  <2>7. WindowOK(menu)' BY <2>6 DEF WindowOK, MaxScroll, MenuHeight, Bottom, ItemHeight
  <2>8. \A i : Hovered(menu, i) => Hovered(menu, i)' BY <2>2, <2>3 DEF Hovered
  <2>9. MenuOK' BY <1>4, <1>6, <1>9, <2>3, <2>7, <2>8 DEF MenuOK
  <2>10. CASE sub.open /\ SameShape(sub.items, items[sub.parent].rows)
    <3> DEFINE rows == items[sub.parent].rows
    <3>1. sub' = [sub EXCEPT !.items = rows] BY <1>9, <2>10 DEF UpdatedSubmenu
    <3>2. /\ Hovered(menu, sub.parent) /\ WindowOK(sub) /\ RowsOK(sub.items)
      BY <1>6, <2>10 DEF SubOK
    <3>3. RowsOK(rows) BY <1>2, <2>2, <3>2 DEF ItemsOK, Hovered
    <3>4. Len(sub.items) = Len(rows) /\ MenuHeight(sub.items) = MenuHeight(rows)
      BY <2>10, <3>2, <3>3, SameShapeKeeps DEF RowsOK
    <3> HIDE DEF rows
    <3>5. sub' = [parent |-> sub.parent, open |-> sub.open, items |-> rows,
                  hover |-> sub.hover, scroll |-> sub.scroll,
                  content |-> sub.content, visible |-> sub.visible]
      BY <1>6, <3>1 DEF SubOK
    <3>6. MaxScroll(sub') = MaxScroll(sub) BY <3>5 DEF MaxScroll
    <3>7. WindowOK(sub') BY <3>2, <3>4, <3>5, <3>6 DEF WindowOK
    <3>8. WindowOK(sub)' BY <3>7 DEF WindowOK, MaxScroll, MenuHeight, Bottom, ItemHeight
    <3>9. RowsOK(sub.items)' BY <3>3, <3>5
    <3>10. /\ menu'.open /\ Hovered(menu, sub.parent)'
           /\ sub'.items = menu'.items[sub'.parent].rows
      BY <1>9, <2>3, <2>8, <3>2, <3>5 DEF rows, Hovered
    <3>11. SubOK' BY <3>5, <3>8, <3>9, <3>10 DEF SubOK
    <3> QED BY <2>9, <3>11
  <2>11. CASE ~(sub.open /\ SameShape(sub.items, items[sub.parent].rows))
    <3>1. sub' = NoSubmenu BY <1>9, <2>11 DEF UpdatedSubmenu
    <3> QED BY <2>9, <3>1, NoSubmenuOK
  <2> QED BY <2>10, <2>11
<1> QED BY <1>5, <1>7, <1>8, <1>9

-----------------------------------------------------------------------------
(* The mouse.  The row under it is on, and so is not a separator.          *)
LEMMA PointIsOn ==
  ASSUME NEW w, IsList(w.items), w.scroll \in Nat, NEW y \in Nat
  PROVE  \/ IndexAtPoint(w, y) = 0
         \/ IndexAtPoint(w, y) \in DOMAIN w.items /\ w.items[IndexAtPoint(w, y)].on
<1>1. y + w.scroll \in Nat OBVIOUS
<1> QED BY <1>1, IndexIsOn DEF IndexAtPoint

LEMMA ScrolledOK ==
  ASSUME NEW w, WindowOK(w), NEW up \in BOOLEAN
  PROVE  \E s \in Nat : s <= MaxScroll(w) /\ Scrolled(w, up) = [w EXCEPT !.scroll = s]
<1>1. w.scroll \in Nat /\ MaxScroll(w) \in Nat /\ w.scroll <= MaxScroll(w)
  BY DEF WindowOK, MaxScroll
<1> DEFINE s == IF up THEN (IF w.scroll > 34 THEN w.scroll - 34 ELSE 0)
                ELSE MinOf(w.scroll + 34, MaxScroll(w))
<1>2. s \in Nat /\ s <= MaxScroll(w) BY <1>1 DEF MinOf
<1>3. Scrolled(w, up) = [w EXCEPT !.scroll = s] BY DEF Scrolled
<1> HIDE DEF s
<1> QED BY <1>2, <1>3

(* The menu with another offset, and another hovered row.                  *)
LEMMA MenuHovers ==
  ASSUME MenuInv, menu.open, NEW s \in Nat, s <= MaxScroll(menu), NEW index,
         index = 0 \/ Hovered(menu, index), UNCHANGED switchItems,
         menu' = [[menu EXCEPT !.scroll = s] EXCEPT !.hover = index]
  PROVE  /\ MenuOK' /\ menu'.open /\ menu'.items = menu.items
         /\ \A i : Hovered(menu, i) => Hovered(menu, i)'
<1>1. MenuOK /\ WindowOK(menu) /\ menu.items = MenuItems(switchItems)
  BY DEF MenuInv, MenuOK
<1>2. IsList(menu.items) BY <1>1, MenuItemsOK DEF MenuInv, PipelineOK, ItemsOK
<1>3. menu' = [open |-> menu.open, items |-> menu.items, hover |-> index, scroll |-> s,
               content |-> menu.content, visible |-> menu.visible]
  BY <1>1 DEF MenuOK
<1>4. index \in 0 .. Len(menu.items)
  <2>1. Len(menu.items) \in Nat /\ DOMAIN menu.items = 1 .. Len(menu.items)
    BY <1>2, ListFacts
  <2> QED BY <2>1 DEF Hovered
<1>5. MaxScroll(menu') = MaxScroll(menu) BY <1>3 DEF MaxScroll
<1>6. WindowOK(menu') BY <1>1, <1>3, <1>4, <1>5 DEF WindowOK
<1>7. WindowOK(menu)' BY <1>6 DEF WindowOK, MaxScroll, MenuHeight, Bottom, ItemHeight
<1>8. MenuItems(switchItems)' = menu.items BY <1>1 DEF MenuItems, Command, Separator, Item
<1>9. \A i : Hovered(menu, i) => Hovered(menu, i)' BY <1>3 DEF Hovered
<1>10. MenuOK' BY <1>3, <1>7, <1>8, <1>9 DEF MenuOK
<1> QED BY <1>3, <1>9, <1>10

(* The mouse over the menu opens, keeps or closes the submenu.             *)
LEMMA HoverMenuStep ==
  ASSUME TrayMenuAssumption, MenuInv, menu.open, NEW s \in Nat, s <= MaxScroll(menu),
         NEW index, index = 0 \/ Hovered(menu, index), UNCHANGED switchItems,
         HoverMenu([menu EXCEPT !.scroll = s], index)
  PROVE  MenuOK' /\ SubOK'
<1> DEFINE w == [menu EXCEPT !.scroll = s]
<1>1. /\ MenuOK' /\ menu'.open /\ menu'.items = menu.items
      /\ \A i : Hovered(menu, i) => Hovered(menu, i)'
  BY MenuHovers DEF HoverMenu
<1>2. w.items = menu.items BY DEF MenuInv, MenuOK
<1> HIDE DEF w
<1>3. SubOK BY DEF MenuInv
<1>4. \/ sub' = NoSubmenu
      \/ index # 0 /\ sub' = Submenu(menu.items, index)
      \/ UNCHANGED sub
  BY <1>2 DEF HoverMenu, w
<1>5. CASE UNCHANGED sub
  <2>1. WindowOK(sub)'
    BY <1>3, <1>5 DEF SubOK, WindowOK, MaxScroll, MenuHeight, Bottom, ItemHeight
  <2> QED BY <1>1, <1>3, <1>5, <2>1 DEF SubOK
<1>6. CASE index # 0 /\ sub' = Submenu(menu.items, index)
  <2> DEFINE rows == menu.items[index].rows
  <2>1. RowsOK(rows)
    <3>1. menu.items = MenuItems(switchItems) BY DEF MenuInv, MenuOK
    <3>2. ItemsOK(menu.items) BY <3>1, MenuItemsOK DEF MenuInv, PipelineOK
    <3> QED BY <1>6, <3>2 DEF ItemsOK, Hovered
  <2> HIDE DEF rows
  <2>2. sub' = [parent |-> index, open |-> TRUE, items |-> rows, hover |-> 0,
                scroll |-> 0, content |-> MenuHeight(rows),
                visible |-> MinOf(MenuHeight(rows), ScreenHeight)]
    BY <1>6, SubmenuIs DEF rows
  <2>3. WindowOK(sub') BY <2>1, <2>2, OpenedOK DEF RowsOK
  <2>4. WindowOK(sub)' BY <2>3 DEF WindowOK, MaxScroll, MenuHeight, Bottom, ItemHeight
  <2>5. Hovered(menu, index)' BY <1>1, <1>6
  <2>6. sub'.items = menu'.items[sub'.parent].rows BY <1>1, <2>2 DEF rows
  <2> QED BY <1>1, <2>1, <2>2, <2>4, <2>5, <2>6 DEF SubOK, Hovered
<1> QED BY <1>1, <1>4, <1>5, <1>6, NoSubmenuOK

LEMMA SubmenuScrolled ==
  ASSUME SubOK, NEW s, NEW index, NEW w, w = [sub EXCEPT !.scroll = s],
         sub' = [w EXCEPT !.hover = index]
  PROVE  /\ w.items = sub.items /\ w.scroll = s
         /\ sub' = [parent |-> sub.parent, open |-> sub.open, items |-> sub.items,
                    hover |-> index, scroll |-> s, content |-> sub.content,
                    visible |-> sub.visible]
<1>1. w = [parent |-> sub.parent, open |-> sub.open, items |-> sub.items,
           hover |-> sub.hover, scroll |-> s, content |-> sub.content,
           visible |-> sub.visible]
  BY DEF SubOK
<1> QED BY <1>1

LEMMA HoverSubmenuStep ==
  ASSUME MenuInv, sub.open, NEW s \in Nat, s <= MaxScroll(sub), NEW y \in Nat,
         UNCHANGED switchItems, HoverSubmenu([sub EXCEPT !.scroll = s], y)
  PROVE  MenuOK' /\ SubOK'
<1> DEFINE w == [sub EXCEPT !.scroll = s]
           index == IndexAtPoint(w, y)
<1>1. SubOK /\ menu.open /\ Hovered(menu, sub.parent) /\ RowsOK(sub.items) /\ WindowOK(sub)
  BY DEF MenuInv, SubOK
<1>2. /\ sub' = [w EXCEPT !.hover = index]
      /\ menu' = [menu EXCEPT !.hover = sub.parent]
  BY DEF HoverSubmenu
<1> HIDE DEF index
<1>3. /\ w.items = sub.items /\ w.scroll = s
      /\ sub' = [parent |-> sub.parent, open |-> sub.open, items |-> sub.items,
                 hover |-> index, scroll |-> s, content |-> sub.content,
                 visible |-> sub.visible]
  BY <1>1, <1>2, SubmenuScrolled
<1>4. index = 0 \/ index \in DOMAIN sub.items
  BY <1>1, <1>3, PointIsOn DEF RowsOK, index
<1> HIDE DEF w
<1>5. menu.scroll \in Nat /\ menu.scroll <= MaxScroll(menu)
  BY <1>1 DEF MenuInv, MenuOK, WindowOK
<1>6. [menu EXCEPT !.hover = sub.parent] =
        [[menu EXCEPT !.scroll = menu.scroll] EXCEPT !.hover = sub.parent]
  BY DEF MenuInv, MenuOK
<1>7. /\ MenuOK' /\ menu'.open /\ menu'.items = menu.items
      /\ \A i : Hovered(menu, i) => Hovered(menu, i)'
  BY <1>1, <1>2, <1>5, <1>6, MenuHovers
<1>8. index \in 0 .. Len(sub.items)
  <2>1. Len(sub.items) \in Nat /\ DOMAIN sub.items = 1 .. Len(sub.items)
    BY <1>1, ListFacts DEF RowsOK
  <2> QED BY <1>4, <2>1
<1>9. MaxScroll(sub') = MaxScroll(sub) BY <1>3 DEF MaxScroll
<1>10. WindowOK(sub') BY <1>1, <1>3, <1>8, <1>9 DEF WindowOK
<1>11. WindowOK(sub)' BY <1>10 DEF WindowOK, MaxScroll, MenuHeight, Bottom, ItemHeight
<1> QED BY <1>1, <1>3, <1>7, <1>11 DEF SubOK, Hovered

(* Moving and turning the wheel, over either window.                       *)
LEMMA MouseStep ==
  ASSUME TrayMenuAssumption, MenuInv, MouseMove \/ MouseWheel PROVE MenuOK' /\ SubOK'
<1>1. /\ menu.open /\ UNCHANGED switchItems /\ CursorRows \subseteq Nat
  BY DEF MouseMove, MouseWheel, MenuOnly, TrayMenuAssumption
<1>2. /\ WindowOK(menu) /\ WindowOK(sub) /\ menu.scroll \in Nat
      /\ menu.scroll <= MaxScroll(menu) /\ sub.scroll \in Nat /\ sub.scroll <= MaxScroll(sub)
  BY <1>1 DEF MenuInv, MenuOK, SubOK, WindowOK
<1>3. ItemsOK(menu.items) /\ IsList(menu.items)
  <2>1. menu.items = MenuItems(switchItems) BY <1>1 DEF MenuInv, MenuOK
  <2> QED BY <2>1, MenuItemsOK DEF MenuInv, PipelineOK, ItemsOK
<1>4. /\ menu = [menu EXCEPT !.scroll = menu.scroll]
      /\ sub = [sub EXCEPT !.scroll = sub.scroll]
      /\ \A s : [menu EXCEPT !.scroll = s].items = menu.items
                /\ [menu EXCEPT !.scroll = s].scroll = s
  BY DEF MenuInv, MenuOK, SubOK
<1>5. ASSUME NEW s \in Nat, s <= MaxScroll(menu), NEW y \in CursorRows,
             HoverMenu([menu EXCEPT !.scroll = s], IndexAtPoint([menu EXCEPT !.scroll = s], y))
      PROVE  MenuOK' /\ SubOK'
  <2> DEFINE w == [menu EXCEPT !.scroll = s]
             index == IndexAtPoint(w, y)
  <2>1. w.items = menu.items /\ w.scroll = s BY <1>4
  <2>2. HoverMenu(w, index) BY <1>5
  <2> HIDE DEF w
  <2>3. index = 0 \/ (index \in DOMAIN w.items /\ w.items[index].on)
    BY <1>1, <1>3, <1>5, <2>1, PointIsOn
  <2> HIDE DEF index
  <2>4. index = 0 \/ Hovered(menu, index)
    BY <1>3, <2>1, <2>3 DEF Hovered, ItemsOK, RowOK
  <2> QED BY <1>1, <1>5, <2>2, <2>4, HoverMenuStep DEF w
<1>6. CASE MouseMove
  <2>1. CASE HoverMenu(menu, 0) BY <1>1, <1>2, <1>4, <2>1, HoverMenuStep
  <2>2. CASE \E y \in CursorRows : HoverMenu(menu, IndexAtPoint(menu, y))
    BY <1>2, <1>4, <1>5, <2>2
  <2>3. CASE \E y \in CursorRows : sub.open /\ HoverSubmenu(sub, y)
    BY <1>1, <1>2, <1>4, <2>3, HoverSubmenuStep
  <2> QED BY <1>6, <2>1, <2>2, <2>3 DEF MouseMove
<1>7. CASE MouseWheel
  <2>1. PICK up \in BOOLEAN, y \in CursorRows :
          \/ HoverMenu(Scrolled(menu, up), IndexAtPoint(Scrolled(menu, up), y))
          \/ sub.open /\ HoverSubmenu(Scrolled(sub, up), y)
    BY <1>7 DEF MouseWheel
  <2>2. PICK s \in Nat : s <= MaxScroll(menu) /\ Scrolled(menu, up) = [menu EXCEPT !.scroll = s]
    BY <1>2, ScrolledOK
  <2>3. PICK n \in Nat : n <= MaxScroll(sub) /\ Scrolled(sub, up) = [sub EXCEPT !.scroll = n]
    BY <1>2, ScrolledOK
  <2>4. CASE HoverMenu(Scrolled(menu, up), IndexAtPoint(Scrolled(menu, up), y))
    BY <1>5, <2>2, <2>4
  <2>5. CASE sub.open /\ HoverSubmenu(Scrolled(sub, up), y)
    BY <1>1, <2>3, <2>5, HoverSubmenuStep
  <2> QED BY <2>1, <2>4, <2>5
<1> QED BY <1>6, <1>7

-----------------------------------------------------------------------------
(* A click and Enter find a row that is not a separator.                   *)
LEMMA ClickStep ==
  ASSUME TrayMenuAssumption, MenuInv, Click \/ Enter
  PROVE  \/ HideTrayMenu /\ MenuOnly
         \/ \E item : RowOK(item) /\ item.kind # "separator" /\ InvokeTrayMenuItem(item)
<1>1. menu.open BY DEF Click, Enter
<1>2. /\ ItemsOK(menu.items) /\ RowsOK(sub.items)
  <2>1. menu.items = MenuItems(switchItems) BY <1>1 DEF MenuInv, MenuOK
  <2> QED BY <2>1, MenuItemsOK DEF MenuInv, PipelineOK, SubOK
<1>3. /\ \A i \in DOMAIN menu.items : RowOK(menu.items[i])
      /\ \A i \in DOMAIN sub.items : RowOK(sub.items[i]) /\ sub.items[i].kind # "separator"
      /\ IsList(menu.items) /\ IsList(sub.items)
  BY <1>2 DEF ItemsOK, RowsOK
<1>4. menu.scroll \in Nat /\ sub.scroll \in Nat
  BY <1>1 DEF MenuInv, MenuOK, SubOK, WindowOK
<1>5. CASE Click
  <2>1. PICK y \in CursorRows, w \in {menu, sub} :
          LET index == IndexAtPoint(w, y) IN
          IF index = 0 THEN HideTrayMenu /\ MenuOnly
          ELSE InvokeTrayMenuItem(w.items[index])
    BY <1>5 DEF Click
  <2> DEFINE index == IndexAtPoint(w, y)
  <2>2. y \in Nat /\ IsList(w.items) /\ w.scroll \in Nat
        /\ \A i \in DOMAIN w.items : RowOK(w.items[i])
    BY <1>3, <1>4 DEF TrayMenuAssumption
  <2>3. index = 0 \/ (index \in DOMAIN w.items /\ w.items[index].on) BY <2>2, PointIsOn
  <2>4. IF index = 0 THEN HideTrayMenu /\ MenuOnly ELSE InvokeTrayMenuItem(w.items[index])
    BY <2>1
  <2> HIDE DEF index
  <2>5. index # 0 => RowOK(w.items[index]) /\ w.items[index].kind # "separator"
    BY <2>2, <2>3 DEF RowOK
  <2> QED BY <2>4, <2>5
<1>6. CASE Enter
  <2>1. CASE sub.hover # 0
    <3>1. InvokeTrayMenuItem(sub.items[sub.hover]) BY <1>6, <2>1 DEF Enter
    <3>2. sub.hover \in DOMAIN sub.items
      <4>1. DOMAIN sub.items = 1 .. Len(sub.items) /\ Len(sub.items) \in Nat
        BY <1>3, ListFacts
      <4>2. sub.hover \in 0 .. Len(sub.items) BY DEF MenuInv, SubOK, WindowOK
      <4> QED BY <2>1, <4>1, <4>2
    <3> QED BY <1>3, <3>1, <3>2
  <2>2. CASE sub.hover = 0
    <3>1. menu.hover # 0 /\ InvokeTrayMenuItem(menu.items[menu.hover])
      BY <1>6, <2>2 DEF Enter
    <3>2. Hovered(menu, menu.hover) BY <1>1, <3>1 DEF MenuInv, MenuOK
    <3> QED BY <1>3, <3>1, <3>2 DEF Hovered
  <2> QED BY <2>1, <2>2
<1> QED BY <1>5, <1>6

(* What a step does to the two halves of the state.                        *)
NativeStep == MenuOK' /\ SubOK' /\ EndOK'
LEMMA SameNative == ASSUME MenuInv, UNCHANGED nativeVars PROVE NativeStep
<1>1. MenuOK /\ SubOK /\ EndOK BY DEF MenuInv
<1>2. /\ switchItems' = switchItems /\ menu' = menu /\ sub' = sub
      /\ UNCHANGED <<icon, quitting, window>>
  BY DEF nativeVars
<1>3. MenuOK'
  BY <1>1, <1>2 DEF MenuOK, Hovered, WindowOK, MaxScroll, MenuHeight, Bottom, ItemHeight,
     MenuItems, Command, Separator, Item
<1>4. SubOK'
  BY <1>1, <1>2 DEF SubOK, Hovered, WindowOK, MaxScroll, MenuHeight, Bottom, ItemHeight,
     RowsOK, RowOK
<1> QED BY <1>1, <1>2, <1>3, <1>4 DEF NativeStep, EndOK

(* Hidden, shown, quit.                                                    *)
LEMMA WindowStep ==
  ASSUME MenuInv,
         \/ HideTrayMenu /\ MenuOnly
         \/ ShowWindow \/ HideWindowToTray \/ QuitFromTray \/ FinishQuit
  PROVE  PipelineOK' /\ NativeStep /\ UNCHANGED sourceVars
<1>1. UNCHANGED <<dartVars, toNative, answers, toDart, switchItems>> /\ HideTrayMenu
  BY DEF MenuOnly, ShowWindow, HideWindowToTray, QuitFromTray, FinishQuit, channelVars
<1>2. PipelineOK'
  BY <1>1, SameEnds DEF MenuInv, PipelineOK
<1>3. MenuOK' /\ SubOK' /\ ~menu'.open BY <1>1, ClosedOK DEF HideTrayMenu
<1>4. quitting' => ~icon'
  BY DEF MenuInv, EndOK, MenuOnly, ShowWindow, HideWindowToTray, QuitFromTray, FinishQuit
<1> QED BY <1>1, <1>2, <1>3, <1>4 DEF NativeStep, EndOK, dartVars

LEMMA MenuInvInit ==
  ASSUME SourcesAssumption, SourcesInv, TrayInit PROVE MenuInv
<1>1. /\ toNative = <<BuildItems>> /\ lastPayload = <<>> /\ answers = <<>> /\ toDart = <<>>
      /\ switchItems = <<>> /\ ~quitting /\ window # "gone"
      /\ menu = Closed(<<>>) /\ sub = NoSubmenu
  BY DEF TrayInit
<1>2. PipelineOK
  <2> DEFINE items == BuildItems
  <2>1. ItemsOK(items) BY BuildItemsOK
  <2>2. toNative = <<items>> BY <1>1
  <2>3. BuildItems = items OBVIOUS
  <2> HIDE DEF items
  <2>4. IsList(<<>>) /\ IsList(<<items>>) BY ListOf
  <2>5. /\ DOMAIN <<items>> = {1} /\ <<items>>[1] = items /\ Len(<<items>>) = 1
        /\ <<items>> # <<>> /\ DOMAIN <<>> = {}
    OBVIOUS
  <2>6. ItemsOK(<<>>) BY <2>4, <2>5 DEF ItemsOK
  <2> QED BY <1>1, <2>1, <2>2, <2>3, <2>4, <2>5, <2>6 DEF PipelineOK
<1>3. menu = [open |-> FALSE, items |-> <<>>, hover |-> 0, scroll |-> 0,
              content |-> 0, visible |-> 0]
  BY <1>1 DEF Closed
<1>4. MenuOK BY <1>3 DEF MenuOK
<1>5. sub = [parent |-> 0, open |-> FALSE, items |-> <<>>, hover |-> 0, scroll |-> 0,
             content |-> 0, visible |-> 0]
  BY <1>1, SubmenuIs
<1>6. WindowOK(sub)
  <2>1. MaxScroll(sub) = 0 /\ Len(<<>>) = 0 BY <1>5 DEF MaxScroll
  <2> QED BY <1>5, <2>1 DEF WindowOK
<1>7. RowsOK(<<>>) BY ListOf DEF RowsOK
<1>8. SubOK BY <1>5, <1>6, <1>7 DEF SubOK
<1> QED BY <1>1, <1>2, <1>3, <1>4, <1>8 DEF MenuInv, EndOK

-----------------------------------------------------------------------------
(* What the controller does is a step of Sources.                          *)
LEMMA ControllerStep ==
  ASSUME SourcesAssumption, SourcesInv, MenuInv,
         ControllerChanges \/ (SelectItem /\ ~UNCHANGED sourceVars)
  PROVE  [SourcesStep]_sourceVars /\ Sync /\ (toDart' = toDart \/ toDart' = <<>>)
<1>1. CASE ControllerChanges
  <2>1. Sync /\ toDart' = toDart BY <1>1 DEF ControllerChanges
  <2>2. CASE Connection BY <2>1, <2>2 DEF SourcesStep, SourcesNext
  <2>3. CASE \E id \in 1 .. lastId : SelectSource(id) \/ RemoveSource(id) \/ RefreshSource(id)
    BY <2>1, <2>3 DEF SourcesStep, SourcesNext
  <2>4. CASE \E j \in DOMAIN jobs : \E catalog \in Catalogs : RefreshEnds(j, catalog)
    BY <2>1, <2>4 DEF SourcesStep, SourcesNext
  <2> QED BY <1>1, <2>1, <2>2, <2>3, <2>4 DEF ControllerChanges
<1>2. CASE SelectItem /\ ~UNCHANGED sourceVars
  <2> DEFINE item == Head(toDart)
  <2>1. /\ toDart # <<>> /\ toDart' = <<>> /\ Sync
        /\ CASE item.kind = "toggle" -> ConnectBegins \/ Disconnects
             [] item.kind = "source" -> SelectSource(item.id)
             [] item.kind = "profile" -> SelectProfile(item.id, item.index)
    BY <1>2 DEF SelectItem, dartVars
  <2>2. item.kind \in {"toggle", "source", "profile"} /\ item.id \in Nat /\ item.index \in Nat
    <3>1. /\ IsList(toDart)
          /\ \A i \in DOMAIN toDart :
               RowOK(toDart[i]) /\ toDart[i].kind \in {"toggle", "source", "profile"}
      BY DEF MenuInv, PipelineOK
    <3>2. item = toDart[1] /\ 1 \in DOMAIN toDart BY <2>1, <3>1, ListFacts
    <3> QED BY <3>1, <3>2 DEF RowOK
  <2> HIDE DEF item
  <2>3. \/ Connection
        \/ \E id, index \in Nat : SelectSource(id) \/ SelectProfile(id, index)
    BY <2>1, <2>2 DEF Connection
  <2> QED BY <2>1, <2>3 DEF SourcesStep, SourcesNext
<1> QED BY <1>1, <1>2

(* Every step of the tray, the controller and the runner.                  *)
LEMMA TrayStep ==
  ASSUME SourcesAssumption, TrayMenuAssumption, SourcesInv, MenuInv, [TrayNext]_trayVars
  PROVE  SourcesInv' /\ MenuInv'
<1> USE DEF NativeStep
<1>1. UNCHANGED sourceVars => SourcesInv' BY SourcesInvStep
<1>2. CASE UNCHANGED trayVars
  <2>1. UNCHANGED <<dartVars, channelVars, nativeVars, switchItems>>
    BY <1>2 DEF trayVars, nativeVars
  <2>2. PipelineOK' BY <2>1, SameEnds DEF channelVars, MenuInv, PipelineOK
  <2> QED BY <1>1, <2>1, <2>2, SameNative DEF dartVars, MenuInv
<1>3. CASE ControllerChanges \/ (SelectItem /\ ~UNCHANGED sourceVars)
  <2>1. [SourcesStep]_sourceVars /\ Sync /\ (toDart' = toDart \/ toDart' = <<>>)
    BY <1>3, ControllerStep
  <2>2. SourcesInv' BY <2>1, SourcesInvStep
  <2>3. PipelineOK' /\ UNCHANGED nativeVars BY <2>1, <2>2, SyncStep DEF MenuInv
  <2> QED BY <2>2, <2>3, SameNative DEF MenuInv
<1>4. CASE SelectItem /\ UNCHANGED sourceVars
  <2>1. toDart' = <<>> /\ (Sync \/ UNCHANGED <<dartVars, toNative, answers, nativeVars>>)
    BY <1>4 DEF SelectItem
  <2>2. CASE Sync BY <1>1, <1>4, <2>1, <2>2, SyncStep, SameNative DEF MenuInv
  <2>3. CASE UNCHANGED <<dartVars, toNative, answers, nativeVars>>
    <3>1. UNCHANGED switchItems BY <2>3 DEF nativeVars
    <3>2. IsList(toDart') /\ DOMAIN toDart' = {} BY <2>1, ListOf
    <3> QED BY <1>1, <1>4, <2>3, <3>1, <3>2, SameEnds, SameNative DEF MenuInv
  <2> QED BY <2>1, <2>2, <2>3
<1>5. CASE Answered
  <2>1. UNCHANGED sourceVars BY <1>5 DEF Answered
  <2> QED BY <1>1, <1>5, <2>1, AnsweredStep, SameNative DEF MenuInv
<1>6. CASE SetItems
  <2>1. UNCHANGED <<sourceVars, icon, quitting, window>> BY <1>6 DEF SetItems, dartVars
  <2>2. MenuOK' /\ SubOK' BY <1>6, SetItemsMenu
  <2>3. window # "gone" BY <1>6 DEF SetItems
  <2>4. EndOK' BY <2>1, <2>3 DEF MenuInv, EndOK
  <2> QED BY <1>1, <1>6, <2>1, <2>2, <2>4, SetItemsPipeline DEF MenuInv
<1>7. CASE ShowTrayMenu \/ MouseMove \/ MouseWheel
  <2>1. /\ UNCHANGED <<dartVars, channelVars, switchItems, icon, quitting, window>>
        /\ window # "gone"
    BY <1>7 DEF ShowTrayMenu, MouseMove, MouseWheel, MenuOnly, MenuInv, EndOK
  <2>2. PipelineOK' BY <2>1, SameEnds DEF channelVars, MenuInv, PipelineOK
  <2>3. MenuOK' /\ SubOK' BY <1>7, ShowStep, MouseStep
  <2>4. EndOK' BY <2>1 DEF MenuInv, EndOK
  <2> QED BY <1>1, <2>1, <2>2, <2>3, <2>4 DEF MenuInv, dartVars
<1>8. CASE \/ HideTrayMenu /\ MenuOnly
           \/ ShowWindow \/ HideWindowToTray \/ QuitFromTray \/ FinishQuit
  BY <1>1, <1>8, WindowStep DEF MenuInv
<1>9. CASE Click \/ Enter
  <2>1. CASE HideTrayMenu /\ MenuOnly BY <1>8, <2>1
  <2>2. ASSUME NEW item, RowOK(item), item.kind # "separator", InvokeTrayMenuItem(item)
        PROVE  SourcesInv' /\ MenuInv'
    <3>1. CASE ShowWindow \/ QuitFromTray BY <1>8, <3>1
    <3>2. CASE /\ item.kind \in {"toggle", "source", "profile"} /\ toDart' = <<item>>
               /\ UNCHANGED <<dartVars, toNative, answers, nativeVars>>
      <4>1. UNCHANGED switchItems BY <3>2 DEF nativeVars
      <4>2. IsList(toDart') BY <3>2, ListOf
      <4>3. DOMAIN <<item>> = {1} /\ <<item>>[1] = item OBVIOUS
      <4> QED
        BY <1>1, <2>2, <3>2, <4>1, <4>2, <4>3, SameEnds, SameNative DEF MenuInv, dartVars
    <3> QED BY <2>2, <3>1, <3>2, InvokeStep
  <2> QED BY <1>9, <2>1, <2>2, ClickStep
<1>10. CASE Dismiss BY <1>8, <1>10 DEF Dismiss
<1> QED
  BY <1>2, <1>3, <1>4, <1>5, <1>6, <1>7, <1>8, <1>9, <1>10 DEF TrayNext

(* What the invariant says of the rows on the screen.                      *)
LEMMA MenuInvIsTrue == MenuInv => MenuIsTrue
<1> SUFFICES ASSUME MenuInv PROVE MenuIsTrue OBVIOUS
<1>1. toNative \o answers = <<>> => toNative = <<>>
  BY ConcatLists DEF MenuInv, PipelineOK
<1>2. ItemsOK(menu.items) \/ ~menu.open
  BY MenuItemsOK DEF MenuInv, PipelineOK, MenuOK
<1> QED
  BY <1>1, <1>2 DEF MenuIsTrue, MenuInv, PipelineOK, MenuOK, SubOK, EndOK, WindowOK,
    Hovered

(* However the changes of the controller, the calls between Dart and the   *)
(* runner, the mouse and the keys interleave, and for any number of        *)
(* changes, sources and profiles and any screen: the menu shows the list of *)
(* the controller once no call is under way, and while it is open its rows, *)
(* its height, the hovered row and the offset agree with what it shows,    *)
(* also when its items are replaced under the mouse (_sync,                *)
(* UpdateTraySwitchItems, WM_MOUSEMOVE and WM_MOUSEWHEEL).                 *)
THEOREM MenuShowsTheList ==
  ASSUME NEW initial, AtRest(initial)
  PROVE  SourcesInit(initial) /\ TrayInit /\ [][TrayNext]_trayVars => []MenuIsTrue
<1>1. SourcesInit(initial) /\ TrayInit => SourcesInv /\ MenuInv
  BY SourcesInvInit, MenuInvInit, SourcesAssumption
<1>2. SourcesInv /\ MenuInv /\ [TrayNext]_trayVars => SourcesInv' /\ MenuInv'
  BY TrayStep, SourcesAssumption, TrayMenuAssumption
<1> QED BY <1>1, <1>2, MenuInvIsTrue, PTL
=============================================================================
