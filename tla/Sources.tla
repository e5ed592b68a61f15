------------------------------ MODULE Sources -------------------------------
(***************************************************************************)
(* The subscriptions of the app, their profiles and the selection          *)
(* (lib/services/vpn_controller.dart).                                     *)
(*                                                                         *)
(* Dart runs one callback at a time, and an operation that awaits goes on  *)
(* later, from what it captured before: addSource, _refreshSource,         *)
(* pingSource and pingProfile are two actions each.  In between the user   *)
(* selects, removes and adds, and the other operations go on.              *)
(*                                                                         *)
(* A profile is its identity key (vpnProfileIdentityKey), a catalog a list *)
(* of profiles as the server sends it; indexes start at 1.  Latencies are  *)
(* pairs of an index and the key of the profile that was measured.         *)
(* Bounds: Inputs that are added, MaxIds sources in the life of the app,   *)
(* MaxJobs operations under way.                                           *)
(***************************************************************************)
EXTENDS Naturals, Sequences

CONSTANTS Inputs, Catalogs, MaxIds, MaxJobs

ASSUME SourcesAssumption ==
  /\ MaxIds \in Nat /\ MaxJobs \in Nat
  /\ \A c \in Catalogs :  \* a list, and not an empty one
       c \in Seq({c[i] : i \in DOMAIN c}) /\ 1 \in DOMAIN c

VARIABLES
  sources,     \* _sources
  selectedId,  \* _selectedSourceId, 0 for null
  lastId,      \* the last id given
  phase,       \* _phase: "idle", "busy" or "connected"
  activeId,    \* _activeSourceId
  adding,      \* the input addSource awaits the catalog of, or "none"
  jobs,        \* the refreshes and pings under way
  marks        \* ids in a known inconsistency: see SourcesAsMeasured

sourceVars == <<sources, selectedId, lastId, phase, activeId, adding, jobs, marks>>

IsBusy == phase = "busy"
IsConnected == phase = "connected"
CanEditSources == ~IsBusy /\ ~IsConnected /\ adding = "none"
CanAddSource == ~IsBusy /\ adding = "none"

Indexes == 1 .. Len(sources)
Has(id) == \E i \in Indexes : sources[i].id = id
SourceById(id) == sources[CHOOSE i \in Indexes : sources[i].id = id]

(* _resolveSelectedSource: the first source when the selected one is gone. *)
SelectedSource == IF Has(selectedId) THEN SourceById(selectedId) ELSE sources[1]
SelectedKey(source) == source.profiles[source.selected]

(* isSourceActive and canRemoveSource.                                     *)
CanRemoveSource(id) == ~IsBusy /\ adding = "none" /\ ~(IsConnected /\ activeId = id)

(* A list without the element at an index (removeAt).                      *)
RemovedAt(list, index) ==
  SubSeq(list, 1, index - 1) \o SubSeq(list, index + 1, Len(list))

(* _replaceSource: nothing happens for a source that was removed.          *)
ReplaceSource(source) ==
  sources' = [i \in Indexes |-> IF sources[i].id = source.id THEN source
                                ELSE sources[i]]

(* _findProfileIndex: the profile with the key, the first one without.     *)
(* Mutant: the index is kept instead.                                      *)
BugFindProfileIndex(profiles, key) ==
  IF Has(selectedId) /\ SourceById(selectedId).selected <= Len(profiles)
  THEN SourceById(selectedId).selected ELSE 1
FindProfileIndex(profiles, key) ==
  IF \E i \in DOMAIN profiles : profiles[i] = key
  THEN CHOOSE i \in DOMAIN profiles : profiles[i] = key ELSE 1

SourcesInit(initial) ==
  /\ sources = initial /\ lastId = Len(initial)
  /\ selectedId = IF initial = <<>> THEN 0 ELSE 1
  /\ phase = "idle" /\ activeId = 0 /\ adding = "none"
  /\ jobs = <<>> /\ marks = {}

Source(id, input, profiles) ==
  [id |-> id, input |-> input, profiles |-> profiles, selected |-> 1,
   updating |-> FALSE, pinging |-> FALSE, latencies |-> {}]

-----------------------------------------------------------------------------
(* The connection, as far as the sources see it.                           *)
ConnectBegins ==
  /\ phase = "idle" /\ sources # <<>>
  /\ phase' = "busy" /\ activeId' = SelectedSource.id
  /\ UNCHANGED <<sources, selectedId, lastId, adding, jobs, marks>>
ConnectEnds ==
  /\ phase = "busy"
  /\ \/ phase' = "connected" /\ UNCHANGED activeId
     \/ phase' = "idle" /\ activeId' = 0
  /\ UNCHANGED <<sources, selectedId, lastId, adding, jobs, marks>>
Disconnects ==
  /\ phase = "connected"
  /\ phase' = "idle" /\ activeId' = 0
  /\ UNCHANGED <<sources, selectedId, lastId, adding, jobs, marks>>

-----------------------------------------------------------------------------
AddSource(input) ==
  /\ CanAddSource
  /\ adding' = input
  /\ UNCHANGED <<sources, selectedId, lastId, phase, activeId, jobs, marks>>

(* The catalog has come: a source with the same input is updated in place, *)
(* with its latencies; otherwise the source is new.                        *)
AddSourceEnds(catalog) ==
  /\ adding # "none"
  /\ adding' = "none"
  /\ IF \E i \in Indexes : sources[i].input = adding
     THEN LET i == CHOOSE i \in Indexes : sources[i].input = adding
              next == [sources[i] EXCEPT
                         !.profiles = catalog, !.updating = FALSE,
                         !.selected = FindProfileIndex(catalog, SelectedKey(sources[i]))] IN
          /\ sources' = [sources EXCEPT ![i] = next]
          /\ selectedId' = IF IsConnected THEN selectedId ELSE next.id
          /\ marks' = IF next.latencies = {} THEN marks ELSE marks \cup {next.id}
          /\ UNCHANGED lastId
     ELSE /\ lastId < MaxIds
          /\ lastId' = lastId + 1
          /\ sources' = Append(sources, Source(lastId', adding, catalog))
          /\ selectedId' = IF IsConnected THEN selectedId ELSE lastId'
          /\ UNCHANGED marks
  /\ UNCHANGED <<phase, activeId, jobs>>
AddSourceFails ==
  /\ adding # "none"
  /\ adding' = "none"
  /\ UNCHANGED <<sources, selectedId, lastId, phase, activeId, jobs, marks>>

(* selectSource does not ask whether there is such a source.               *)
SelectSource(id) ==
  /\ CanEditSources
  /\ selectedId' = id
  /\ UNCHANGED <<sources, lastId, phase, activeId, adding, jobs, marks>>

RemoveSource(id) ==
  /\ Has(id) /\ CanRemoveSource(id)
  /\ sources' = RemovedAt(sources, CHOOSE i \in Indexes : sources[i].id = id)
  /\ selectedId' = IF selectedId # id THEN selectedId
                   ELSE IF sources' = <<>> THEN 0 ELSE sources'[1].id
  /\ UNCHANGED <<lastId, phase, activeId, adding, jobs, marks>>

SetSelectedProfileIndex(index) ==
  /\ sources # <<>> /\ ~IsConnected /\ ~IsBusy
  /\ index \in DOMAIN SelectedSource.profiles
  /\ ReplaceSource([SelectedSource EXCEPT !.selected = index])
  /\ UNCHANGED <<selectedId, lastId, phase, activeId, adding, jobs, marks>>

-----------------------------------------------------------------------------
(* The operations that await.  A job is [op, id, source, index]: source is *)
(* what the operation captured, index the profile pingProfile measures, 0  *)
(* for all of them; a ping only uses the profiles.                         *)

Profiles(id) == [profiles |-> SourceById(id).profiles]
Begin(job) == Len(jobs) < MaxJobs /\ jobs' = Append(jobs, job)
End(j) == jobs' = RemovedAt(jobs, j)

UnderWay(op, id) == \E j \in DOMAIN jobs : jobs[j].op = op /\ jobs[j].id = id

(* _refreshSource, also by refreshDueSubscriptions; addSource may have     *)
(* taken the flag away, so that two refreshes of one source overlap.       *)
RefreshSource(id) ==
  /\ Has(id) /\ ~SourceById(id).updating
  /\ Begin([op |-> "refresh", id |-> id, source |-> SourceById(id), index |-> 0])
  /\ ReplaceSource([SourceById(id) EXCEPT !.updating = TRUE])
  /\ UNCHANGED <<selectedId, lastId, phase, activeId, adding, marks>>

(* The captured copy is written back, with the new catalog ...             *)
RefreshEnds(j, catalog) ==
  /\ jobs[j].op = "refresh"
  /\ LET source == jobs[j].source IN
     ReplaceSource([source EXCEPT
       !.profiles = catalog, !.updating = FALSE,
       !.selected = FindProfileIndex(catalog, SelectedKey(source)),
       !.pinging = FALSE, !.latencies = {}])
  /\ End(j)
  /\ UNCHANGED <<selectedId, lastId, phase, activeId, adding, marks>>

(* ... or as it is: isPinging again, when it was captured during a ping    *)
(* that has ended since.                                                   *)
RefreshFails(j) ==
  /\ jobs[j].op = "refresh"
  /\ ReplaceSource([jobs[j].source EXCEPT !.updating = FALSE])
  /\ End(j)
  /\ marks' = IF jobs[j].source.pinging /\ ~UnderWay("ping", jobs[j].id)
              THEN marks \cup {jobs[j].id} ELSE marks
  /\ UNCHANGED <<selectedId, lastId, phase, activeId, adding>>

CanPing(id) ==
  Has(id) /\ ~SourceById(id).updating /\ ~SourceById(id).pinging /\ ~IsBusy

PingSource(id) ==
  /\ CanPing(id)
  /\ Begin([op |-> "ping", id |-> id, source |-> Profiles(id), index |-> 0])
  /\ ReplaceSource([SourceById(id) EXCEPT !.pinging = TRUE, !.latencies = {}])
  /\ UNCHANGED <<selectedId, lastId, phase, activeId, adding, marks>>
PingProfile(id, index) ==
  /\ CanPing(id) /\ index \in DOMAIN SourceById(id).profiles
  /\ Begin([op |-> "ping", id |-> id, source |-> Profiles(id), index |-> index])
  /\ ReplaceSource([SourceById(id) EXCEPT !.pinging = TRUE])
  /\ UNCHANGED <<selectedId, lastId, phase, activeId, adding, marks>>

(* The latencies pingSource stores: each measurement at the index of its   *)
(* key in the list as it is now.                                           *)
Measured(job, current) ==
  {<<i, current.profiles[i]>> : i \in
     {n \in DOMAIN current.profiles :
        \E k \in DOMAIN job.source.profiles :
          job.source.profiles[k] = current.profiles[n]}}

(* Mutant: stored at the index it had when the ping began.                 *)
BugMeasuredProfile(job, current) ==
  {l \in current.latencies : l[1] # job.index}
    \cup {<<job.index, job.source.profiles[job.index]>>}
(* pingProfile: stored if the profile at the index is still the one that   *)
(* was measured.                                                           *)
MeasuredProfile(job, current) ==
  {l \in current.latencies : l[1] # job.index}
    \cup IF current.profiles[job.index] = job.source.profiles[job.index]
         THEN {<<job.index, current.profiles[job.index]>>} ELSE {}

PingEnds(j) ==
  LET job == jobs[j] IN
  /\ job.op = "ping"
  /\ job.index # 0 /\ Has(job.id) => job.index \in DOMAIN SourceById(job.id).profiles
  /\ End(j)
  /\ IF ~Has(job.id) THEN UNCHANGED sources
     ELSE LET current == SourceById(job.id) IN
          ReplaceSource([current EXCEPT !.pinging = FALSE,
            !.latencies = IF job.index = 0 THEN Measured(job, current)
                          ELSE MeasuredProfile(job, current)])
  /\ UNCHANGED <<selectedId, lastId, phase, activeId, adding, marks>>

(* The measurement fails, or the list has become too short for the index   *)
(* of pingProfile, which throws in the middle of storing the result.       *)
PingFails(j) ==
  LET job == jobs[j] IN
  /\ job.op = "ping"
  /\ End(j)
  /\ IF ~Has(job.id) THEN UNCHANGED sources
     ELSE LET current == SourceById(job.id) IN
          ReplaceSource([current EXCEPT !.pinging = FALSE,
            !.latencies = IF job.index = 0 THEN {} ELSE @])
  /\ UNCHANGED <<selectedId, lastId, phase, activeId, adding, marks>>

Connection == ConnectBegins \/ ConnectEnds \/ Disconnects

SourcesNext ==
  \/ Connection
  \/ \E input \in Inputs : AddSource(input)
  \/ \E catalog \in Catalogs : AddSourceEnds(catalog)
  \/ AddSourceFails
  \/ \E id \in 1 .. lastId :
       \/ SelectSource(id) \/ RemoveSource(id) \/ RefreshSource(id) \/ PingSource(id)
       \/ \E index \in 1 .. 2 : PingProfile(id, index)
  \/ \E index \in 1 .. 2 : SetSelectedProfileIndex(index)
  \/ \E j \in DOMAIN jobs :
       \/ RefreshFails(j) \/ PingEnds(j) \/ PingFails(j)
       \/ \E catalog \in Catalogs : RefreshEnds(j, catalog)

-----------------------------------------------------------------------------
(* What the list shows of a source is so: it is "updating" or "pinging"    *)
(* only while an operation on it is under way that will take the flag      *)
(* away, and a latency belongs to the profile it stands at (_refresh-      *)
(* Source, pingSource, pingProfile, addSource: each writes a copy of the   *)
(* source after its await).  Not so after a refresh that began during a    *)
(* ping and failed after it, which writes the flag back for good, and      *)
(* after a source with latencies was added again (marks).                  *)
SourcesAsMeasured ==
  \A i \in Indexes : LET source == sources[i] IN
    /\ source.selected \in DOMAIN source.profiles
    /\ source.updating => UnderWay("refresh", source.id)
    /\ source.id \notin marks =>
         /\ source.pinging => UnderWay("ping", source.id)
         /\ \A l \in source.latencies : source.profiles[l[1]] = l[2]

(* Only the user takes the selection from one profile to another: a        *)
(* refresh keeps the profile that was selected when it began as long as    *)
(* the subscription still has it, whatever its new place (_refreshSource); *)
(* what was selected during the refresh is lost.                           *)
SelectionIsTheUsers ==
  [][\A i \in Indexes : \A k \in DOMAIN sources' :
       /\ sources'[k].id = sources[i].id
       /\ sources'[k].profiles # sources[i].profiles
       /\ SelectedKey(sources[i]) # SelectedKey(sources'[k])
       => \/ \A n \in DOMAIN sources'[k].profiles :
              sources'[k].profiles[n] # SelectedKey(sources[i])
          \/ \E j \in DOMAIN jobs :
               /\ jobs[j].op = "refresh" /\ jobs[j].id = sources[i].id
               /\ SelectedKey(jobs[j].source) # SelectedKey(sources[i])]_sourceVars
=============================================================================
