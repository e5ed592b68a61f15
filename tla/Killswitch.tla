----------------------------- MODULE Killswitch -----------------------------
(***************************************************************************)
(* The filters of the killswitch in the Windows Filtering Platform         *)
(* (windows/runner/entropy_vpn_killswitch.cpp).                            *)
(*                                                                         *)
(* EngageKillswitch and DisengageKillswitch run in the service and, when   *)
(* it does not answer, in the app itself: two processes with a mutex each. *)
(* What keeps them apart is the transaction: the platform lets one session *)
(* write at a time, shows nothing of it to anybody before the commit, and  *)
(* drops it when the session ends.  The objects are persistent: they       *)
(* outlive the process that made them.  When these two functions are       *)
(* called is the subject of WindowsRuntime; here is what a call does.      *)
(*                                                                         *)
(* The model has the calls of both processes in any order.                 *)
(*                                                                         *)
(* Programs are the executables a call may permit.  Bounds: KsMaxCalls     *)
(* calls; in one call the platform refuses at most KsMaxKept deletions, or *)
(* all of them.                                                            *)
(***************************************************************************)
EXTENDS Naturals, FiniteSets

CONSTANTS Programs, KsMaxCalls, KsMaxKept

ASSUME KsBoundsAssumption == KsMaxCalls \in Nat /\ KsMaxKept \in Nat

VARIABLES
  base,       \* the committed objects: provider, sublayer, filters
  txn,        \* the write transaction under way, NoTxn if there is none
  standing,   \* what the last committed call asked for, and the programs
              \* permitted by filters it could not delete
  ksCalls     \* number of calls so far

ksVars == <<base, txn, standing, ksCalls>>

Layers == {"v4", "v6"}
Kinds == {"loopback", "dhcp", "app", "block"}

(* The platform decides by the filter of the greatest weight among those   *)
(* that match; without a match it permits.                                 *)
Filters == [layer : Layers, kind : Kinds, apps : SUBSET Programs]
Weight == [loopback |-> 15, dhcp |-> 14, app |-> 13, block |-> 1]
Connections == [layer : Layers, to : {"loopback", "dhcp", "net"},
                app : Programs \cup {"other"}]

Matches(f, c) ==
  /\ f.layer = c.layer
  /\ \/ f.kind = "block"
     \/ f.kind = c.to
     \/ f.kind = "app" /\ c.app \in f.apps

Permitted(fs, c) ==
  LET matching == {f \in fs : Matches(f, c)} IN
  matching = {} \/ \E f \in matching :
                      /\ f.kind # "block"
                      /\ \A g \in matching : Weight[g.kind] <= Weight[f.kind]

(* AddFilter: one filter of the kind; AddAppPermit asks for a filter of    *)
(* each executable, empty paths are left out.                              *)
Filter(layer, kind, apps) == [layer |-> layer, kind |-> kind, apps |-> apps]
AddLoopbackPermit(layer) == Filter(layer, "loopback", {})
AddDhcpPermit(layer) == Filter(layer, "dhcp", {})
AddAppPermit(layer, app) == Filter(layer, "app", {app})
AddBlockAll(layer) == Filter(layer, "block", {})

(* The set InstallFilterSet makes.  It is added in the order of Before:     *)
(* IPv4 first, and in each layer by falling weight, so that the filter     *)
(* that blocks is the last.                                                *)
FilterSet(permits) ==
  UNION {{AddLoopbackPermit(layer), AddDhcpPermit(layer), AddBlockAll(layer)}
           \cup {AddAppPermit(layer, app) : app \in permits} : layer \in Layers}
Before(f, g) ==
  \/ f.layer = "v4" /\ g.layer = "v6"
  \/ f.layer = g.layer /\ Weight[f.kind] > Weight[g.kind]

Nothing == [provider |-> FALSE, sublayer |-> FALSE, filters |-> {}]
NoTxn == [step |-> "none"]
Idle == [engaged |-> FALSE, permits |-> {}, stale |-> {}]

KsInit ==
  /\ base = Nothing /\ txn = NoTxn /\ standing = Idle /\ ksCalls = 0

(* FwpEngine::Open and FwpmTransactionBegin0; a failure of either changes  *)
(* nothing and is the call that does not happen.                           *)
Begin(op, permits) ==
  /\ txn = NoTxn /\ ksCalls < KsMaxCalls
  /\ ksCalls' = ksCalls + 1
  /\ txn' = [op |-> op, permits |-> permits,
             step |-> IF op = "engage" THEN "ensure" ELSE "clear",
             db |-> base, kept |-> {}]
  /\ UNCHANGED <<base, standing>>

At(step) == txn.step = step

(* EnsureProviderAndSublayer: what exists already is kept.                 *)
EnsureProviderAndSublayer ==
  /\ At("ensure")
  /\ \/ txn' = [txn EXCEPT !.db.provider = TRUE, !.db.sublayer = TRUE,
                           !.step = "clear"]
     \/ txn' = [txn EXCEPT !.step = "abort"]
     \/ txn' = [txn EXCEPT !.db.provider = TRUE, !.step = "abort"]
  /\ UNCHANGED <<base, standing, ksCalls>>

(* ClearExistingFilters: the result of each deletion is ignored (kept are  *)
(* the filters that stay), and that of the enumeration too, which leaves   *)
(* all of them.  Without a handle to enumerate with an engage fails; a     *)
(* disengage goes on.                                                      *)
(* Mutant: the filters are deleted before the transaction begins.          *)
BugClearExistingFilters ==
  /\ At("clear")
  /\ base' = [base EXCEPT !.filters = {}]
  /\ txn' = [txn EXCEPT !.db.filters = {},
                !.step = IF txn.op = "engage" THEN "install" ELSE "sublayer"]
  /\ UNCHANGED <<standing, ksCalls>>
ClearExistingFilters ==
  /\ At("clear")
  /\ \/ \E kept \in SUBSET txn.db.filters :
          /\ Cardinality(kept) <= KsMaxKept \/ kept = txn.db.filters
          /\ txn' = [txn EXCEPT !.db.filters = kept, !.kept = kept,
                     !.step = IF txn.op = "engage" THEN "install" ELSE "sublayer"]
     \/ txn' = [txn EXCEPT
                  !.step = IF txn.op = "engage" THEN "abort" ELSE "sublayer"]
  /\ UNCHANGED <<base, standing, ksCalls>>

(* InstallFilterSet: the first filter the platform refuses ends it, so     *)
(* that a part of the set stands in the transaction.  FWP_E_DUPLICATE_     *)
(* CONDITION for a DHCP filter passes as success.                          *)
InstallFilterSet ==
  /\ At("install")
  /\ \E done \in SUBSET FilterSet(txn.permits) :
       LET missing == FilterSet(txn.permits) \ done IN
       \/ /\ \A f \in missing : f.kind = "dhcp"
          /\ txn' = [txn EXCEPT !.db.filters = @ \cup done, !.step = "commit"]
       \/ /\ missing # {} /\ \A f \in missing, g \in done : ~Before(f, g)
          /\ txn' = [txn EXCEPT !.db.filters = @ \cup done, !.step = "abort"]
  /\ UNCHANGED <<base, standing, ksCalls>>

(* DisengageKillswitch: the platform refuses to delete what is in use.     *)
(* What is not there is fine; any other error aborts.                      *)
DeleteSublayer ==
  /\ At("sublayer")
  /\ txn' = IF txn.db.filters = {}
            THEN [txn EXCEPT !.db.sublayer = FALSE, !.step = "provider"]
            ELSE [txn EXCEPT !.step = "abort"]
  /\ UNCHANGED <<base, standing, ksCalls>>
DeleteProvider ==
  /\ At("provider")
  /\ txn' = [txn EXCEPT !.db.provider = FALSE, !.step = "commit"]
  /\ UNCHANGED <<base, standing, ksCalls>>
DeletionFails ==
  /\ At("sublayer") \/ At("provider")
  /\ txn' = [txn EXCEPT !.step = "abort"]
  /\ UNCHANGED <<base, standing, ksCalls>>

(* FwpmTransactionCommit0, which may fail and then changes nothing, ...    *)
Commit ==
  /\ At("commit")
  /\ base' = txn.db
  /\ standing' = IF txn.op = "engage"
                 THEN [engaged |-> TRUE, permits |-> txn.permits,
                       stale |-> UNION {f.apps : f \in txn.kept}]
                 ELSE Idle
  /\ txn' = NoTxn
  /\ UNCHANGED ksCalls

(* ... FwpmTransactionAbort0, and the end of the session in the middle:    *)
(* the process dies.                                                       *)
Abort ==
  /\ txn # NoTxn
  /\ txn' = NoTxn
  /\ UNCHANGED <<base, standing, ksCalls>>

KsNext ==
  \/ \E permits \in SUBSET Programs : Begin("engage", permits)
  \/ Begin("disengage", {})
  \/ EnsureProviderAndSublayer \/ ClearExistingFilters \/ InstallFilterSet
  \/ DeleteSublayer \/ DeleteProvider \/ DeletionFails \/ Commit \/ Abort

KsSpec == KsInit /\ [][KsNext]_ksVars

(* "Installs WFP filters that block all outbound IPv4/IPv6 traffic except" *)
(* loopback, DHCP and the executables given (entropy_vpn_killswitch.h:11): *)
(* from the commit of an engage on, and through every later call that      *)
(* fails, dies or engages again, all else is blocked in both layers, and   *)
(* what was asked for is permitted; programs of filters whose deletion the *)
(* platform refused stay permitted.  From the commit of a disengage on     *)
(* none of the objects is left.                                            *)
FiltersFollowCommits ==
  IF standing.engaged
  THEN /\ base.provider /\ base.sublayer
       /\ \A c \in Connections :
            /\ Permitted(base.filters, c) =>
                 \/ c.to \in {"loopback", "dhcp"}
                 \/ c.app \in standing.permits \cup standing.stale
            /\ \/ c.to = "loopback"
               \/ c.app \in standing.permits
               => Permitted(base.filters, c)
  ELSE base = Nothing
=============================================================================
