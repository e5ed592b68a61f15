----------------------------- MODULE TunRoutes ------------------------------
(***************************************************************************)
(* The routes the service prepares for a connection in TUN mode            *)
(* (windows/runner/entropy_vpn_service_tun.cpp, up to line 642, with the   *)
(* route table of windows_tun_channel/windows_tun_channel_routes.inc).     *)
(*                                                                         *)
(* PrepareDomainServerRouteNative keeps the way to the VPN server outside  *)
(* of the tunnel: a host route to every resolved address over the hardware *)
(* interface.  PrepareXrayTunIpv4RoutesNative waits for the adapter that   *)
(* xray makes and gives it an address, a metric, DNS servers and the two   *)
(* halves of the IPv4 space; the adapter may disappear and come back under *)
(* another index between any two of these steps, and its routes go with    *)
(* it.                                                                     *)
(*                                                                         *)
(* A route is [to, dev] (the next hop follows from the device).  Devices   *)
(* are numbered: 0 is the hardware interface, the incarnations of the      *)
(* adapter are 1 .. MaxAdapters, Other is one more interface.  Bounds:     *)
(* MaxAdapters, and Timeout, the timeoutMs of the call in ticks of the     *)
(* clock.                                                                  *)
(***************************************************************************)
EXTENDS Naturals, FiniteSets, Sequences

CONSTANTS MaxAdapters, Timeout, Addresses

ASSUME TunBoundsAssumption == MaxAdapters \in Nat \ {0} /\ Timeout \in Nat \ {0}

VARIABLES
  table,       \* the IPv4 route table
  adapters,    \* the incarnations of the adapter so far
  adapterUp,   \* the last of them exists
  clock,       \* ticks since the call began
  changed,     \* interface_change_waiter's event is set
  prep,        \* PrepareXrayTunIpv4RoutesNative
  domain       \* PrepareDomainServerRouteNative

tunVars == <<table, adapters, adapterUp, clock, changed, prep, domain>>

Hardware == 0
Other == MaxAdapters + 1
Halves == <<"0.0.0.0/1", "128.0.0.0/1">>
Route(to, dev) == [to |-> to, dev |-> dev]

(* An address is routed by itself (a /32), never by a half of the space.   *)
ASSUME AddressesAssumption == Addresses \cap {Halves[1], Halves[2]} = {}

Exists(dev) == dev \in {Hardware, Other} \/ (dev = adapters /\ adapterUp)

(* EnsureIpv4Route: what may become of the table and the status given.     *)
(* With an interface that is gone CreateIpForwardEntry2 fails in a way     *)
(* that is tried again ("retry"); it may also be refused ("fatal").  A     *)
(* route to the same place over another device is in its way: it is        *)
(* deleted, which may fail, and the new one is added, which may fail after *)
(* the old one is gone.                                                    *)
EnsureIpv4Route(tab, to, dev) ==
  LET route == Route(to, dev)
      conflicting == {r \in tab : r.to = to /\ r.dev # dev}
      Outcome(t, s) == [table |-> t, status |-> s] IN
  IF route \in tab THEN {Outcome(tab, "exists")}
  ELSE {Outcome(tab, "fatal")}
       \cup IF ~Exists(dev) THEN {Outcome(tab, "retry")}
            ELSE IF conflicting = {} THEN {Outcome(tab \cup {route}, "created")}
            ELSE {Outcome(tab \ conflicting, "fatal"),
                  Outcome((tab \ conflicting) \cup {route}, "replaced")}
Ensured == {"exists", "created", "replaced"}

TunInit ==
  /\ table \in SUBSET {Route(to, Other) : to \in Addresses \cup {Halves[1]}}
  /\ adapters = 0 /\ adapterUp = FALSE
  /\ clock = 0 /\ changed = FALSE
  /\ prep = [step |-> "idle", dev |-> 0, routes |-> <<>>]
  /\ domain = [step |-> "idle", left |-> <<>>, selected |-> "none",
               status |-> [a \in Addresses |-> "none"]]

-----------------------------------------------------------------------------
(* What happens around the calls.                                          *)

AdapterAppears ==
  /\ ~adapterUp /\ adapters < MaxAdapters
  /\ adapters' = adapters + 1 /\ adapterUp' = TRUE
  /\ changed' = TRUE
  /\ UNCHANGED <<table, clock, prep, domain>>

AdapterGoes ==
  /\ adapterUp
  /\ adapterUp' = FALSE /\ changed' = TRUE
  /\ table' = {r \in table : r.dev \in {Hardware, Other}}
  /\ UNCHANGED <<adapters, clock, prep, domain>>

Tick ==
  /\ prep.step \notin {"idle", "ok", "failed"} /\ clock <= Timeout
  /\ clock' = clock + 1
  /\ UNCHANGED <<table, adapters, adapterUp, changed, prep, domain>>

-----------------------------------------------------------------------------
(* PrepareXrayTunIpv4RoutesNative.  prep.step is the step about to be      *)
(* taken, prep.dev interface_index, prep.routes the list of the response.  *)

PrepareBegins ==
  /\ prep.step = "idle"
  /\ prep' = [prep EXCEPT !.step = "attempt"]
  /\ UNCHANGED <<table, adapters, adapterUp, clock, changed, domain>>

(* The head of the loop: the event is reset, the results of the attempt    *)
(* before are forgotten, and the time left is looked at.                   *)
(* Mutant: the routes of the attempt before stay in the list.              *)
BugBeginAttempt ==
  /\ prep.step = "attempt"
  /\ changed' = FALSE
  /\ prep' = [prep EXCEPT
                !.step = IF clock >= Timeout THEN "failed" ELSE "adapter"]
  /\ UNCHANGED <<table, adapters, adapterUp, clock, domain>>
BeginAttempt ==
  /\ prep.step = "attempt"
  /\ changed' = FALSE
  /\ prep' = [prep EXCEPT !.routes = <<>>,
                !.step = IF clock >= Timeout THEN "failed" ELSE "adapter"]
  /\ UNCHANGED <<table, adapters, adapterUp, clock, domain>>

(* The result of a step that failed: the end, if it is not worth another   *)
(* try or the time is up, the wait before the next attempt otherwise.      *)
Failed(result) ==
  [prep EXCEPT !.step = IF result = "fatal" \/ clock >= Timeout
                        THEN "failed" ELSE "wait"]

(* WaitForInterfaceAlias: polls until the adapter is there or the time     *)
(* that was left is over.                                                  *)
WaitForInterfaceAlias ==
  /\ prep.step = "adapter"
  /\ \/ adapterUp /\ prep' = [prep EXCEPT !.step = "address", !.dev = adapters]
     \/ ~adapterUp /\ clock >= Timeout /\ prep' = Failed("retry")
  /\ UNCHANGED <<table, adapters, adapterUp, clock, changed, domain>>

(* ConfigureAddress, ConfigureMetric and ConfigureDns.                     *)
Configure ==
  /\ prep.step \in {"address", "metric", "dns"}
  /\ \/ /\ Exists(prep.dev)
        /\ prep' = [prep EXCEPT
                      !.step = CASE prep.step = "address" -> "metric"
                                 [] prep.step = "metric" -> "dns"
                                 [] OTHER -> "route"]
     \/ \E result \in {"retry", "fatal"} : prep' = Failed(result)
  /\ UNCHANGED <<table, adapters, adapterUp, clock, changed, domain>>

(* The next half of the address space.                                     *)
AddHalf ==
  /\ prep.step = "route" /\ Len(prep.routes) < 2
  /\ LET half == Halves[Len(prep.routes) + 1] IN
     \E o \in EnsureIpv4Route(table, half, prep.dev) :
       /\ table' = o.table
       /\ prep' = IF o.status \in Ensured
                  THEN [prep EXCEPT !.routes = Append(@, Route(half, prep.dev))]
                  ELSE Failed(o.status)
  /\ UNCHANGED <<adapters, adapterUp, clock, changed, domain>>

RoutesReady ==
  /\ prep.step = "route" /\ Len(prep.routes) = 2
  /\ prep' = [prep EXCEPT !.step = "ok"]
  /\ UNCHANGED <<table, adapters, adapterUp, clock, changed, domain>>

(* RetryWaitForInterfaceChange: the event or a timer of one millisecond.   *)
(* Mutant: the event alone.                                                *)
BugRetryWait ==
  /\ prep.step = "wait" /\ changed
  /\ prep' = [prep EXCEPT !.step = "attempt"]
  /\ UNCHANGED <<table, adapters, adapterUp, clock, changed, domain>>
RetryWait ==
  /\ prep.step = "wait"
  /\ prep' = [prep EXCEPT !.step = "attempt"]
  /\ UNCHANGED <<table, adapters, adapterUp, clock, changed, domain>>

-----------------------------------------------------------------------------
(* PrepareIpv4ServerRouteNative and PrepareDomainServerRouteNative: the    *)
(* address given, or the addresses in the order of the resolver.  A bad    *)
(* argument, a name that does not resolve or a machine without a default   *)
(* route ends the call.  Each address gets a route; a failure is recorded  *)
(* and the next one is tried; the first that has a route is selected.      *)
ServerRouteFails ==
  /\ domain.step = "idle"
  /\ domain' = [domain EXCEPT !.step = "failed"]
  /\ UNCHANGED <<table, adapters, adapterUp, clock, changed, prep>>
PrepareIpv4ServerRoute(address) ==
  /\ domain.step = "idle"
  /\ domain' = [domain EXCEPT !.step = "routes", !.left = <<address>>]
  /\ UNCHANGED <<table, adapters, adapterUp, clock, changed, prep>>
PrepareDomainServerRoute(addresses) ==
  /\ domain.step = "idle"
  /\ domain' = [domain EXCEPT !.step = "routes", !.left = addresses]
  /\ UNCHANGED <<table, adapters, adapterUp, clock, changed, prep>>

EnsureServerRoute ==
  /\ domain.step = "routes" /\ domain.left # <<>>
  /\ \E o \in EnsureIpv4Route(table, Head(domain.left), Hardware) :
       /\ table' = o.table
       /\ domain' = [domain EXCEPT
            !.left = Tail(@),
            !.status = [@ EXCEPT ![Head(domain.left)] =
                          IF o.status \in Ensured THEN o.status ELSE "failed"],
            !.selected = IF @ = "none" /\ o.status \in Ensured
                         THEN Head(domain.left) ELSE @]
  /\ UNCHANGED <<adapters, adapterUp, clock, changed, prep>>

ServerRouteAnswers ==
  /\ domain.step = "routes" /\ domain.left = <<>>
  /\ domain' = [domain EXCEPT
                  !.step = IF domain.selected = "none" THEN "failed" ELSE "ok"]
  /\ UNCHANGED <<table, adapters, adapterUp, clock, changed, prep>>

Prepare == \/ BeginAttempt \/ WaitForInterfaceAlias \/ Configure \/ AddHalf
           \/ RoutesReady \/ RetryWait

TunNext ==
  \/ AdapterAppears \/ AdapterGoes \/ Tick \/ PrepareBegins
  \/ BeginAttempt \/ WaitForInterfaceAlias \/ Configure \/ AddHalf
  \/ RoutesReady \/ RetryWait
  \/ ServerRouteFails \/ EnsureServerRoute \/ ServerRouteAnswers
  \/ \E a \in Addresses : PrepareIpv4ServerRoute(a)
  \/ \E a, b \in Addresses : a # b /\ PrepareDomainServerRoute(<<a, b>>)

(* The thread that serves the request runs, and time passes.               *)
TunFairness == WF_tunVars(Prepare) /\ WF_tunVars(Tick)

(* What an answer says is so.  The two halves are on one and the same      *)
(* incarnation of the adapter, and in the table while it exists (Prepare-  *)
(* XrayTunIpv4RoutesNative: an attempt that finds the adapter replaced     *)
(* must not count the routes of the one before); every address reported    *)
(* with a route has it, the selected one among them (PrepareDomainServer-  *)
(* RouteNative: the app connects to that address, and without its route    *)
(* the connection to the server would go into the tunnel).                 *)
RoutesAsAnswered ==
  /\ prep.step = "ok" =>
       /\ \A i \in 1 .. 2 : prep.routes[i] = Route(Halves[i], prep.dev)
       /\ Exists(prep.dev) => {prep.routes[1], prep.routes[2]} \subseteq table
  /\ domain.step = "ok" =>
       /\ domain.status[domain.selected] \in Ensured
       /\ \A a \in Addresses :
            domain.status[a] \in Ensured => Route(a, Hardware) \in table

(* "timeoutMs" bounds the call: whatever the adapter does, it is answered  *)
(* (PrepareXrayTunIpv4RoutesNative, RetryWaitForInterfaceChange).          *)
PrepareAnswered == prep.step = "attempt" ~> prep.step \in {"ok", "failed"}
=============================================================================
