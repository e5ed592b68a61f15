-------------------------- MODULE ServiceNetworkProofs --------------------------
(***************************************************************************)
(* RoutesAsAnswered of TunRoutes, for any addresses, any number of         *)
(* incarnations of the adapter and any time limit; FiltersFollowCommits of *)
(* Killswitch, for every set of programs, every number of calls and        *)
(* whatever deletions the platform refuses.                                *)
(***************************************************************************)
EXTENDS TunRoutes, Killswitch, TLAPS

-----------------------------------------------------------------------------
(* The routes of the adapter (TunRoutes).                                  *)
Devices == 0 .. MaxAdapters + 1
RouteSet == [to : Addresses \cup {Halves[1], Halves[2]}, dev : Devices]
PrepSteps == {"idle", "attempt", "adapter", "address", "metric", "dns", "route",
              "wait", "ok", "failed"}

(* The state has its types.                                                *)
TableOK ==
  /\ table \subseteq RouteSet
  /\ adapters \in 0 .. MaxAdapters /\ adapterUp \in BOOLEAN
  /\ adapterUp => adapters # 0
PrepTyped ==
  prep \in [step : PrepSteps, dev : 0 .. MaxAdapters, routes : Seq(RouteSet)]
DomainTyped ==
  domain \in [step : {"idle", "routes", "ok", "failed"}, left : Seq(Addresses),
              selected : Addresses \cup {"none"},
              status : [Addresses -> Ensured \cup {"none", "failed"}]]

(* From its adapter on an attempt works on one incarnation, and the list   *)
(* holds the halves it has got through so far, in order.                   *)
OnAdapter == {"address", "metric", "dns", "route", "ok"}
Got(i) == i \in 1 .. Len(prep.routes)
PrepOK ==
  prep.step \in OnAdapter \cup {"adapter"} =>
    /\ prep.step \in OnAdapter => prep.dev \in 1 .. adapters
    /\ prep.step \notin {"route", "ok"} => prep.routes = <<>>
    /\ Len(prep.routes) <= 2
    /\ prep.step = "ok" => Len(prep.routes) = 2
    /\ \A i \in 1 .. 2 : Got(i) =>
         /\ prep.routes[i] = Route(Halves[i], prep.dev)
         /\ Exists(prep.dev) => prep.routes[i] \in table

(* What was reported with a route has it, what is selected was.            *)
DomainOK ==
  /\ \A a \in Addresses : domain.status[a] \in Ensured => Route(a, Hardware) \in table
  /\ domain.selected # "none" =>
       domain.selected \in Addresses /\ domain.status[domain.selected] \in Ensured
  /\ domain.step = "ok" => domain.selected # "none"

TunInv == TableOK /\ PrepTyped /\ DomainTyped /\ PrepOK /\ DomainOK

-----------------------------------------------------------------------------
(* EnsureIpv4Route: an answer that is not a failure puts the route into    *)
(* the table, only routes to the same place over other devices are taken   *)
(* out, and no other route is put in.                                      *)
LEMMA EnsureOutcome ==
  ASSUME NEW tab, NEW to, NEW dev, NEW o \in EnsureIpv4Route(tab, to, dev)
  PROVE  /\ o.status \in Ensured \cup {"fatal", "retry"}
         /\ o.status \in Ensured => Route(to, dev) \in o.table
         /\ \A r \in tab : r.to # to \/ r.dev = dev => r \in o.table
         /\ \A r \in o.table : r \in tab \/ r = Route(to, dev)
<1>1. CASE Route(to, dev) \in tab
  BY <1>1 DEF EnsureIpv4Route, Ensured
<1>2. CASE Route(to, dev) \notin tab
  <2>1. \/ o = [table |-> tab, status |-> "fatal"]
        \/ o = [table |-> tab, status |-> "retry"]
        \/ o = [table |-> tab \cup {Route(to, dev)}, status |-> "created"]
        \/ o = [table |-> tab \ {r \in tab : r.to = to /\ r.dev # dev}, status |-> "fatal"]
        \/ o = [table |-> (tab \ {r \in tab : r.to = to /\ r.dev # dev})
                            \cup {Route(to, dev)}, status |-> "replaced"]
    BY <1>2 DEF EnsureIpv4Route
  <2> QED BY <2>1 DEF Ensured
<1> QED BY <1>1, <1>2

(* Ensuring a route over a device keeps the table typed.                   *)
LEMMA RouteTyped ==
  ASSUME NEW to \in Addresses \cup {Halves[1], Halves[2]}, NEW dev \in Devices
  PROVE  Route(to, dev) \in RouteSet
BY DEF Route, RouteSet

LEMMA TunInvInit == TunInit => TunInv
<1> SUFFICES ASSUME TunInit PROVE TunInv OBVIOUS
<1> USE TunBoundsAssumption
<1>1. TableOK
  <2>1. Other \in Devices BY DEF Other, Devices
  <2>2. \A to \in Addresses \cup {Halves[1]} : Route(to, Other) \in RouteSet
    BY <2>1, RouteTyped
  <2>3. table \subseteq {Route(to, Other) : to \in Addresses \cup {Halves[1]}}
    BY DEF TunInit
  <2>4. table \subseteq RouteSet BY <2>2, <2>3
  <2>5. 0 \in 0 .. MaxAdapters OBVIOUS
  <2> QED BY <2>4, <2>5 DEF TunInit, TableOK
<1>2. PrepTyped BY DEF TunInit, PrepTyped, PrepSteps
<1>3. DomainTyped BY DEF TunInit, DomainTyped, Ensured
<1>4. PrepOK BY DEF TunInit, PrepOK, OnAdapter
<1>5. DomainOK BY DEF TunInit, DomainOK, Ensured
<1> QED BY <1>1, <1>2, <1>3, <1>4, <1>5 DEF TunInv

(* The steps that touch neither the table nor the call about the server.   *)
LEMMA PrepareStep ==
  ASSUME TunInv,
         \/ PrepareBegins \/ BeginAttempt \/ WaitForInterfaceAlias \/ Configure
         \/ RoutesReady \/ RetryWait
  PROVE  TunInv'
<1> USE TunBoundsAssumption DEF TunInv
<1>0. UNCHANGED <<table, adapters, adapterUp, domain>>
  BY DEF PrepareBegins, BeginAttempt, WaitForInterfaceAlias, Configure, RoutesReady,
         RetryWait
<1>1. TableOK' BY <1>0 DEF TableOK
<1>2. DomainTyped' /\ DomainOK' BY <1>0 DEF DomainTyped, DomainOK
<1>3. PrepTyped' /\ PrepOK'
  <2> USE DEF PrepTyped, PrepSteps, PrepOK, OnAdapter, Got, Exists
  <2>0. Len(<<>>) = 0 /\ <<>> \in Seq(RouteSet) OBVIOUS
  <2>1. CASE PrepareBegins \/ RetryWait BY <2>1, <1>0 DEF PrepareBegins, RetryWait
  <2>2. CASE BeginAttempt
    <3>1. /\ prep' = [step |-> prep'.step, dev |-> prep.dev, routes |-> <<>>]
          /\ prep'.step \in {"failed", "adapter"}
      BY <2>2 DEF BeginAttempt
    <3>2. prep.dev \in 0 .. MaxAdapters OBVIOUS
    <3>3. PrepTyped'
      <4>1. prep'.step \in PrepSteps BY <3>1
      <4>2. PICK st \in PrepSteps : prep' = [step |-> st, dev |-> prep.dev, routes |-> <<>>]
        BY <3>1, <4>1
      <4> HIDE DEF PrepSteps, PrepOK, TunInv
      <4> QED BY <4>2, <3>2, <2>0
    <3>4. prep'.routes = <<>> /\ prep'.step \notin OnAdapter BY <3>1
    <3>5. PrepOK' BY <3>4, <2>0
    <3> QED BY <3>3, <3>5
  <2>3. CASE WaitForInterfaceAlias
    <3>1. \/ /\ prep' = [step |-> "address", dev |-> adapters, routes |-> prep.routes]
             /\ adapterUp
          \/ /\ prep' = [step |-> prep'.step, dev |-> prep.dev, routes |-> prep.routes]
             /\ prep'.step \in {"failed", "wait"}
      BY <2>3 DEF WaitForInterfaceAlias, Failed
    <3>2. prep.routes = <<>> BY <2>3 DEF WaitForInterfaceAlias
    <3> QED BY <3>1, <3>2, <2>0, <1>0 DEF TableOK
  <2>4. CASE Configure BY <2>4, <1>0 DEF Configure, Failed
  <2>5. CASE RoutesReady
    <3>1. /\ prep' = [step |-> "ok", dev |-> prep.dev, routes |-> prep.routes]
          /\ prep.step = "route" /\ Len(prep.routes) = 2
      BY <2>5 DEF RoutesReady
    <3> QED BY <3>1, <1>0
  <2> QED BY <2>1, <2>2, <2>3, <2>4, <2>5
<1> QED BY <1>1, <1>2, <1>3

(* The adapter goes with its routes, and comes back under another index.   *)
LEMMA AdapterStep ==
  ASSUME TunInv, AdapterAppears \/ AdapterGoes PROVE TunInv'
<1> USE TunBoundsAssumption DEF TunInv
<1>0. UNCHANGED <<prep, domain>> BY DEF AdapterAppears, AdapterGoes
<1>1. TableOK'
  <2>1. adapters \in 0 .. MaxAdapters /\ adapterUp \in BOOLEAN /\ table \subseteq RouteSet
    BY DEF TableOK
  <2>2. CASE AdapterAppears BY <2>1, <2>2 DEF AdapterAppears, TableOK
  <2>3. CASE AdapterGoes BY <2>1, <2>3 DEF AdapterGoes, TableOK
  <2> QED BY <2>2, <2>3
<1>2. PrepTyped' /\ DomainTyped' BY <1>0 DEF PrepTyped, DomainTyped
<1>3. DomainOK'
  <2>1. \A a \in Addresses : Route(a, Hardware) \in table => Route(a, Hardware) \in table'
    BY DEF AdapterAppears, AdapterGoes, Route, Hardware
  <2> QED BY <1>0, <2>1 DEF DomainOK
<1>4. PrepOK'
  <2>1. adapters' >= adapters /\ adapters' \in Nat
    BY DEF AdapterAppears, AdapterGoes, TableOK
  <2>2. prep.step \in OnAdapter => ~Exists(prep.dev)'
    BY <1>0 DEF AdapterAppears, AdapterGoes, Exists, Hardware, Other, PrepOK, TableOK
  <2>3. prep.step = "adapter" => prep.routes = <<>> BY DEF PrepOK, OnAdapter
  <2> QED BY <1>0, <2>1, <2>2, <2>3 DEF PrepOK, PrepTyped, TableOK, Got, OnAdapter
<1> QED BY <1>1, <1>2, <1>3, <1>4

(* Fewer than two is none or one.                                          *)
LEMMA BelowTwo == \A k \in Nat : k < 2 => k = 0 \/ k = 1
OBVIOUS

(* The half that is added is the next of the list, and takes out neither   *)
(* the other half nor the way to the server.                               *)
LEMMA AddHalfStep ==
  ASSUME TunInv, AddHalf PROVE TunInv'
<1> USE TunBoundsAssumption DEF TunInv
<1> DEFINE n == Len(prep.routes)
           half == Halves[n + 1]
<1>0. /\ UNCHANGED <<adapters, adapterUp, domain>> /\ prep.step = "route"
      /\ n = 0 \/ n = 1
  <2>1. prep.routes \in Seq(RouteSet) BY DEF PrepTyped
  <2>2. n \in Nat BY <2>1
  <2>3. n < 2 BY DEF AddHalf
  <2> QED BY <2>2, <2>3, BelowTwo DEF AddHalf
<1>1. PICK o \in EnsureIpv4Route(table, half, prep.dev) :
        /\ table' = o.table
        /\ prep' = IF o.status \in Ensured
                   THEN [prep EXCEPT !.routes = Append(@, Route(half, prep.dev))]
                   ELSE Failed(o.status)
  BY DEF AddHalf
<1> HIDE DEF n
<1>2. half \in {Halves[1], Halves[2]} /\ half \notin Addresses
  <2>1. n + 1 = 1 \/ n + 1 = 2 BY <1>0
  <2>2. Halves[n + 1] \in {Halves[1], Halves[2]} BY <2>1
  <2> QED BY <2>2, AddressesAssumption
<1>3. prep.dev \in 1 .. adapters /\ prep.dev \in Devices
  BY <1>0 DEF PrepOK, OnAdapter, TableOK, Devices
<1>4. Route(half, prep.dev) \in RouteSet BY <1>2, <1>3, RouteTyped
<1>5. /\ o.status \in Ensured => Route(half, prep.dev) \in table'
      /\ \A r \in table : r.to # half \/ r.dev = prep.dev => r \in table'
      /\ table' \subseteq table \cup {Route(half, prep.dev)}
  BY <1>1, EnsureOutcome
<1>6. TableOK' BY <1>0, <1>4, <1>5 DEF TableOK
<1>7. DomainTyped' BY <1>0 DEF DomainTyped
<1>8. DomainOK'
  <2>1. \A a \in Addresses : Route(a, Hardware).to = a BY DEF Route
  <2> QED BY <1>0, <1>2, <1>5, <2>1 DEF DomainOK
<1>9. CASE o.status \in Ensured
  <2>1. prep' = [prep EXCEPT !.routes = Append(@, Route(half, prep.dev))] BY <1>1, <1>9
  <2>2. PrepTyped' BY <2>1, <1>4 DEF PrepTyped
  <2>3. /\ prep'.step = "route" /\ prep'.dev = prep.dev /\ Len(prep'.routes) = n + 1
        /\ prep'.routes[n + 1] = Route(half, prep.dev)
        /\ \A i \in 1 .. n : prep'.routes[i] = prep.routes[i]
    BY <2>1, <1>0, <1>4 DEF PrepTyped, n
  <2>4. \A i \in 1 .. n : prep.routes[i] = Route(Halves[i], prep.dev)
                          /\ (Exists(prep.dev) => prep.routes[i] \in table)
    BY <1>0 DEF PrepOK, Got, OnAdapter, n
  <2>5. Exists(prep.dev)' = Exists(prep.dev) BY <1>0, <2>3 DEF Exists
  <2>6. \A i \in 1 .. n : Route(Halves[i], prep.dev).dev = prep.dev BY DEF Route
  <2>7. PrepOK'
    <3>1. ASSUME NEW i \in 1 .. n + 1
          PROVE  /\ prep'.routes[i] = Route(Halves[i], prep'.dev)
                 /\ Exists(prep.dev)' => prep'.routes[i] \in table'
      <4>1. CASE i = n + 1 BY <4>1, <1>5, <1>9, <2>3
      <4>2. CASE i # n + 1
        <5>1. i \in 1 .. n BY <1>0, <4>2
        <5> QED BY <5>1, <1>5, <2>3, <2>4, <2>5, <2>6
      <4> QED BY <4>1, <4>2
    <3>2. n + 1 = 1 \/ n + 1 = 2 BY <1>0
    <3> QED BY <1>0, <1>3, <2>3, <3>1, <3>2 DEF PrepOK, Got, OnAdapter
  <2> QED BY <1>6, <1>7, <1>8, <2>2, <2>7
<1>10. CASE o.status \notin Ensured
  BY <1>1, <1>6, <1>7, <1>8, <1>10 DEF Failed, PrepTyped, PrepSteps, PrepOK, OnAdapter
<1> QED BY <1>9, <1>10

(* A route to an address of the server takes no half out, and the routes   *)
(* that were reported stay.                                                *)
LEMMA EnsureServerRouteStep ==
  ASSUME TunInv, EnsureServerRoute PROVE TunInv'
<1> USE TunBoundsAssumption DEF TunInv
<1> DEFINE a == Head(domain.left)
<1>0. UNCHANGED <<adapters, adapterUp, prep>> /\ domain.step = "routes"
  BY DEF EnsureServerRoute
<1>1. PICK o \in EnsureIpv4Route(table, a, Hardware) :
        /\ table' = o.table
        /\ domain' = [domain EXCEPT
             !.left = Tail(@),
             !.status = [@ EXCEPT ![Head(domain.left)] =
                           IF o.status \in Ensured THEN o.status ELSE "failed"],
             !.selected = IF @ = "none" /\ o.status \in Ensured
                          THEN Head(domain.left) ELSE @]
  BY DEF EnsureServerRoute
<1>2. a \in Addresses /\ Tail(domain.left) \in Seq(Addresses)
  BY DEF EnsureServerRoute, DomainTyped
<1>3. Hardware \in Devices BY DEF Hardware, Devices
<1>4. Route(a, Hardware) \in RouteSet BY <1>2, <1>3, RouteTyped
<1>5. /\ o.status \in Ensured => Route(a, Hardware) \in table'
      /\ \A r \in table : r.to # a \/ r.dev = Hardware => r \in table'
      /\ table' \subseteq table \cup {Route(a, Hardware)}
      /\ Route(a, Hardware) \in table => o.status \in Ensured
  BY <1>1, EnsureOutcome DEF EnsureIpv4Route, Ensured
<1>6. TableOK' BY <1>0, <1>4, <1>5 DEF TableOK
<1>7. PrepTyped' BY <1>0 DEF PrepTyped
<1>8. PrepOK'
  <2>1. a # Halves[1] /\ a # Halves[2] BY <1>2, AddressesAssumption
  <2>2. \A i \in 1 .. 2 : Route(Halves[i], prep.dev).to = Halves[i] BY DEF Route
  <2>3. Exists(prep.dev)' = Exists(prep.dev) BY <1>0 DEF Exists
  <2> QED BY <1>0, <1>5, <2>1, <2>2, <2>3 DEF PrepOK, Got
<1>9. /\ domain'.step = domain.step /\ domain'.left = Tail(domain.left)
      /\ domain'.status = [domain.status EXCEPT ![a] =
                             IF o.status \in Ensured THEN o.status ELSE "failed"]
      /\ domain'.selected = IF domain.selected = "none" /\ o.status \in Ensured
                            THEN a ELSE domain.selected
      /\ domain' = [step |-> domain'.step, left |-> domain'.left,
                    selected |-> domain'.selected, status |-> domain'.status]
  BY <1>1 DEF DomainTyped
<1>10. DomainTyped'
  <2>1. domain.status \in [Addresses -> Ensured \cup {"none", "failed"}]
    BY DEF DomainTyped
  <2>2. domain'.status \in [Addresses -> Ensured \cup {"none", "failed"}]
    BY <1>9, <2>1
  <2>3. domain'.selected \in Addresses \cup {"none"} BY <1>2, <1>9 DEF DomainTyped
  <2> QED BY <1>0, <1>2, <1>9, <2>2, <2>3 DEF DomainTyped
<1>11. DomainOK'
  <2>0. domain.status \in [Addresses -> Ensured \cup {"none", "failed"}]
    BY DEF DomainTyped
  <2>1. "failed" \notin Ensured BY DEF Ensured
  <2>2. \A b \in Addresses : domain'.status[b] \in Ensured =>
          Route(b, Hardware) \in table'
    <3> SUFFICES ASSUME NEW b \in Addresses, domain'.status[b] \in Ensured
                 PROVE  Route(b, Hardware) \in table'
      OBVIOUS
    <3>1. CASE b = a BY <3>1, <1>2, <1>5, <1>9, <2>0, <2>1
    <3>2. CASE b # a
      <4>1. Route(b, Hardware).dev = Hardware BY DEF Route
      <4>2. Route(b, Hardware) \in table BY <3>2, <1>9, <2>0 DEF DomainOK
      <4> QED BY <4>1, <4>2, <1>5
    <3> QED BY <3>1, <3>2
  <2>3. domain'.selected # "none" =>
          domain'.selected \in Addresses /\ domain'.status[domain'.selected] \in Ensured
    <3>1. CASE domain.selected = "none" BY <3>1, <1>2, <1>9, <2>0
    <3>2. CASE domain.selected # "none"
      <4>1. /\ domain'.selected = domain.selected /\ domain.selected \in Addresses
            /\ domain.status[domain.selected] \in Ensured
        BY <3>2, <1>9 DEF DomainOK
      <4>2. domain.selected = a => o.status \in Ensured BY <4>1, <1>5 DEF DomainOK
      <4> QED BY <4>1, <4>2, <1>2, <1>9, <2>0
    <3> QED BY <3>1, <3>2
  <2> QED BY <1>0, <1>9, <2>2, <2>3 DEF DomainOK
<1> QED BY <1>6, <1>7, <1>8, <1>10, <1>11

(* The other steps of the call about the server.                           *)
LEMMA ServerStep ==
  ASSUME TunInv,
         \/ ServerRouteFails \/ ServerRouteAnswers
         \/ \E a \in Addresses : PrepareIpv4ServerRoute(a)
         \/ \E a, b \in Addresses : a # b /\ PrepareDomainServerRoute(<<a, b>>)
  PROVE  TunInv'
<1> USE DEF TunInv
<1>0. UNCHANGED <<table, adapters, adapterUp, prep>>
  BY DEF ServerRouteFails, ServerRouteAnswers, PrepareIpv4ServerRoute,
         PrepareDomainServerRoute
<1>1. TableOK' /\ PrepTyped' /\ PrepOK'
  BY <1>0 DEF TableOK, PrepTyped, PrepOK, Got, Exists
<1>2. DomainTyped'
  <2>1. \A a \in Addresses : <<a>> \in Seq(Addresses) OBVIOUS
  <2>2. \A a, b \in Addresses : <<a, b>> \in Seq(Addresses) OBVIOUS
  <2>3. CASE ServerRouteFails \/ ServerRouteAnswers
    BY <2>3 DEF DomainTyped, ServerRouteFails, ServerRouteAnswers
  <2>4. ASSUME NEW a \in Addresses, PrepareIpv4ServerRoute(a) PROVE DomainTyped'
    BY <2>1, <2>4 DEF DomainTyped, PrepareIpv4ServerRoute
  <2>5. ASSUME NEW a \in Addresses, NEW b \in Addresses,
               PrepareDomainServerRoute(<<a, b>>)
        PROVE  DomainTyped'
    BY <2>2, <2>5 DEF DomainTyped, PrepareDomainServerRoute
  <2> QED BY <2>3, <2>4, <2>5
<1>3. DomainOK'
  BY <1>0 DEF DomainOK, DomainTyped, ServerRouteFails, ServerRouteAnswers,
         PrepareIpv4ServerRoute, PrepareDomainServerRoute
<1> QED BY <1>1, <1>2, <1>3

LEMMA TunInvStep == TunInv /\ [TunNext]_tunVars => TunInv'
<1> SUFFICES ASSUME TunInv, [TunNext]_tunVars PROVE TunInv' OBVIOUS
<1>1. CASE UNCHANGED tunVars \/ Tick
  BY <1>1 DEF tunVars, Tick, TunInv, TableOK, PrepTyped, DomainTyped, PrepOK, DomainOK,
              Got, Exists
<1>2. CASE AdapterAppears \/ AdapterGoes BY <1>2, AdapterStep
<1>3. CASE \/ PrepareBegins \/ BeginAttempt \/ WaitForInterfaceAlias \/ Configure
           \/ RoutesReady \/ RetryWait
  BY <1>3, PrepareStep
<1>4. CASE AddHalf BY <1>4, AddHalfStep
<1>5. CASE EnsureServerRoute BY <1>5, EnsureServerRouteStep
<1>6. CASE \/ ServerRouteFails \/ ServerRouteAnswers
           \/ \E a \in Addresses : PrepareIpv4ServerRoute(a)
           \/ \E a, b \in Addresses : a # b /\ PrepareDomainServerRoute(<<a, b>>)
  BY <1>6, ServerStep
<1> QED BY <1>1, <1>2, <1>3, <1>4, <1>5, <1>6 DEF TunNext

LEMMA TunInvImplies == TunInv => RoutesAsAnswered
<1> SUFFICES ASSUME TunInv PROVE RoutesAsAnswered OBVIOUS
<1>1. ASSUME prep.step = "ok"
      PROVE  /\ \A i \in 1 .. 2 : prep.routes[i] = Route(Halves[i], prep.dev)
             /\ Exists(prep.dev) => {prep.routes[1], prep.routes[2]} \subseteq table
  BY <1>1 DEF TunInv, PrepOK, Got, OnAdapter
<1>2. ASSUME domain.step = "ok"
      PROVE  /\ domain.status[domain.selected] \in Ensured
             /\ \A a \in Addresses :
                  domain.status[a] \in Ensured => Route(a, Hardware) \in table
  BY <1>2 DEF TunInv, DomainOK
<1> QED BY <1>1, <1>2 DEF RoutesAsAnswered

(* The routes of a connection are as answered: whenever the adapter goes   *)
(* and comes back and whichever route is refused, the two halves of an     *)
(* answer are on one incarnation of it and in the table while it exists,   *)
(* and every address reported with a route, the selected one among them,   *)
(* keeps it (PrepareXrayTunIpv4RoutesNative and                            *)
(* PrepareDomainServerRouteNative of entropy_vpn_service_tun.cpp).         *)
THEOREM AnswersAreTrue == TunInit /\ [][TunNext]_tunVars => []RoutesAsAnswered
BY TunInvInit, TunInvStep, TunInvImplies, PTL

-----------------------------------------------------------------------------
(* The filters of the killswitch (Killswitch).                             *)
Database == [provider : BOOLEAN, sublayer : BOOLEAN, filters : SUBSET Filters]
TxnSteps == {"ensure", "clear", "install", "sublayer", "provider", "commit", "abort"}
Transactions ==
  [op : {"engage", "disengage"}, permits : SUBSET Programs, step : TxnSteps,
   db : Database, kept : SUBSET Filters]

KsTypeOK ==
  /\ base \in Database
  /\ txn = NoTxn \/ txn \in Transactions
  /\ standing \in [engaged : BOOLEAN, permits : SUBSET Programs, stale : SUBSET Programs]

(* What a database holds that an engage may commit: the whole set but for  *)
(* the DHCP filters, and nothing else but what could not be deleted.       *)
Complete(fs, permits, kept) ==
  /\ \A f \in FilterSet(permits) : f.kind # "dhcp" => f \in fs
  /\ \A f \in fs : f \in FilterSet(permits) \/ f \in kept

(* Where a transaction is, given its step.                                 *)
TxnOK ==
  txn # NoTxn =>
    /\ txn.step \in {"ensure", "install"} => txn.op = "engage"
    /\ txn.step \in {"sublayer", "provider"} => txn.op = "disengage"
    /\ txn.op = "engage" /\ txn.step \in {"clear", "install", "commit"} =>
         txn.db.provider = TRUE /\ txn.db.sublayer = TRUE
    /\ txn.step = "install" => txn.db.filters = txn.kept
    /\ txn.op = "engage" /\ txn.step = "commit" =>
         Complete(txn.db.filters, txn.permits, txn.kept)
    /\ txn.step = "provider" => txn.db.filters = {} /\ txn.db.sublayer = FALSE
    /\ txn.op = "disengage" /\ txn.step = "commit" => txn.db = Nothing

KsInv == KsTypeOK /\ TxnOK /\ FiltersFollowCommits

-----------------------------------------------------------------------------
(* The filters of a set are filters.                                       *)
LEMMA FilterSetTyped ==
  ASSUME NEW permits \in SUBSET Programs
  PROVE  FilterSet(permits) \in SUBSET Filters
BY DEF FilterSet, Filters, Filter, Layers, Kinds, AddLoopbackPermit, AddDhcpPermit,
       AddAppPermit, AddBlockAll

(* In each layer of the set there are the filter that permits loopback,    *)
(* the one that blocks, and one for each program.                          *)
LEMMA FilterSetHas ==
  ASSUME NEW permits, NEW layer \in Layers
  PROVE  /\ Filter(layer, "loopback", {}) \in FilterSet(permits)
         /\ Filter(layer, "block", {}) \in FilterSet(permits)
         /\ \A app \in permits : Filter(layer, "app", {app}) \in FilterSet(permits)
<1> DEFINE of(l) == {AddLoopbackPermit(l), AddDhcpPermit(l), AddBlockAll(l)}
                     \cup {AddAppPermit(l, app) : app \in permits}
<1>1. of(layer) \subseteq FilterSet(permits)
  BY DEF FilterSet
<1>2. /\ Filter(layer, "loopback", {}) \in of(layer)
      /\ Filter(layer, "block", {}) \in of(layer)
  BY DEF AddLoopbackPermit, AddBlockAll
<1>3. \A app \in permits : Filter(layer, "app", {app}) \in of(layer)
  BY DEF AddAppPermit
<1> QED
  BY <1>1, <1>2, <1>3

(* A filter of the set for programs is for one that is permitted.          *)
LEMMA FilterSetApps ==
  ASSUME NEW permits, NEW f \in FilterSet(permits), f.kind = "app", NEW app \in f.apps
  PROVE  app \in permits
BY DEF FilterSet, Filter, AddLoopbackPermit, AddDhcpPermit, AddAppPermit, AddBlockAll

(* The order of the weights.                                               *)
LEMMA Weights ==
  /\ Weight["loopback"] = 15 /\ Weight["dhcp"] = 14
  /\ Weight["app"] = 13 /\ Weight["block"] = 1
BY DEF Weight

(* A complete set blocks what goes to the net, but for the programs that   *)
(* are permitted or were kept ...                                          *)
LEMMA CompleteBlocks ==
  ASSUME NEW permits \in SUBSET Programs, NEW kept \in SUBSET Filters,
         NEW fs \in SUBSET Filters, Complete(fs, permits, kept),
         NEW c \in Connections, Permitted(fs, c)
  PROVE  \/ c.to \in {"loopback", "dhcp"}
         \/ c.app \in permits \cup UNION {f.apps : f \in kept}
<1>1. SUFFICES ASSUME c.to = "net"
               PROVE  c.app \in permits \cup UNION {f.apps : f \in kept}
  BY DEF Connections
<1>2. c.layer \in Layers
  BY DEF Connections
<1> DEFINE blocks == Filter(c.layer, "block", {})
<1>3. blocks \in fs /\ Matches(blocks, c)
  <2>1. blocks \in FilterSet(permits)
    BY <1>2, FilterSetHas
  <2>2. blocks.kind = "block" /\ blocks.layer = c.layer
    BY DEF Filter
  <2> QED
    BY <2>1, <2>2 DEF Complete, Matches
<1>4. PICK f \in fs : Matches(f, c) /\ f.kind # "block"
  BY <1>3 DEF Permitted
<1>5. f.kind = "app" /\ c.app \in f.apps
  BY <1>1, <1>4 DEF Matches, Filters, Kinds
<1>6. CASE f \in FilterSet(permits)
  BY <1>5, <1>6, FilterSetApps
<1>7. CASE f \in kept
  BY <1>5, <1>7
<1> QED
  BY <1>6, <1>7 DEF Complete

(* ... and permits loopback and the programs it was made for.              *)
LEMMA CompletePermits ==
  ASSUME NEW permits \in SUBSET Programs, NEW kept \in SUBSET Filters,
         NEW fs \in SUBSET Filters, Complete(fs, permits, kept),
         NEW c \in Connections, c.to = "loopback" \/ c.app \in permits
  PROVE  Permitted(fs, c)
<1>1. c.layer \in Layers
  BY DEF Connections
<1>2. \A g \in fs : g.kind \in Kinds
  BY DEF Filters
<1>3. CASE c.to = "loopback"
  <2> DEFINE loop == Filter(c.layer, "loopback", {})
  <2>1. loop.kind = "loopback" /\ loop.layer = c.layer
    BY DEF Filter
  <2>2. loop \in fs
    BY <1>1, <2>1, FilterSetHas DEF Complete
  <2>3. Matches(loop, c)
    BY <1>3, <2>1 DEF Matches
  <2>4. \A g \in fs : Weight[g.kind] <= Weight[loop.kind]
    BY <1>2, <2>1, Weights DEF Kinds
  <2> QED
    BY <2>1, <2>2, <2>3, <2>4 DEF Permitted
<1>4. CASE c.to # "loopback" /\ c.app \in permits
  <2> DEFINE own == Filter(c.layer, "app", {c.app})
  <2>1. own.kind = "app" /\ own.layer = c.layer /\ own.apps = {c.app}
    BY DEF Filter
  <2>2. own \in fs
    BY <1>1, <1>4, <2>1, FilterSetHas DEF Complete
  <2>3. Matches(own, c)
    BY <2>1 DEF Matches
  <2>4. \A g \in fs : Matches(g, c) => g.kind # "loopback"
    BY <1>4 DEF Matches
  <2>5. CASE \E g \in fs : Matches(g, c) /\ g.kind = "dhcp"
    <3>1. PICK d \in fs : Matches(d, c) /\ d.kind = "dhcp"
      BY <2>5
    <3>2. \A g \in fs : Matches(g, c) => Weight[g.kind] <= Weight[d.kind]
      BY <1>2, <2>4, <3>1, Weights DEF Kinds
    <3> QED
      BY <3>1, <3>2 DEF Permitted
  <2>6. CASE ~ \E g \in fs : Matches(g, c) /\ g.kind = "dhcp"
    <3>1. \A g \in fs : Matches(g, c) => Weight[g.kind] <= Weight[own.kind]
      BY <1>2, <2>1, <2>4, <2>6, Weights DEF Kinds
    <3> QED
      BY <2>1, <2>2, <2>3, <3>1 DEF Permitted
  <2> QED
    BY <2>5, <2>6
<1> QED
  BY <1>3, <1>4

(* What InstallFilterSet and ClearExistingFilters make of a transaction.   *)
Refiltered(t, fs, step) == [t EXCEPT !.db.filters = fs, !.step = step]
Cleared(t, fs, step) == [t EXCEPT !.db.filters = fs, !.kept = fs, !.step = step]

(* A transaction with other filters and at another step is a transaction   *)
(* that is the same in all else;                                           *)
LEMMA WithFilters ==
  ASSUME NEW t \in Transactions, NEW fs \in SUBSET Filters, NEW step \in TxnSteps,
         NEW u, u = Refiltered(t, fs, step)
  PROVE  /\ u \in Transactions
         /\ u.op = t.op /\ u.permits = t.permits /\ u.kept = t.kept /\ u.step = step
         /\ u.db.filters = fs
         /\ u.db.provider = t.db.provider /\ u.db.sublayer = t.db.sublayer
<1>1. u.op = t.op /\ u.permits = t.permits /\ u.kept = t.kept /\ u.step = step
  BY DEF Transactions, Refiltered
<1>2. u.db = [t.db EXCEPT !.filters = fs]
  BY DEF Transactions, Refiltered
<1>3. t.db \in Database
  BY DEF Transactions
<1>4. u.db \in Database /\ u.db.filters = fs
      /\ u.db.provider = t.db.provider /\ u.db.sublayer = t.db.sublayer
  BY <1>2, <1>3 DEF Database
<1>5. u = [t EXCEPT !.db = u.db, !.step = step]
  BY <1>2 DEF Transactions, Refiltered
<1>6. u \in Transactions
  BY <1>4, <1>5 DEF Transactions
<1> QED
  BY <1>1, <1>4, <1>6

(* so it is when it notes these filters as what could not be deleted,      *)
LEMMA WithKept ==
  ASSUME NEW t \in Transactions, NEW fs \in SUBSET Filters, NEW step \in TxnSteps,
         NEW u, u = Cleared(t, fs, step)
  PROVE  /\ u \in Transactions
         /\ u.op = t.op /\ u.permits = t.permits /\ u.kept = fs /\ u.step = step
         /\ u.db.filters = fs
         /\ u.db.provider = t.db.provider /\ u.db.sublayer = t.db.sublayer
<1>1. u.op = t.op /\ u.permits = t.permits /\ u.kept = fs /\ u.step = step
  BY DEF Transactions, Cleared
<1>2. u.db = [t.db EXCEPT !.filters = fs]
  BY DEF Transactions, Cleared
<1>3. t.db \in Database
  BY DEF Transactions
<1>4. u.db \in Database /\ u.db.filters = fs
      /\ u.db.provider = t.db.provider /\ u.db.sublayer = t.db.sublayer
  BY <1>2, <1>3 DEF Database
<1>5. u = [t EXCEPT !.db = u.db, !.kept = fs, !.step = step]
  BY <1>2 DEF Transactions, Cleared
<1>6. u \in Transactions
  BY <1>4, <1>5 DEF Transactions
<1> QED
  BY <1>1, <1>4, <1>6

(* with the provider,                                                      *)
LEMMA WithProvider ==
  ASSUME NEW t \in Transactions, NEW step \in TxnSteps,
         NEW u, u = [t EXCEPT !.db.provider = TRUE, !.step = step]
  PROVE  u \in Transactions /\ u.op = t.op /\ u.step = step
<1>1. u.op = t.op /\ u.step = step
  BY DEF Transactions
<1>2. u.db = [t.db EXCEPT !.provider = TRUE]
  BY DEF Transactions
<1>3. t.db \in Database
  BY DEF Transactions
<1>4. u.db \in Database
  BY <1>2, <1>3 DEF Database
<1>5. u = [t EXCEPT !.db = u.db, !.step = step]
  BY <1>2 DEF Transactions
<1>6. u \in Transactions
  BY <1>4, <1>5 DEF Transactions
<1> QED
  BY <1>1, <1>6

(* and with the provider and the sublayer.                                 *)
LEMMA WithSublayer ==
  ASSUME NEW t \in Transactions, NEW step \in TxnSteps,
         NEW u, u = [t EXCEPT !.db.provider = TRUE, !.db.sublayer = TRUE, !.step = step]
  PROVE  /\ u \in Transactions /\ u.op = t.op /\ u.step = step
         /\ u.db.provider = TRUE /\ u.db.sublayer = TRUE
<1>1. u.op = t.op /\ u.step = step
  BY DEF Transactions
<1>2. u.db = [t.db EXCEPT !.provider = TRUE, !.sublayer = TRUE]
  BY DEF Transactions, Database
<1>3. t.db \in Database
  BY DEF Transactions
<1>4. u.db \in Database /\ u.db.provider = TRUE /\ u.db.sublayer = TRUE
  BY <1>2, <1>3 DEF Database
<1>5. u = [t EXCEPT !.db = u.db, !.step = step]
  BY <1>2 DEF Transactions, Database
<1>6. u \in Transactions
  BY <1>4, <1>5 DEF Transactions
<1> QED
  BY <1>1, <1>4, <1>6

-----------------------------------------------------------------------------
(* Nothing is promised at the start.                                       *)
THEOREM KsInvInit ==
  KsInit => KsInv
<1> SUFFICES ASSUME KsInit
             PROVE  KsInv
  OBVIOUS
<1>1. KsTypeOK
  BY DEF KsInit, KsTypeOK, Nothing, Idle, Database
<1>2. TxnOK
  BY DEF KsInit, TxnOK
<1>3. FiltersFollowCommits
  BY DEF KsInit, FiltersFollowCommits, Idle
<1> QED
  BY <1>1, <1>2, <1>3 DEF KsInv

(* A step that leaves the committed objects alone keeps what they promise. *)
LEMMA PromiseKept ==
  ASSUME FiltersFollowCommits, UNCHANGED <<base, standing>>
  PROVE  FiltersFollowCommits'
BY DEF FiltersFollowCommits

(* A commit puts what the transaction made in place of what was promised.  *)
LEMMA CommitKeeps ==
  ASSUME KsInv, Commit
  PROVE  KsInv'
<1>1. txn \in Transactions /\ txn.step = "commit" /\ txn # NoTxn
  BY DEF KsInv, KsTypeOK, Commit, At, NoTxn
<1>2. /\ txn.op \in {"engage", "disengage"}
      /\ txn.permits \in SUBSET Programs /\ txn.kept \in SUBSET Filters
      /\ txn.db \in Database /\ txn.db.filters \in SUBSET Filters
  BY <1>1 DEF Transactions, Database
<1>3. txn' = NoTxn /\ base' = txn.db
  BY DEF Commit
<1>4. TxnOK'
  BY <1>3 DEF TxnOK
<1>5. CASE txn.op = "engage"
  <2> DEFINE stale == UNION {f.apps : f \in txn.kept}
  <2>1. stale \in SUBSET Programs
    BY <1>2 DEF Filters
  <2>2. standing' = [engaged |-> TRUE, permits |-> txn.permits, stale |-> stale]
    BY <1>5 DEF Commit
  <2>3. KsTypeOK'
    BY <1>2, <1>3, <2>1, <2>2 DEF KsTypeOK
  <2>4. /\ txn.db.provider = TRUE /\ txn.db.sublayer = TRUE
        /\ Complete(txn.db.filters, txn.permits, txn.kept)
    BY <1>1, <1>5 DEF KsInv, TxnOK
  <2>5. \A c \in Connections :
          /\ Permitted(txn.db.filters, c) =>
               \/ c.to \in {"loopback", "dhcp"}
               \/ c.app \in txn.permits \cup stale
          /\ c.to = "loopback" \/ c.app \in txn.permits => Permitted(txn.db.filters, c)
    BY <1>2, <2>4, CompleteBlocks, CompletePermits
  <2>6. base'.provider /\ base'.sublayer /\ base'.filters = txn.db.filters
    BY <1>3, <2>4
  <2>7. standing'.engaged /\ standing'.permits = txn.permits /\ standing'.stale = stale
    BY <2>2
  <2>8. FiltersFollowCommits'
    BY <2>5, <2>6, <2>7 DEF FiltersFollowCommits, Permitted
  <2> QED
    BY <1>4, <2>3, <2>8 DEF KsInv
<1>6. CASE txn.op = "disengage"
  <2>1. standing' = Idle
    BY <1>6 DEF Commit
  <2>2. base' = Nothing
    BY <1>1, <1>3, <1>6 DEF KsInv, TxnOK
  <2>3. KsTypeOK'
    BY <1>3, <2>1, <2>2 DEF KsTypeOK, Idle, Nothing, Database
  <2>4. FiltersFollowCommits'
    BY <2>1, <2>2 DEF FiltersFollowCommits, Idle
  <2> QED
    BY <1>4, <2>3, <2>4 DEF KsInv
<1> QED
  BY <1>2, <1>5, <1>6

(* Every step of a call keeps the invariant.                               *)
THEOREM KsInvStep ==
  KsInv /\ [KsNext]_ksVars => KsInv'
<1> SUFFICES ASSUME KsInv, [KsNext]_ksVars
             PROVE  KsInv'
  OBVIOUS
<1>1. KsTypeOK /\ TxnOK /\ FiltersFollowCommits
  BY DEF KsInv
<1>t. txn # NoTxn => /\ txn \in Transactions
                     /\ txn.op \in {"engage", "disengage"} /\ txn.step \in TxnSteps
                     /\ txn.permits \in SUBSET Programs /\ txn.kept \in SUBSET Filters
                     /\ txn.db \in Database /\ txn.db.filters \in SUBSET Filters
  BY <1>1 DEF KsTypeOK, Transactions, Database
<1>a. \A step \in TxnSteps : At(step) => txn # NoTxn
  BY DEF At, NoTxn, TxnSteps
<1>2. ASSUME NEW op \in {"engage", "disengage"}, NEW permits \in SUBSET Programs,
             Begin(op, permits)
      PROVE  KsInv'
  <2>1. UNCHANGED <<base, standing>>
    BY <1>2 DEF Begin
  <2>2. KsTypeOK'
    BY <1>1, <1>2, <2>1 DEF Begin, KsTypeOK, Transactions, TxnSteps
  <2>3. TxnOK'
    BY <1>2 DEF Begin, TxnOK
  <2> QED
    BY <1>1, <2>1, <2>2, <2>3, PromiseKept DEF KsInv
<1>3. CASE EnsureProviderAndSublayer
  <2>1. UNCHANGED <<base, standing>> /\ txn # NoTxn /\ txn.step = "ensure"
    BY <1>3, <1>a DEF EnsureProviderAndSublayer, At, TxnSteps
  <2>2. txn \in Transactions /\ txn.op = "engage" /\ {"clear", "abort"} \subseteq TxnSteps
    BY <1>1, <1>t, <2>1 DEF TxnOK, TxnSteps
  <2>3. /\ txn' \in Transactions /\ txn'.op = "engage"
        /\ \/ /\ txn'.step = "clear"
              /\ txn'.db.provider = TRUE /\ txn'.db.sublayer = TRUE
           \/ txn'.step = "abort"
    <3>1. CASE txn' = [txn EXCEPT !.db.provider = TRUE, !.db.sublayer = TRUE,
                                  !.step = "clear"]
      BY <2>2, <3>1, WithSublayer
    <3>2. CASE txn' = [txn EXCEPT !.step = "abort"]
      BY <2>2, <3>2 DEF Transactions
    <3>3. CASE txn' = [txn EXCEPT !.db.provider = TRUE, !.step = "abort"]
      BY <2>2, <3>3, WithProvider
    <3> QED
      BY <1>3, <3>1, <3>2, <3>3 DEF EnsureProviderAndSublayer
  <2>4. KsTypeOK'
    BY <1>1, <2>1, <2>3 DEF KsTypeOK
  <2>5. TxnOK'
    BY <2>3 DEF TxnOK
  <2> QED
    BY <1>1, <2>1, <2>4, <2>5, PromiseKept DEF KsInv
<1>4. CASE ClearExistingFilters
  <2> DEFINE next == IF txn.op = "engage" THEN "install" ELSE "sublayer"
  <2>1. UNCHANGED <<base, standing>> /\ txn # NoTxn /\ txn.step = "clear"
    BY <1>4, <1>a DEF ClearExistingFilters, At, TxnSteps
  <2>2. txn \in Transactions /\ next \in TxnSteps /\ txn.op \in {"engage", "disengage"}
    BY <1>t, <2>1 DEF TxnSteps
  <2>3. /\ txn' \in Transactions /\ txn'.op = txn.op
        /\ txn'.db.provider = txn.db.provider /\ txn'.db.sublayer = txn.db.sublayer
        /\ \/ txn'.step = next /\ txn'.db.filters = txn'.kept
           \/ txn'.step = IF txn.op = "engage" THEN "abort" ELSE "sublayer"
    <3>1. CASE \E kept \in SUBSET txn.db.filters :
                 txn' = [txn EXCEPT !.db.filters = kept, !.kept = kept, !.step = next]
      <4>1. PICK kept \in SUBSET txn.db.filters :
              txn' = [txn EXCEPT !.db.filters = kept, !.kept = kept, !.step = next]
        BY <3>1
      <4>2. kept \in SUBSET Filters
        BY <1>t, <2>1
      <4>3. txn' = Cleared(txn, kept, next)
        BY <4>1 DEF Cleared
      <4>4. /\ txn' \in Transactions
            /\ txn'.op = txn.op /\ txn'.kept = kept /\ txn'.step = next
            /\ txn'.db.filters = kept
            /\ txn'.db.provider = txn.db.provider /\ txn'.db.sublayer = txn.db.sublayer
        <5> HIDE DEF next
        <5> QED
          BY <2>2, <4>2, <4>3, WithKept
      <4> QED
        BY <4>4
    <3>2. CASE txn' = [txn EXCEPT
                         !.step = IF txn.op = "engage" THEN "abort" ELSE "sublayer"]
      BY <2>2, <3>2 DEF Transactions, TxnSteps
    <3> QED
      BY <1>4, <3>1, <3>2 DEF ClearExistingFilters
  <2>4. KsTypeOK'
    BY <1>1, <2>1, <2>3 DEF KsTypeOK
  <2>5. TxnOK'
    BY <1>1, <2>1, <2>2, <2>3 DEF TxnOK
  <2> QED
    BY <1>1, <2>1, <2>4, <2>5, PromiseKept DEF KsInv
<1>5. CASE InstallFilterSet
  <2>1. UNCHANGED <<base, standing>> /\ txn # NoTxn /\ txn.step = "install"
    BY <1>5, <1>a DEF InstallFilterSet, At, TxnSteps
  <2>2. PICK done \in SUBSET FilterSet(txn.permits) :
          \/ /\ \A f \in FilterSet(txn.permits) \ done : f.kind = "dhcp"
             /\ txn' = [txn EXCEPT !.db.filters = @ \cup done, !.step = "commit"]
          \/ txn' = [txn EXCEPT !.db.filters = @ \cup done, !.step = "abort"]
    BY <1>5 DEF InstallFilterSet
  <2> DEFINE all == txn.db.filters \cup done
  <2>3. all \in SUBSET Filters
    BY <1>t, <2>1, FilterSetTyped
  <2>4. /\ txn \in Transactions /\ {"commit", "abort"} \subseteq TxnSteps
        /\ txn.op = "engage" /\ txn.db.filters = txn.kept
        /\ txn.db.provider = TRUE /\ txn.db.sublayer = TRUE
    BY <1>1, <1>t, <2>1 DEF TxnOK, TxnSteps
  <2>5. /\ txn' \in Transactions /\ txn'.op = "engage"
        /\ txn'.permits = txn.permits /\ txn'.kept = txn.kept
        /\ txn'.db.filters = all
        /\ txn'.db.provider = TRUE /\ txn'.db.sublayer = TRUE
        /\ \/ /\ txn'.step = "commit"
              /\ \A f \in FilterSet(txn.permits) \ done : f.kind = "dhcp"
           \/ txn'.step = "abort"
    <3>1. \/ /\ txn' = Refiltered(txn, all, "commit")
             /\ \A f \in FilterSet(txn.permits) \ done : f.kind = "dhcp"
          \/ txn' = Refiltered(txn, all, "abort")
      BY <2>2 DEF Refiltered
    <3> HIDE DEF all
    <3>2. CASE /\ txn' = Refiltered(txn, all, "commit")
               /\ \A f \in FilterSet(txn.permits) \ done : f.kind = "dhcp"
      BY <2>3, <2>4, <3>2, WithFilters
    <3>3. CASE txn' = Refiltered(txn, all, "abort")
      BY <2>3, <2>4, <3>3, WithFilters
    <3> QED
      BY <3>1, <3>2, <3>3
  <2>6. txn'.step = "commit" => Complete(all, txn.permits, txn.kept)
    BY <2>4, <2>5 DEF Complete
  <2>7. KsTypeOK'
    BY <1>1, <2>1, <2>5 DEF KsTypeOK
  <2>8. TxnOK'
    BY <2>5, <2>6 DEF TxnOK
  <2> QED
    BY <1>1, <2>1, <2>7, <2>8, PromiseKept DEF KsInv
<1>6. CASE DeleteSublayer
  <2>1. UNCHANGED <<base, standing>> /\ txn # NoTxn /\ txn.step = "sublayer"
    BY <1>6, <1>a DEF DeleteSublayer, At, TxnSteps
  <2>2. KsTypeOK'
    BY <1>1, <1>6, <1>t, <2>1 DEF DeleteSublayer, KsTypeOK, Transactions, TxnSteps, Database
  <2>3. TxnOK'
    BY <1>1, <1>6, <1>t, <2>1 DEF DeleteSublayer, TxnOK, Transactions, Database
  <2> QED
    BY <1>1, <2>1, <2>2, <2>3, PromiseKept DEF KsInv
<1>7. CASE DeleteProvider
  <2>1. UNCHANGED <<base, standing>> /\ txn # NoTxn /\ txn.step = "provider"
    BY <1>7, <1>a DEF DeleteProvider, At, TxnSteps
  <2>2. KsTypeOK'
    BY <1>1, <1>7, <1>t, <2>1 DEF DeleteProvider, KsTypeOK, Transactions, TxnSteps, Database
  <2>3. TxnOK'
    BY <1>1, <1>7, <1>t, <2>1 DEF DeleteProvider, TxnOK, Transactions, Database, Nothing
  <2> QED
    BY <1>1, <2>1, <2>2, <2>3, PromiseKept DEF KsInv
<1>8. CASE DeletionFails
  <2>1. UNCHANGED <<base, standing>> /\ txn # NoTxn /\ txn' = [txn EXCEPT !.step = "abort"]
    BY <1>8, <1>a DEF DeletionFails, TxnSteps
  <2>2. KsTypeOK'
    BY <1>1, <1>t, <2>1 DEF KsTypeOK, Transactions, TxnSteps
  <2>3. TxnOK'
    BY <1>t, <2>1 DEF TxnOK, Transactions
  <2> QED
    BY <1>1, <2>1, <2>2, <2>3, PromiseKept DEF KsInv
<1>9. CASE Abort
  <2>1. UNCHANGED <<base, standing>> /\ txn' = NoTxn
    BY <1>9 DEF Abort
  <2>2. KsTypeOK' /\ TxnOK'
    BY <1>1, <2>1 DEF KsTypeOK, TxnOK
  <2> QED
    BY <1>1, <2>1, <2>2, PromiseKept DEF KsInv
<1>10. CASE UNCHANGED ksVars
  <2>1. KsTypeOK' /\ TxnOK' /\ UNCHANGED <<base, standing>>
    BY <1>1, <1>10 DEF KsTypeOK, TxnOK, ksVars
  <2> QED
    BY <1>1, <2>1, PromiseKept DEF KsInv
<1> QED
  BY <1>2, <1>3, <1>4, <1>5, <1>6, <1>7, <1>8, <1>9, <1>10, CommitKeeps DEF KsNext

(* From the commit of an engage on all traffic but loopback, DHCP and the  *)
(* permitted programs is blocked, through every later call that fails,     *)
(* dies or engages again; from the commit of a disengage on nothing is     *)
(* left (EngageKillswitch, DisengageKillswitch).                           *)
THEOREM FiltersFollow ==
  KsSpec => []FiltersFollowCommits
<1>1. KsInv => FiltersFollowCommits
  BY DEF KsInv
<1> QED
  BY <1>1, KsInvInit, KsInvStep, PTL DEF KsSpec
=============================================================================
