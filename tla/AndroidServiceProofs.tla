------------------------- MODULE AndroidServiceProofs -------------------------
(***************************************************************************)
(* ShownIsOwned, KillswitchKept and OnlyDeadSessionsFail of AndroidService,*)
(* for any number of intents, revocations and changes of the preference.   *)
(*                                                                         *)
(* All three rest on one invariant, AndroidInv.  Its first part says what  *)
(* the main thread has in front of it: instances are made one after        *)
(* another, each is created before anything else reaches it, and one is up *)
(* at most.  The second says which preference an instance will follow when *)
(* its queue is empty.  The third, CalmInv, says where the end of a core   *)
(* is between the core and the task that looks at it, that a session which *)
(* waits to start has not run, and why an instance that is shown as        *)
(* connected still runs; it holds until an instance is destroyed under a   *)
(* start or under the handling of a failure.                               *)
(*                                                                         *)
(* A step of an executor is summed up by the relation Effect or Failed     *)
(* between the instance before and after; a step of another thread by the  *)
(* relation Keeps.                                                         *)
(***************************************************************************)
EXTENDS AndroidService, FiniteSetTheorems, TLAPS

(* The main thread.  A message is in its queue, or in front of another.    *)
InMain(op, i) == \E n \in DOMAIN main : main[n].op = op /\ main[n].to = i
Before(n, op, i) ==
  \E m \in DOMAIN main : m < n /\ main[m].op = op /\ main[m].to = i
Gone(i)    == svc[i].state = "gone"
Created(i) == svc[i].state # "none"

(* An instance is made after the one before it has been told to end, is    *)
(* created before anything else reaches it, and is asked for something.    *)
MessageOK(n) ==
  /\ main[n].to \in 1 .. made
  /\ main[n].op = "create" =>
       /\ main[n].session = 0
       /\ \A i \in Instances : i < main[n].to => Gone(i) \/ Before(n, "destroy", i)
       /\ \A m \in DOMAIN main : main[m].op = "create" /\ main[m].to = main[n].to => m = n
  /\ main[n].op # "create" => Created(main[n].to) \/ Before(n, "create", main[n].to)
  /\ main[n].op = "start" => main[n].session \in Sent
OneAfterAnother ==
  /\ \A i, j \in Instances : i < j /\ Created(j) => Created(i)
  /\ \A i \in Instances : i <= made /\ i # record => Gone(i) \/ InMain("destroy", i)
RecordOK ==
  /\ record \in {0, made}
  /\ record # 0 =>
       /\ ~Gone(record) /\ ~InMain("destroy", record)
       /\ Created(record) \/ InMain("start", record) \/ InMain("stop", record)
MainOK == (\A n \in DOMAIN main : MessageOK(n)) /\ OneAfterAnother /\ RecordOK
OneUp == \A i, j \in Up : i = j

(* Every intent makes an instance at most, and sessions are numbered in    *)
(* the order in which they are asked for.                                  *)
SentOK == Sent = 1 .. Cardinality(Sent) /\ made <= Cardinality(Sent) + stops

(* An instance and its executor.                                           *)
QueueOK(q) ==
  \A n \in DOMAIN q :
    /\ q[n].op # "none"
    /\ q[n].op = "start" => q[n].session \in Sent
    /\ q[n].op \in Reports => q[n].session \in Sent
Startup == {"reset", "core", "bridge", "mark"}
JobOK(r) ==
  /\ r.state = "none" => r = Fresh
  /\ r.state = "gone" => r.queue = <<>>
  /\ r.at \in Startup => r.job.op = "start"
  /\ r.job.op = "start" => r.at \in Startup \cup {"handle"}
  /\ r.job.op = "stop" <=> r.at = "stopSelf"
  /\ r.at = "begin" <=> r.job = NoTask
  /\ r.job.op = "start" => r.job.session \in Sent
CoresOK(r) ==
  /\ r.server = 0 \/ r.process = 0
  /\ r.server # 0 => r.server \in Sent /\ core[r.server] = "singBox"
  /\ r.process # 0 => r.process \in Sent /\ core[r.process] = "xray"
  /\ r.at \in {"reset", "core", "handle"} => Owned(r) = {} /\ ~r.bridge
InstanceOK(r) == QueueOK(r.queue) /\ JobOK(r) /\ CoresOK(r)
InstancesOK == \A i \in Instances : InstanceOK(svc[i])
NoticesOK == \A n \in notices : n.session \in Sent
IfaceOK ==
  /\ iface \in [kind : {"none", "tun", "hole"}, by : 0 .. made]
  /\ iface.kind = "none" => iface = NoIface
  /\ iface.by = 0 => iface = NoIface

TypeInv == TypeOK /\ MainOK /\ OneUp /\ SentOK /\ InstancesOK /\ NoticesOK /\ IfaceOK

(* The last change of the preference that waits is the last there was.     *)
Switches(r) == {n \in DOMAIN r.queue : r.queue[n].op \in {"on", "off"}}
Follows(r, preference, unprotected) ==
  /\ \A n \in Switches(r) :
       (\A m \in Switches(r) : m <= n) => (preference <=> r.queue[n].op = "on")
  /\ Switches(r) = {} =>
       /\ r.active => preference
       /\ preference => r.active \/ unprotected
PrefOK == \A i \in Up : Follows(svc[i], pref, "unprotected" \in odd)

(* What waits in a queue of messages or of tasks.                          *)
Has(q, op)      == \E n \in DOMAIN q : q[n].op = op
HasOf(q, op, s) == \E n \in DOMAIN q : q[n].op = op /\ q[n].session = s
StartsOf(q)     == {s \in Sessions : HasOf(q, "start", s)}
ReportsOf(q)    == {s \in Sessions : \E op \in Reports : HasOf(q, op, s)}
Distinct(q) ==
  \A n, m \in DOMAIN q :
    q[n].op = "start" /\ q[m].op = "start" /\ q[n].session = q[m].session => n = m

(* The phase is written for the instance that is up.                       *)
AtRest(r) == r.at \notin Startup \cup {"handle"} /\ Owned(r) = {} /\ ~r.hole
InPhase(r, p) ==
  /\ r.at \in {"core", "bridge", "mark"} => p = "connecting"
  /\ r.at = "handle" => p = "error" /\ r.expected /\ ~r.hole
  /\ r.at = "reset" => ~r.hole
  /\ p \in {"error", "disconnected"} => Owned(r) = {} /\ ~r.bridge
  /\ r.hole => p = "error" /\ r.active /\ r.expected
PhaseOK ==
  /\ \A i \in Instances : Gone(i) => AtRest(svc[i])
  /\ iface # NoIface => svc[iface.by].state = "up"
  /\ \A i \in Up : InPhase(svc[i], phase)

(* The starts that wait are of sessions that have not run, each of another. *)
Noticed == {n.session : n \in notices}
Used(r) == Owned(r) \cup Noticed \cup ReportsOf(r.queue)
InOrder(r) ==
  /\ Distinct(r.queue)
  /\ \A s \in StartsOf(main) : s \notin StartsOf(r.queue) /\ s \notin Used(r)
  /\ \A s \in StartsOf(r.queue) : s \notin Used(r)
  /\ r.at \in {"reset", "core"} =>
       /\ r.job.session \notin StartsOf(main)
       /\ r.job.session \notin StartsOf(r.queue)
       /\ r.job.session \notin Used(r)
OrderOK ==
  /\ Distinct(main)
  /\ \A s \in StartsOf(main) : s \notin Noticed
  /\ \A i \in Up : InOrder(svc[i])

(* What runs has an owner, what was reported has ended.                    *)
LiveOK ==
  /\ \A s \in live : \E i \in Up : s \in Owned(svc[i])
  /\ \A n \in notices : n.session \notin live
  /\ \A i \in Up : \A s \in ReportsOf(svc[i].queue) : s \notin live

(* A session that was started runs, or its end is on its way to the task    *)
(* that looks at it.                                                        *)
Dead(i, q, op, s) == Notice(op, i, s) \in notices \/ HasOf(q, op, s)
Alive(i, r) ==
  /\ r.process # 0 => r.process \in live \/ Dead(i, r.queue, "exit", r.process)
  /\ r.server # 0 => r.server \in live \/ Dead(i, r.queue, "stopped", r.server)
Stopping(r)   == r.expected /\ Has(r.queue, "stop")
Runs(i, r)    == Stopping(r) \/ (~r.expected /\ Owned(r) # {} /\ Alive(i, r))
TunOpen(i, r) == iface = Iface("tun", i) \/ InMain("revoke", i) \/ Stopping(r)
Shown(i, r)   == Runs(i, r) /\ TunOpen(i, r) /\ r.bridge
OnItsWay(i, r) ==
  /\ r.at \in {"reset", "core"} => ~r.expected \/ Stopping(r)
  /\ r.at = "bridge" => Runs(i, r)
  /\ r.at = "bridge" /\ core[r.job.session] = "singBox" => TunOpen(i, r)
  /\ r.at = "mark" => Shown(i, r)
RunsOK ==
  /\ \A i \in Up : OnItsWay(i, svc[i])
  /\ phase = "connected" => \E i \in Up : Shown(i, svc[i]) \/ svc[i].at = "reset"

(* An error that was handled.                                              *)
Asked(i, r) ==
  InMain("start", i) \/ InMain("stop", i) \/ Has(r.queue, "start") \/ Has(r.queue, "stop")
Handled(i, r) == r.hole \/ ~wanted \/ Asked(i, r) \/ r.at \in {"reset", "handle"}
ErrorOK ==
  phase = "error" /\ "unprotected" \notin odd /\ record # 0 => Handled(record, svc[record])

CalmInv == PhaseOK /\ OrderOK /\ LiveOK /\ RunsOK /\ ErrorOK
AndroidInv == TypeInv /\ PrefOK /\ (Undisturbed => CalmInv)

-----------------------------------------------------------------------------
ServiceSet ==
  [state : {"none", "up", "gone"}, queue : Seq(Tasks), job : Tasks,
   at : {"begin", "reset", "core", "bridge", "mark", "handle", "stopSelf"},
   expected : BOOLEAN, server : 0 .. MaxStarts, process : 0 .. MaxStarts,
   bridge : BOOLEAN, active : BOOLEAN, hole : BOOLEAN]
NoticeSet == [op : Reports, to : Instances, session : Sessions]

(* Sequences as queues: what is where after Append and after Tail.         *)
LEMMA AppendAt ==
  ASSUME NEW S, NEW q \in Seq(S), NEW x \in S
  PROVE  /\ Append(q, x) \in Seq(S) /\ Len(q) \in Nat /\ DOMAIN q = 1 .. Len(q)
         /\ DOMAIN Append(q, x) = 1 .. Len(q) + 1
         /\ \A n \in DOMAIN q : Append(q, x)[n] = q[n]
         /\ Append(q, x)[Len(q) + 1] = x
OBVIOUS

(* What is where when the first element has been taken.                    *)
LEMMA TailAt ==
  ASSUME NEW S, NEW q \in Seq(S), q # <<>>
  PROVE  /\ Tail(q) \in Seq(S) /\ Head(q) \in S /\ Head(q) = q[1]
         /\ Len(q) \in Nat \ {0} /\ DOMAIN q = 1 .. Len(q)
         /\ DOMAIN Tail(q) = 1 .. Len(q) - 1
         /\ \A n \in DOMAIN Tail(q) : Tail(q)[n] = q[n + 1]
OBVIOUS

(* The bounds are numbers.                                                 *)
LEMMA Bounds == MaxStarts \in Nat /\ MaxStops \in Nat /\ MaxToggles \in Nat
BY BoundsAssumption

(* What the type invariant says of the instances.                          *)
LEMMA InstanceTyped ==
  ASSUME TypeOK
  PROVE  /\ svc \in [Instances -> ServiceSet]
         /\ \A i \in Instances :
              /\ svc[i] \in ServiceSet
              /\ svc[i].server = 0 \/ svc[i].process = 0
              /\ svc[i].state = "none" <=>
                   i > made \/ Message("create", i, 0) \in {main[n] : n \in DOMAIN main}
BY DEF TypeOK, ServiceSet

(* What the type invariant says of the main thread and the system.         *)
LEMMA MainTyped ==
  ASSUME TypeOK
  PROVE  /\ main \in Seq(Messages) /\ Len(main) \in Nat /\ DOMAIN main = 1 .. Len(main)
         /\ \A n \in DOMAIN main :
              main[n] \in Messages /\ main[n].to \in Instances /\ main[n].session \in Nat
         /\ made \in Nat /\ record \in Nat /\ Instances \subseteq Nat \ {0}
         /\ \A i \in 1 .. made : i \in Instances
         /\ record # 0 => record \in Instances /\ record \in 1 .. made
<1>1. main \in Seq(Messages) BY DEF TypeOK
<1>2. \A n \in DOMAIN main : main[n] \in Messages BY <1>1
<1>3. made \in 0 .. (MaxStarts + MaxStops) /\ record \in 0 .. made BY DEF TypeOK
<1>4. MaxStarts + MaxStops \in Nat /\ MaxStarts \in Nat BY Bounds
<1>5. \A m \in Messages : m.to \in Instances /\ m.session \in Nat BY <1>4 DEF Messages
<1>6. Len(main) \in Nat /\ DOMAIN main = 1 .. Len(main) BY <1>1
<1>7. made \in Nat /\ record \in Nat /\ Instances \subseteq Nat \ {0}
  BY <1>3, <1>4 DEF Instances
<1>8. \A i \in 1 .. made : i \in Instances BY <1>3, <1>4, <1>7 DEF Instances
<1>9. record # 0 => record \in Instances /\ record \in 1 .. made BY <1>3, <1>7, <1>8
<1> QED BY <1>1, <1>2, <1>5, <1>6, <1>7, <1>8, <1>9

(* Idle clears the two cores and the bridge, and nothing else.             *)
LEMMA IdleFacts ==
  ASSUME NEW r \in ServiceSet
  PROVE  /\ Idle(r) \in ServiceSet /\ Idle(r).state = r.state /\ Idle(r).queue = r.queue
         /\ Idle(r).job = r.job /\ Idle(r).at = r.at /\ Idle(r).expected = r.expected
         /\ Idle(r).server = 0 /\ Idle(r).process = 0 /\ Idle(r).bridge = FALSE
         /\ Idle(r).active = r.active /\ Idle(r).hole = r.hole
<1>1. 0 \in 0 .. MaxStarts BY Bounds
<1> QED BY <1>1 DEF Idle, ServiceSet

(* What handleFailure does before the core has ended, to the task r.       *)
LEMMA FailureEffect ==
  ASSUME TypeOK, NEW i \in Instances, NEW r \in ServiceSet, NEW orders,
         HandleFailure(i, r, orders)
  PROVE  /\ phase' = "error" /\ StopActiveRuntime(i)
         /\ iface' = Closing({"tun"}, i) /\ odd' = odd \cup orders
         /\ svc' \in [Instances -> ServiceSet]
         /\ \A j \in Instances \ {i} : svc'[j] = svc[j]
         /\ svc'[i].state = r.state /\ svc'[i].queue = r.queue /\ svc'[i].job = r.job
         /\ svc'[i].at = "handle" /\ svc'[i].expected /\ Owned(svc'[i]) = {}
         /\ svc'[i].server = 0 /\ svc'[i].process = 0 /\ ~svc'[i].bridge
         /\ svc'[i].active = r.active /\ svc'[i].hole = r.hole
<1>1. svc \in [Instances -> ServiceSet] BY InstanceTyped
<1>2. PICK still \in ServiceSet : still = Idle(r) BY IdleFacts
<1> DEFINE new == [still EXCEPT !.expected = TRUE, !.at = "handle"]
<1>3. /\ new \in ServiceSet /\ new.state = still.state /\ new.queue = still.queue
      /\ new.job = still.job /\ new.at = "handle" /\ new.expected = TRUE
      /\ new.server = still.server /\ new.process = still.process
      /\ new.bridge = still.bridge /\ new.active = still.active /\ new.hole = still.hole
  BY DEF ServiceSet
<1>4. svc' = [svc EXCEPT ![i] = new] BY <1>2 DEF HandleFailure
<1> HIDE DEF new
<1>5. /\ svc' \in [Instances -> ServiceSet] /\ svc'[i] = new
      /\ \A j \in Instances \ {i} : svc'[j] = svc[j]
  BY <1>1, <1>3, <1>4
<1>6. /\ new.state = r.state /\ new.queue = r.queue /\ new.job = r.job
      /\ new.server = 0 /\ new.process = 0 /\ new.bridge = FALSE
      /\ new.active = r.active /\ new.hole = r.hole
  BY <1>2, <1>3, IdleFacts
<1>7. Owned(svc'[i]) = {} BY <1>5, <1>6 DEF Owned
<1> QED BY <1>3, <1>5, <1>6, <1>7 DEF HandleFailure

(* An instance, field by field.                                            *)
Rec(state, queue, job, at, expected, server, process, bridge, active, hole) ==
  [state |-> state, queue |-> queue, job |-> job, at |-> at, expected |-> expected,
   server |-> server, process |-> process, bridge |-> bridge, active |-> active,
   hole |-> hole]

(* An instance is the record of its fields.                                *)
LEMMA RecFields ==
  \A r \in ServiceSet :
    r = Rec(r.state, r.queue, r.job, r.at, r.expected, r.server, r.process, r.bridge,
            r.active, r.hole)
BY DEF ServiceSet, Rec

(* What the executor of an instance makes of it, unless the task fails; s  *)
(* is what the instance was, n what it becomes.                            *)
Takes(s, n, op) ==
  /\ s.job = NoTask /\ s.queue # <<>> /\ Head(s.queue).op = op
  /\ n.queue = Tail(s.queue)
SameTask(s, n)  == n.job = s.job /\ n.at = s.at
SameCores(s, n) == n.server = s.server /\ n.process = s.process /\ n.bridge = s.bridge
SameBlock(s, n) == n.active = s.active /\ n.hole = s.hole

Starting(i, s, n) ==
  /\ StopActiveRuntime(i)
  /\ iface' = Closing({"tun", "hole"}, i) /\ phase' = phase /\ wanted' = wanted
  /\ Takes(s, n, "start") /\ n.job = Head(s.queue) /\ n.at = "reset" /\ ~n.expected
  /\ n.server = 0 /\ n.process = 0 /\ ~n.bridge /\ n.active = s.active /\ ~n.hole
Resets(i, s, n) ==
  /\ phase' = "connecting" /\ iface' = iface /\ wanted' = wanted
  /\ live' = live /\ notices' = notices
  /\ s.at = "reset" /\ n.at = "core" /\ n.job = s.job /\ n.queue = s.queue
  /\ n.expected = s.expected /\ SameCores(s, n) /\ SameBlock(s, n)
Stops(i, s, n) ==
  /\ StopActiveRuntime(i)
  /\ iface' = Closing({"tun", "hole"}, i) /\ phase' = "disconnected" /\ wanted' = wanted
  /\ Takes(s, n, "stop") /\ n.job = Head(s.queue) /\ n.at = "stopSelf" /\ n.expected
  /\ n.server = 0 /\ n.process = 0 /\ ~n.bridge /\ n.active = s.active /\ ~n.hole
Launches(i, s, n) ==
  /\ phase' = phase /\ wanted' = wanted /\ notices' = notices
  /\ live' = live \cup {s.job.session}
  /\ s.at = "core" /\ n.at = "bridge" /\ n.job = s.job /\ n.queue = s.queue
  /\ n.expected = s.expected /\ n.bridge = s.bridge /\ SameBlock(s, n)
  /\ \/ /\ core[s.job.session] = "xray" /\ iface' = iface
        /\ n.process = s.job.session /\ n.server = s.server
     \/ /\ core[s.job.session] = "singBox" /\ iface' = Iface("tun", i)
        /\ n.server = s.job.session /\ n.process = s.process
Bridges(i, s, n) ==
  /\ phase' = phase /\ wanted' = wanted /\ live' = live /\ notices' = notices
  /\ \/ core[s.job.session] = "xray" /\ iface' = Iface("tun", i)
     \/ core[s.job.session] = "singBox" /\ iface' = iface
  /\ s.at = "bridge" /\ n.at = "mark" /\ n.job = s.job /\ n.queue = s.queue
  /\ n.expected = s.expected /\ n.server = s.server /\ n.process = s.process /\ n.bridge
  /\ SameBlock(s, n)
Ends(i, s, n) ==
  /\ iface' = iface /\ live' = live /\ notices' = notices
  /\ \/ s.at = "mark" /\ phase' = "connected" /\ wanted' = wanted
     \/ s.at = "stopSelf" /\ phase' = phase /\ StopSelf(i)
  /\ n.at = "begin" /\ n.job = NoTask /\ n.queue = s.queue
  /\ n.expected = s.expected /\ SameCores(s, n) /\ SameBlock(s, n)
Blocks(i, s, n) ==
  /\ phase' = phase /\ live' = live /\ notices' = notices
  /\ s.at = "handle" /\ n.at = "begin" /\ n.job = NoTask /\ n.queue = s.queue
  /\ n.expected = s.expected /\ SameCores(s, n)
  /\ \/ /\ s.active /\ n.active /\ n.hole
        /\ iface' = Iface("hole", i) /\ wanted' = wanted
     \/ /\ s.active /\ ~n.active /\ n.hole = s.hole
        /\ iface' = iface /\ wanted' = wanted /\ "unprotected" \in odd'
     \/ /\ ~s.active /\ ~n.active /\ n.hole = s.hole
        /\ iface' = iface /\ StopSelf(i)
Switched(i, s, n) ==
  /\ phase' = phase /\ live' = live /\ notices' = notices
  /\ SameTask(s, n) /\ n.expected = s.expected /\ SameCores(s, n)
  /\ \/ /\ Takes(s, n, "on") /\ n.active /\ n.hole = s.hole
        /\ iface' = iface /\ wanted' = wanted
     \/ /\ Takes(s, n, "off") /\ ~n.active /\ s.active /\ ~n.hole
        /\ iface' = Closing({"hole"}, i)
        /\ IF s.hole /\ Owned(s) = {} /\ ~s.bridge THEN StopSelf(i) ELSE wanted' = wanted
     \/ /\ Takes(s, n, "off") /\ ~n.active /\ ~s.active /\ n.hole = s.hole
        /\ iface' = iface /\ wanted' = wanted
Ignores(i, s, n) ==
  /\ phase' = phase /\ iface' = iface /\ live' = live /\ notices' = notices
  /\ wanted' = wanted
  /\ SameTask(s, n) /\ n.expected = s.expected /\ SameBlock(s, n)
  /\ n.server = s.server /\ n.bridge = s.bridge
  /\ \/ Takes(s, n, "stopped") /\ s.expected /\ n.process = s.process
     \/ Takes(s, n, "closed") /\ s.server = 0 /\ n.process = s.process
     \/ Takes(s, n, "exit") /\ s.process # Head(s.queue).session /\ n.process = s.process
     \/ Takes(s, n, "exit") /\ s.process = Head(s.queue).session /\ s.expected /\ n.process = 0
Effect(i, s, n) ==
  /\ n.state = s.state
  /\ \/ Starting(i, s, n) \/ Resets(i, s, n) \/ Stops(i, s, n)
     \/ Launches(i, s, n) \/ Bridges(i, s, n) \/ Ends(i, s, n)
     \/ Blocks(i, s, n) \/ Switched(i, s, n) \/ Ignores(i, s, n)

(* A task that is taken leaves the queue, and nothing else changes.        *)
LEMMA TakenFacts ==
  ASSUME TypeOK, NEW i \in Instances, svc[i].queue # <<>>
  PROVE  /\ Taken(i) \in ServiceSet /\ Taken(i).queue = Tail(svc[i].queue)
         /\ Head(svc[i].queue) \in Tasks
         /\ Taken(i).state = svc[i].state /\ Taken(i).job = svc[i].job
         /\ Taken(i).at = svc[i].at /\ Taken(i).active = svc[i].active
         /\ Taken(i).hole = svc[i].hole
         /\ Working(i) \in ServiceSet /\ Working(i).queue = Tail(svc[i].queue)
         /\ Working(i).state = svc[i].state /\ Working(i).job = Head(svc[i].queue)
         /\ Working(i).active = svc[i].active /\ Working(i).hole = svc[i].hole
<1>1. svc[i] \in ServiceSet BY InstanceTyped
<1>2. svc[i].queue \in Seq(Tasks) BY <1>1 DEF ServiceSet
<1>3. Tail(svc[i].queue) \in Seq(Tasks) /\ Head(svc[i].queue) \in Tasks
  BY <1>2, TailAt
<1> QED BY <1>1, <1>3 DEF Taken, Working, ServiceSet

(* A task of an executor either fails or has one of the effects above.     *)
LEMMA Effects ==
  ASSUME TypeOK, NEW i \in Instances, Executor(i)
  PROVE  \/ /\ Effect(i, svc[i], svc'[i])
            /\ \/ odd' = odd
               \/ Blocks(i, svc[i], svc'[i]) /\ odd' = odd \cup {"unprotected"}
            /\ svc'[i] \in ServiceSet
            /\ svc' = [svc EXCEPT ![i] = svc'[i]]
         \/ StartFails(i) \/ LibboxReported(i)
         \/ XrayExited(i) /\ svc[i].process = Session(i) /\ ~svc[i].expected
<1> DEFINE s == svc[i]
           n == svc'[i]
<1>1. svc \in [Instances -> ServiceSet] /\ s \in ServiceSet BY InstanceTyped
<1>2. s = Rec(s.state, s.queue, s.job, s.at, s.expected, s.server, s.process, s.bridge,
              s.active, s.hole)
  BY <1>1, RecFields
<1>3. /\ 0 \in 0 .. MaxStarts /\ NoTask \in Tasks
      /\ s.job.session \in 0 .. MaxStarts
  BY <1>1, Bounds DEF NoTask, Task, Tasks, ServiceSet
<1>4. s.queue # <<>> => Tail(s.queue) \in Seq(Tasks) /\ Head(s.queue) \in Tasks
  BY <1>1, TailAt DEF ServiceSet
<1>5. CASE StartRuntime(i)
  <2>1. /\ n = Rec(s.state, Tail(s.queue), Head(s.queue), "reset", FALSE, 0, 0, FALSE,
                      s.active, FALSE)
        /\ svc' = [svc EXCEPT ![i] = n] /\ odd' = odd
    BY <1>1, <1>2, <1>5 DEF StartRuntime, Rec, Idle, Taken, Begins
  <2>2. Tail(s.queue) \in Seq(Tasks) /\ Head(s.queue) \in Tasks
    BY <1>4, <1>5 DEF StartRuntime, Begins
  <2>3. n \in ServiceSet BY <1>1, <1>3, <2>1, <2>2 DEF Rec, ServiceSet
  <2>4. Takes(s, n, "start")
    <3>1. n.queue = Tail(s.queue) BY <2>1 DEF Rec
    <3> HIDE DEF n
    <3> QED BY <1>5, <3>1 DEF StartRuntime, Begins, Takes
  <2>5. Effect(i, s, n)
    <3>1. /\ n.state = s.state /\ n.job = Head(s.queue) /\ n.at = "reset" /\ ~n.expected
          /\ n.server = 0 /\ n.process = 0 /\ ~n.bridge /\ n.active = s.active /\ ~n.hole
      BY <2>1 DEF Rec, SameTask, SameCores
    <3>2. s = svc[i] OBVIOUS
    <3> HIDE DEF s, n
    <3> QED BY <1>5, <2>4, <3>1, <3>2 DEF Effect, Starting, StartRuntime, system
  <2> QED BY <2>1, <2>3, <2>5
<1>6. CASE StartXrayProcess(i)
  <2>1. /\ n = Rec(s.state, s.queue, s.job, "bridge", s.expected, s.server, s.job.session,
                      s.bridge, s.active, s.hole)
        /\ svc' = [svc EXCEPT ![i] = n] /\ odd' = odd
    BY <1>1, <1>2, <1>6 DEF StartXrayProcess, Rec
  <2>2. s.queue \in Seq(Tasks) BY <1>1 DEF ServiceSet
  <2>3. n \in ServiceSet BY <1>1, <1>3, <2>1, <2>2 DEF Rec, ServiceSet
  <2>4. Effect(i, s, n)
    BY <1>6, <2>1 DEF Effect, Rec, Launches, SameBlock, StartXrayProcess, At, system
  <2> QED BY <2>1, <2>3, <2>4
<1>7. CASE StartLibboxService(i)
  <2>1. /\ n = Rec(s.state, s.queue, s.job, "bridge", s.expected, s.job.session, s.process,
                      s.bridge, s.active, s.hole)
        /\ svc' = [svc EXCEPT ![i] = n] /\ odd' = odd
    BY <1>1, <1>2, <1>7 DEF StartLibboxService, Rec
  <2>2. s.queue \in Seq(Tasks) BY <1>1 DEF ServiceSet
  <2>3. n \in ServiceSet BY <1>1, <1>3, <2>1, <2>2 DEF Rec, ServiceSet
  <2>4. Effect(i, s, n)
    BY <1>7, <2>1 DEF Effect, Rec, Launches, SameBlock, StartLibboxService, At, system
  <2> QED BY <2>1, <2>3, <2>4
<1>8. CASE StartHevTunToSocksBridge(i)
  <2>1. /\ n = Rec(s.state, s.queue, s.job, "mark", s.expected, s.server, s.process, TRUE,
                      s.active, s.hole)
        /\ svc' = [svc EXCEPT ![i] = n] /\ odd' = odd
    BY <1>1, <1>2, <1>8 DEF StartHevTunToSocksBridge, Rec
  <2>2. s.queue \in Seq(Tasks) BY <1>1 DEF ServiceSet
  <2>3. n \in ServiceSet BY <1>1, <1>3, <2>1, <2>2 DEF Rec, ServiceSet
  <2>4. Effect(i, s, n)
    BY <1>8, <2>1 DEF Effect, Rec, Bridges, SameBlock, StartHevTunToSocksBridge, At,
      system
  <2> QED BY <2>1, <2>3, <2>4
<1>9. CASE ConnectCommandClient(i)
  <2>1. /\ n = Rec(s.state, s.queue, s.job, "mark", s.expected, s.server, s.process, TRUE,
                      s.active, s.hole)
        /\ svc' = [svc EXCEPT ![i] = n] /\ odd' = odd
    BY <1>1, <1>2, <1>9 DEF ConnectCommandClient, Rec
  <2>2. s.queue \in Seq(Tasks) BY <1>1 DEF ServiceSet
  <2>3. n \in ServiceSet BY <1>1, <1>3, <2>1, <2>2 DEF Rec, ServiceSet
  <2>4. Effect(i, s, n)
    BY <1>9, <2>1 DEF Effect, Rec, Bridges, SameBlock, ConnectCommandClient, At, system
  <2> QED BY <2>1, <2>3, <2>4
<1>10. CASE MarkConnected(i)
  <2>1. /\ n = Rec(s.state, s.queue, NoTask, "begin", s.expected, s.server, s.process,
                      s.bridge, s.active, s.hole)
        /\ svc' = [svc EXCEPT ![i] = n] /\ odd' = odd
    BY <1>1, <1>2, <1>10 DEF MarkConnected, Rec, Done
  <2>2. s.queue \in Seq(Tasks) BY <1>1 DEF ServiceSet
  <2>3. n \in ServiceSet BY <1>1, <1>3, <2>1, <2>2 DEF Rec, ServiceSet
  <2>4. Effect(i, s, n)
    BY <1>10, <2>1 DEF Effect, Rec, Ends, SameCores, SameBlock, MarkConnected, At, system
  <2> QED BY <2>1, <2>3, <2>4
<1>11. CASE StopEnds(i)
  <2>1. /\ n = Rec(s.state, s.queue, NoTask, "begin", s.expected, s.server, s.process,
                      s.bridge, s.active, s.hole)
        /\ svc' = [svc EXCEPT ![i] = n] /\ odd' = odd
    BY <1>1, <1>2, <1>11 DEF StopEnds, Rec, Done
  <2>2. s.queue \in Seq(Tasks) BY <1>1 DEF ServiceSet
  <2>3. n \in ServiceSet BY <1>1, <1>3, <2>1, <2>2 DEF Rec, ServiceSet
  <2>4. Effect(i, s, n)
    BY <1>11, <2>1 DEF Effect, Rec, Ends, SameCores, SameBlock, StopEnds, At
  <2> QED BY <2>1, <2>3, <2>4
<1>12. CASE StopRuntime(i)
  <2>1. /\ n = Rec(s.state, Tail(s.queue), Head(s.queue), "stopSelf", TRUE, 0, 0, FALSE,
                      s.active, FALSE)
        /\ svc' = [svc EXCEPT ![i] = n] /\ odd' = odd
    BY <1>1, <1>2, <1>12 DEF StopRuntime, Rec, Idle, Taken, Begins
  <2>2. Tail(s.queue) \in Seq(Tasks) /\ Head(s.queue) \in Tasks
    BY <1>4, <1>12 DEF StopRuntime, Begins
  <2>3. n \in ServiceSet BY <1>1, <1>3, <2>1, <2>2 DEF Rec, ServiceSet
  <2>4. Takes(s, n, "stop")
    <3>1. n.queue = Tail(s.queue) BY <2>1 DEF Rec
    <3> HIDE DEF n
    <3> QED BY <1>12, <3>1 DEF StopRuntime, Begins, Takes
  <2>5. Effect(i, s, n)
    <3>1. /\ n.state = s.state /\ n.job = Head(s.queue) /\ n.at = "stopSelf" /\ n.expected
          /\ n.server = 0 /\ n.process = 0 /\ ~n.bridge /\ n.active = s.active /\ ~n.hole
      BY <2>1 DEF Rec, SameTask, SameCores
    <3>2. s = svc[i] OBVIOUS
    <3> HIDE DEF s, n
    <3> QED BY <1>12, <2>4, <3>1, <3>2 DEF Effect, Stops, StopRuntime, system
  <2> QED BY <2>1, <2>3, <2>5
<1>13. CASE KillswitchOn(i)
  <2>1. /\ n = Rec(s.state, Tail(s.queue), s.job, s.at, s.expected, s.server, s.process,
                      s.bridge, TRUE, s.hole)
        /\ svc' = [svc EXCEPT ![i] = n] /\ odd' = odd
    BY <1>1, <1>2, <1>13 DEF KillswitchOn, Rec, Taken, Begins
  <2>2. Tail(s.queue) \in Seq(Tasks) /\ Head(s.queue) \in Tasks
    BY <1>4, <1>13 DEF KillswitchOn, Begins
  <2>3. n \in ServiceSet BY <1>1, <1>3, <2>1, <2>2 DEF Rec, ServiceSet
  <2>4. Takes(s, n, "on")
    <3>1. n.queue = Tail(s.queue) BY <2>1 DEF Rec
    <3> HIDE DEF n
    <3> QED BY <1>13, <3>1 DEF KillswitchOn, Begins, Takes
  <2>5. Effect(i, s, n)
    BY <1>13, <2>1, <2>4 DEF Effect, Rec, Switched, SameTask, SameCores, KillswitchOn,
      system
  <2> QED BY <2>1, <2>3, <2>5
<1>14. CASE KillswitchOff(i) /\ s.active
  <2>1. /\ n = Rec(s.state, Tail(s.queue), s.job, s.at, s.expected, s.server, s.process,
                      s.bridge, FALSE, FALSE)
        /\ svc' = [svc EXCEPT ![i] = n] /\ odd' = odd
    BY <1>1, <1>2, <1>14 DEF KillswitchOff, Rec, Taken, Begins
  <2>2. Tail(s.queue) \in Seq(Tasks) /\ Head(s.queue) \in Tasks
    BY <1>4, <1>14 DEF KillswitchOff, Begins
  <2>3. n \in ServiceSet BY <1>1, <1>3, <2>1, <2>2 DEF Rec, ServiceSet
  <2>4. Takes(s, n, "off")
    <3>1. n.queue = Tail(s.queue) BY <2>1 DEF Rec
    <3> HIDE DEF n
    <3> QED BY <1>14, <3>1 DEF KillswitchOff, Begins, Takes
  <2>5. Effect(i, s, n)
    <3>1. /\ n.state = s.state /\ SameTask(s, n) /\ n.expected = s.expected /\ SameCores(s, n)
          /\ ~n.active /\ ~n.hole
      BY <2>1 DEF Rec, SameTask, SameCores
    <3>2. s = svc[i] OBVIOUS
    <3> HIDE DEF s, n
    <3> QED BY <1>14, <2>4, <3>1, <3>2 DEF Effect, Switched, KillswitchOff
  <2> QED BY <2>1, <2>3, <2>5
<1>15. CASE KillswitchOff(i) /\ ~s.active
  <2>1. /\ n = Rec(s.state, Tail(s.queue), s.job, s.at, s.expected, s.server, s.process,
                      s.bridge, FALSE, s.hole)
        /\ svc' = [svc EXCEPT ![i] = n] /\ odd' = odd
    BY <1>1, <1>2, <1>15 DEF KillswitchOff, Rec, Taken, Begins
  <2>2. Tail(s.queue) \in Seq(Tasks) /\ Head(s.queue) \in Tasks
    BY <1>4, <1>15 DEF KillswitchOff, Begins
  <2>3. n \in ServiceSet BY <1>1, <1>3, <2>1, <2>2 DEF Rec, ServiceSet
  <2>4. Takes(s, n, "off")
    <3>1. n.queue = Tail(s.queue) BY <2>1 DEF Rec
    <3> HIDE DEF n
    <3> QED BY <1>15, <3>1 DEF KillswitchOff, Begins, Takes
  <2>5. Effect(i, s, n)
    <3>1. /\ n.state = s.state /\ SameTask(s, n) /\ n.expected = s.expected /\ SameCores(s, n)
          /\ ~n.active /\ n.hole = s.hole
      BY <2>1 DEF Rec, SameTask, SameCores
    <3>2. s = svc[i] OBVIOUS
    <3> HIDE DEF s, n
    <3> QED BY <1>15, <2>4, <3>1, <3>2 DEF Effect, Switched, KillswitchOff
  <2> QED BY <2>1, <2>3, <2>5
<1>16. CASE LibboxIgnored(i)
  <2>1. /\ n = Rec(s.state, Tail(s.queue), s.job, s.at, s.expected, s.server, s.process,
                      s.bridge, s.active, s.hole)
        /\ svc' = [svc EXCEPT ![i] = n] /\ odd' = odd
    BY <1>1, <1>2, <1>16 DEF LibboxIgnored, Rec, Taken, Begins
  <2>2. Tail(s.queue) \in Seq(Tasks) /\ Head(s.queue) \in Tasks
    BY <1>4, <1>16 DEF LibboxIgnored, Begins
  <2>3. n \in ServiceSet BY <1>1, <1>3, <2>1, <2>2 DEF Rec, ServiceSet
  <2>4. \/ Takes(s, n, "stopped") /\ s.expected
        \/ Takes(s, n, "closed") /\ s.server = 0
    <3>1. n.queue = Tail(s.queue) BY <2>1 DEF Rec
    <3> HIDE DEF n
    <3> QED BY <1>16, <3>1 DEF LibboxIgnored, Begins, Takes
  <2>5. Effect(i, s, n)
    BY <1>16, <2>1, <2>4 DEF Effect, Rec, Ignores, SameTask, SameBlock, LibboxIgnored,
      system, Takes
  <2> QED BY <2>1, <2>3, <2>5
<1>17. CASE XrayExited(i) /\ s.process # Session(i)
  <2>1. /\ n = Rec(s.state, Tail(s.queue), s.job, s.at, s.expected, s.server, s.process,
                      s.bridge, s.active, s.hole)
        /\ svc' = [svc EXCEPT ![i] = n] /\ odd' = odd
    BY <1>1, <1>2, <1>17 DEF XrayExited, Rec, Taken, Begins
  <2>2. Tail(s.queue) \in Seq(Tasks) /\ Head(s.queue) \in Tasks
    BY <1>4, <1>17 DEF XrayExited, Begins
  <2>3. n \in ServiceSet BY <1>1, <1>3, <2>1, <2>2 DEF Rec, ServiceSet
  <2>4. Takes(s, n, "exit")
    <3>1. n.queue = Tail(s.queue) BY <2>1 DEF Rec
    <3> HIDE DEF n
    <3> QED BY <1>17, <3>1 DEF XrayExited, Begins, Takes
  <2>5. Effect(i, s, n)
    BY <1>17, <2>1, <2>4 DEF Effect, Rec, Ignores, SameTask, SameBlock, XrayExited,
      Session, Takes, system
  <2> QED BY <2>1, <2>3, <2>5
<1>18. CASE XrayExited(i) /\ s.process = Session(i) /\ s.expected
  <2>1. /\ n = Rec(s.state, Tail(s.queue), s.job, s.at, s.expected, s.server, 0,
                      s.bridge, s.active, s.hole)
        /\ svc' = [svc EXCEPT ![i] = n] /\ odd' = odd
    BY <1>1, <1>2, <1>18 DEF XrayExited, Rec, Taken, Begins
  <2>2. Tail(s.queue) \in Seq(Tasks) /\ Head(s.queue) \in Tasks
    BY <1>4, <1>18 DEF XrayExited, Begins
  <2>3. n \in ServiceSet BY <1>1, <1>3, <2>1, <2>2 DEF Rec, ServiceSet
  <2>4. Takes(s, n, "exit")
    <3>1. n.queue = Tail(s.queue) BY <2>1 DEF Rec
    <3> HIDE DEF n
    <3> QED BY <1>18, <3>1 DEF XrayExited, Begins, Takes
  <2>5. Effect(i, s, n)
    BY <1>18, <2>1, <2>4 DEF Effect, Rec, Ignores, SameTask, SameBlock, XrayExited,
      Session, Takes, system
  <2> QED BY <2>1, <2>3, <2>5
<1>19. CASE ResetForStart(i)
  <2>1. /\ n = Rec(s.state, s.queue, s.job, "core", s.expected, s.server, s.process,
                      s.bridge, s.active, s.hole)
        /\ svc' = [svc EXCEPT ![i] = n] /\ odd' = odd
    BY <1>1, <1>2, <1>19 DEF ResetForStart, Rec
  <2>2. s.queue \in Seq(Tasks) BY <1>1 DEF ServiceSet
  <2>3. n \in ServiceSet BY <1>1, <1>3, <2>1, <2>2 DEF Rec, ServiceSet
  <2>4. Effect(i, s, n)
    BY <1>19, <2>1 DEF Effect, Rec, Resets, SameCores, SameBlock, ResetForStart, At, system
  <2> QED BY <2>1, <2>3, <2>4
<1>20. CASE InstallBlackholeTun(i) /\ svc' = [svc EXCEPT ![i] = [Done(i) EXCEPT !.hole = TRUE]]
            /\ iface' = Iface("hole", i) /\ odd' = odd
  <2>1. /\ n = Rec(s.state, s.queue, NoTask, "begin", s.expected, s.server, s.process,
                      s.bridge, s.active, TRUE)
        /\ svc' = [svc EXCEPT ![i] = n]
    BY <1>1, <1>2, <1>20 DEF Rec, Done
  <2>2. s.queue \in Seq(Tasks) BY <1>1 DEF ServiceSet
  <2>3. n \in ServiceSet BY <1>1, <1>3, <2>1, <2>2 DEF Rec, ServiceSet
  <2>4. Blocks(i, s, n)
    <3>1. /\ s.at = "handle" /\ s.active /\ iface' = Iface("hole", i)
          /\ phase' = phase /\ live' = live /\ notices' = notices /\ wanted' = wanted
      BY <1>20 DEF InstallBlackholeTun, At, system
    <3>2. /\ n.at = "begin" /\ n.job = NoTask /\ n.queue = s.queue /\ n.expected = s.expected
          /\ SameCores(s, n) /\ n.active = s.active /\ n.hole
      BY <2>1 DEF Rec, SameCores
    <3> HIDE DEF s, n
    <3> QED BY <3>1, <3>2 DEF Blocks
  <2>5. Effect(i, s, n)
    <3>1. n.state = s.state BY <2>1 DEF Rec
    <3> QED BY <2>4, <3>1 DEF Effect
  <2> QED BY <1>20, <2>1, <2>3, <2>5
<1>21. CASE InstallBlackholeTun(i)
            /\ svc' = [svc EXCEPT ![i] = [Done(i) EXCEPT !.active = FALSE]]
            /\ odd' = odd \cup {"unprotected"} /\ iface' = iface
  <2>1. /\ n = Rec(s.state, s.queue, NoTask, "begin", s.expected, s.server, s.process,
                      s.bridge, FALSE, s.hole)
        /\ svc' = [svc EXCEPT ![i] = n]
    BY <1>1, <1>2, <1>21 DEF Rec, Done
  <2>2. s.queue \in Seq(Tasks) BY <1>1 DEF ServiceSet
  <2>3. n \in ServiceSet BY <1>1, <1>3, <2>1, <2>2 DEF Rec, ServiceSet
  <2>4. Blocks(i, s, n)
    BY <1>21, <2>1 DEF Rec, Blocks, SameCores, InstallBlackholeTun, At, system
  <2>5. Effect(i, s, n)
    <3>1. n.state = s.state BY <2>1 DEF Rec
    <3> QED BY <2>4, <3>1 DEF Effect
  <2> QED BY <1>21, <2>1, <2>3, <2>4, <2>5
<1>22. CASE FailureStops(i)
  <2>1. /\ n = Rec(s.state, s.queue, NoTask, "begin", s.expected, s.server, s.process,
                      s.bridge, s.active, s.hole)
        /\ svc' = [svc EXCEPT ![i] = n] /\ odd' = odd
    BY <1>1, <1>2, <1>22 DEF FailureStops, Rec, Done
  <2>2. s.queue \in Seq(Tasks) BY <1>1 DEF ServiceSet
  <2>3. n \in ServiceSet BY <1>1, <1>3, <2>1, <2>2 DEF Rec, ServiceSet
  <2>4. Effect(i, s, n)
    BY <1>22, <2>1 DEF Effect, Rec, Blocks, SameCores, FailureStops, At
  <2> QED BY <2>1, <2>3, <2>4
<1>23. InstallBlackholeTun(i) =>
         \/ /\ svc' = [svc EXCEPT ![i] = [Done(i) EXCEPT !.hole = TRUE]]
            /\ iface' = Iface("hole", i) /\ odd' = odd
         \/ /\ svc' = [svc EXCEPT ![i] = [Done(i) EXCEPT !.active = FALSE]]
            /\ odd' = odd \cup {"unprotected"} /\ iface' = iface
  BY DEF InstallBlackholeTun
<1> QED
  BY <1>5, <1>6, <1>7, <1>8, <1>9, <1>10, <1>11, <1>12, <1>13, <1>14, <1>15, <1>16,
    <1>17, <1>18, <1>19, <1>20, <1>21, <1>22, <1>23
  DEF Executor

(* The three tasks that fail, and what the executor then works on.         *)
Failing(i, s, n) ==
  \/ /\ StartFails(i) /\ s.at \in {"core", "bridge"}
     /\ n.queue = s.queue /\ n.job = s.job
  \/ /\ XrayExited(i) /\ Begins(i, "exit") /\ s.process = Session(i) /\ ~s.expected
     /\ n.queue = Tail(s.queue) /\ n.job = Head(s.queue)
  \/ /\ LibboxReported(i)
     /\ odd' = odd \cup (IF Owned(s) \subseteq {Session(i)} THEN {} ELSE {"stale"})
     /\ n.queue = Tail(s.queue) /\ n.job = Head(s.queue)

Failed(i, s, n) ==
  /\ Failing(i, s, n)
  /\ n.state = s.state /\ n.at = "handle"
  /\ phase' = "error" /\ StopActiveRuntime(i)
  /\ iface' = Closing({"tun"}, i) /\ wanted' = wanted
  /\ n.expected /\ Owned(n) = {} /\ n.server = 0 /\ n.process = 0 /\ ~n.bridge
  /\ SameBlock(s, n)
  /\ odd \subseteq odd' /\ odd' \subseteq odd \cup {"stale"}

(* A task that fails stops what runs and leaves an error behind.           *)
LEMMA Failures ==
  ASSUME TypeOK, NEW i \in Instances,
         \/ StartFails(i) \/ LibboxReported(i)
         \/ XrayExited(i) /\ svc[i].process = Session(i) /\ ~svc[i].expected
  PROVE  /\ Failed(i, svc[i], svc'[i])
         /\ svc' \in [Instances -> ServiceSet]
         /\ \A j \in Instances \ {i} : svc'[j] = svc[j]
<1> DEFINE s == svc[i]
<1>1. svc \in [Instances -> ServiceSet] /\ s \in ServiceSet BY InstanceTyped
<1>2. wanted' = wanted
  BY DEF StartFails, LibboxReported, XrayExited, system
<1>3. CASE StartFails(i)
  <2>1. HandleFailure(i, s, {}) BY <1>3 DEF StartFails
  <2>2. odd' = odd \cup {} BY <1>1, <2>1, FailureEffect
  <2>3. s.at \in {"core", "bridge"} BY <1>3 DEF StartFails, At
  <2>4. svc'[i].queue = s.queue /\ svc'[i].job = s.job BY <1>1, <2>1, FailureEffect
  <2>5. Failing(i, svc[i], svc'[i]) BY <1>3, <2>3, <2>4 DEF Failing
  <2> QED BY <1>1, <1>2, <2>1, <2>2, <2>5, FailureEffect DEF Failed, SameBlock
<1>4. CASE LibboxReported(i)
  <2> DEFINE orders == IF Owned(s) \subseteq {Session(i)} THEN {} ELSE {"stale"}
  <2>1. s.queue # <<>> BY <1>4 DEF LibboxReported, Begins
  <2>2. PICK r \in ServiceSet :
          /\ r = Working(i) /\ r.state = s.state /\ r.queue = Tail(s.queue)
          /\ r.job = Head(s.queue) /\ r.active = s.active /\ r.hole = s.hole
    BY <1>1, <2>1, TakenFacts
  <2>3. HandleFailure(i, r, orders) BY <1>4, <2>2 DEF LibboxReported
  <2>4. orders \subseteq {"stale"} OBVIOUS
  <2>5. odd' = odd \cup orders BY <2>3, FailureEffect
  <2>6. svc'[i].queue = Tail(s.queue) /\ svc'[i].job = Head(s.queue)
    BY <2>2, <2>3, FailureEffect
  <2>7. Failing(i, svc[i], svc'[i]) BY <1>4, <2>5, <2>6 DEF Failing
  <2> HIDE DEF orders
  <2> QED BY <1>2, <2>2, <2>3, <2>4, <2>5, <2>7, FailureEffect DEF Failed, SameBlock
<1>5. CASE XrayExited(i) /\ svc[i].process = Session(i) /\ ~svc[i].expected
  <2>1. s.queue # <<>> BY <1>5 DEF XrayExited, Begins
  <2>2. PICK work \in ServiceSet :
          /\ work = Working(i) /\ work.state = s.state /\ work.queue = Tail(s.queue)
          /\ work.job = Head(s.queue) /\ work.active = s.active /\ work.hole = s.hole
    BY <1>1, <2>1, TakenFacts
  <2>3. 0 \in 0 .. MaxStarts BY Bounds
  <2>4. PICK r \in ServiceSet :
          /\ r = [Working(i) EXCEPT !.process = 0]
          /\ r.state = s.state /\ r.queue = Tail(s.queue)
          /\ r.job = Head(s.queue) /\ r.active = s.active /\ r.hole = s.hole
    <3> DEFINE new == [work EXCEPT !.process = 0]
    <3>1. /\ new \in ServiceSet /\ new.state = work.state /\ new.queue = work.queue
          /\ new.job = work.job /\ new.active = work.active /\ new.hole = work.hole
      BY <2>3 DEF ServiceSet
    <3> QED BY <2>2, <3>1
  <2>5. HandleFailure(i, r, {}) /\ Begins(i, "exit") BY <1>5, <2>4 DEF XrayExited
  <2>6. odd' = odd \cup {} BY <2>5, FailureEffect
  <2>7. svc'[i].queue = Tail(s.queue) /\ svc'[i].job = Head(s.queue)
    BY <2>4, <2>5, FailureEffect
  <2>8. Failing(i, svc[i], svc'[i]) BY <1>5, <2>5, <2>7 DEF Failing
  <2> QED BY <1>2, <2>4, <2>5, <2>6, <2>8, FailureEffect DEF Failed, SameBlock
<1> QED BY <1>3, <1>4, <1>5

-----------------------------------------------------------------------------
(* What an executor leaves alone.                                          *)
LEMMA OwnedTyped ==
  ASSUME NEW r \in ServiceSet
  PROVE  /\ Owned(r) \subseteq Sessions
         /\ r.process \in Nat /\ r.server \in Nat
         /\ r.process # 0 => r.process \in Owned(r) /\ r.process \in Sessions
         /\ r.server # 0 => r.server \in Owned(r) /\ r.server \in Sessions
         /\ \A s \in Owned(r) : s # 0 /\ (s = r.process \/ s = r.server)
BY Bounds DEF Owned, ServiceSet, Sessions

(* Ending what an instance owns reports nothing of another.                *)
LEMMA StopTyped ==
  ASSUME TypeOK, NEW i \in Instances, StopActiveRuntime(i)
  PROVE  /\ live' \subseteq live /\ notices \subseteq notices'
         /\ notices' \subseteq NoticeSet
         /\ \A s \in live : s \notin Owned(svc[i]) => s \in live'
         /\ \A n \in notices' : n \in notices \/
              /\ n.to = i /\ n.session \in Owned(svc[i])
              /\ n.op = "exit" \/ n.op = "closed"
         /\ \A s \in Owned(svc[i]) : s \notin live'
<1>1. svc[i] \in ServiceSet BY InstanceTyped
<1>2. notices \subseteq NoticeSet BY DEF TypeOK, NoticeSet
<1>3. ASSUME NEW n \in notices', n \notin notices
      PROVE  /\ n \in NoticeSet /\ n.to = i /\ n.session \in Owned(svc[i])
             /\ n.op = "exit" \/ n.op = "closed"
  <2>1. \/ \E s \in {svc[i].process} \cap live : n = Notice("exit", i, s)
        \/ \E s \in {x \in {svc[i].server} : x # 0 /\ svc[i].bridge} : n = Notice("closed", i, s)
    BY <1>3 DEF StopActiveRuntime
  <2>2. live \subseteq Sessions BY DEF TypeOK
  <2>3. \A s \in Sessions : s # 0 BY Bounds DEF Sessions
  <2> QED BY <1>1, <2>1, <2>2, <2>3, OwnedTyped DEF Notice, NoticeSet, Reports
<1> QED BY <1>2, <1>3 DEF StopActiveRuntime

(* stopSelf only ever withdraws the start of the service.                  *)
LEMMA StopSelfTyped ==
  ASSUME wanted \in BOOLEAN, NEW i, StopSelf(i)
  PROVE  wanted' \in BOOLEAN /\ (wanted' => wanted)
<1>1. wanted' = (wanted /\ record # i) BY DEF StopSelf
<1>2. CASE wanted /\ record # i BY <1>1, <1>2
<1>3. CASE ~(wanted /\ record # i) BY <1>1, <1>3
<1> QED BY <1>2, <1>3

(* A task writes its own instance and none of the messages, the requests of*)
(* the clients or the preference.                                          *)
LEMMA ExecutorFrame ==
  ASSUME TypeOK, IfaceOK, NEW i \in Instances, Executor(i)
  PROVE  /\ pref' = pref /\ main' = main /\ record' = record /\ made' = made
         /\ core' = core /\ stops' = stops /\ toggles' = toggles
         /\ svc' \in [Instances -> ServiceSet]
         /\ \A j \in Instances \ {i} : svc'[j] = svc[j]
         /\ svc'[i].state = svc[i].state
         /\ wanted' \in BOOLEAN /\ (wanted' => wanted)
         /\ odd \subseteq odd' /\ odd' \subseteq Orders
         /\ "destroyed" \in odd' => "destroyed" \in odd
<1>1. pref' = pref /\ main' = main /\ record' = record /\ made' = made
  BY DEF Executor, StartRuntime, StartXrayProcess, StartHevTunToSocksBridge,
    StartLibboxService, ConnectCommandClient, MarkConnected, StartFails, StopRuntime,
    StopEnds, KillswitchOn, KillswitchOff, XrayExited, LibboxReported, LibboxIgnored,
    ResetForStart, InstallBlackholeTun, FailureStops, system
<1>2. core' = core /\ stops' = stops /\ toggles' = toggles
  BY DEF Executor, StartRuntime, StartXrayProcess, StartHevTunToSocksBridge,
    StartLibboxService, ConnectCommandClient, MarkConnected, StartFails, StopRuntime,
    StopEnds, KillswitchOn, KillswitchOff, XrayExited, LibboxReported, LibboxIgnored,
    ResetForStart, InstallBlackholeTun, FailureStops, sent
<1>3. svc \in [Instances -> ServiceSet] /\ svc[i] \in ServiceSet /\ wanted \in BOOLEAN
  BY InstanceTyped DEF TypeOK
<1>4. odd \subseteq Orders /\ {"stale", "unprotected"} \subseteq Orders
  BY DEF TypeOK, Orders
<1>5. CASE /\ Effect(i, svc[i], svc'[i])
           /\ odd' = odd \/ odd' = odd \cup {"unprotected"}
           /\ svc'[i] \in ServiceSet /\ svc' = [svc EXCEPT ![i] = svc'[i]]
  <2>1. svc' \in [Instances -> ServiceSet] /\ \A j \in Instances \ {i} : svc'[j] = svc[j]
    BY <1>3, <1>5
  <2>2. svc'[i].state = svc[i].state BY <1>5 DEF Effect
  <2>3. wanted' = wanted \/ StopSelf(i)
    BY <1>5 DEF Effect, Starting, Resets, Blocks, Stops, Launches, Bridges, Ends, Switched, Ignores
  <2>4. wanted' \in BOOLEAN /\ (wanted' => wanted) BY <1>3, <2>3, StopSelfTyped
  <2> QED BY <1>1, <1>2, <1>4, <1>5, <2>1, <2>2, <2>4
<1>6. CASE \/ StartFails(i) \/ LibboxReported(i)
           \/ XrayExited(i) /\ svc[i].process = Session(i) /\ ~svc[i].expected
  <2>1. Failed(i, svc[i], svc'[i]) BY <1>6, Failures
  <2>2. wanted' \in BOOLEAN /\ (wanted' => wanted) BY <1>3, <2>1, StopSelfTyped DEF Failed
  <2>3. /\ svc'[i].state = svc[i].state
        /\ odd \subseteq odd' /\ odd' \subseteq odd \cup {"stale", "unprotected"}
    BY <2>1 DEF Failed
  <2>4. /\ svc' \in [Instances -> ServiceSet]
        /\ \A j \in Instances \ {i} : svc'[j] = svc[j]
    BY <1>6, Failures
  <2> QED BY <1>1, <1>2, <1>4, <2>2, <2>3, <2>4
<1> QED BY <1>5, <1>6, Effects

-----------------------------------------------------------------------------
(* Types.                                                                  *)
LEMMA Acts ==
  ASSUME TypeOK, InstancesOK, NEW i \in Instances, Executor(i)
  PROVE  svc[i].state # "none" /\ i \in 1 .. made /\ made \in Nat
<1>1. svc[i] # Fresh
  <2>1. svc[i].queue # <<>> \/ svc[i].at # "begin"
    BY DEF Executor, StartRuntime, StartXrayProcess, StartHevTunToSocksBridge,
      StartLibboxService, ConnectCommandClient, MarkConnected, StartFails, StopRuntime,
      StopEnds, KillswitchOn, KillswitchOff, XrayExited, LibboxReported, LibboxIgnored,
      ResetForStart, InstallBlackholeTun, FailureStops, Begins, At
  <2> QED BY <2>1 DEF Fresh
<1>2. svc[i].state # "none" BY <1>1 DEF InstancesOK, InstanceOK, JobOK
<1>3. made \in Nat /\ i \in Nat /\ i >= 1 BY Bounds DEF TypeOK, Instances
<1>4. ~(i > made) BY <1>2 DEF TypeOK
<1> QED BY <1>2, <1>3, <1>4

(* The tasks that wait after one has been taken.                           *)
LEMMA Rest ==
  ASSUME NEW q \in Seq(Tasks), q # <<>>
  PROVE  /\ \A n \in DOMAIN Tail(q) : n + 1 \in DOMAIN q /\ Tail(q)[n] = q[n + 1]
         /\ 1 \in DOMAIN q /\ Head(q) = q[1] /\ Head(q) \in Tasks
         /\ Tail(q) \in Seq(Tasks)
OBVIOUS

(* A task leaves its instance well-formed.                                 *)
LEMMA InstanceStep ==
  ASSUME NEW i, NEW s \in ServiceSet, NEW n, s = svc[i], InstanceOK(s), s.state # "none",
         Effect(i, s, n) \/ Failed(i, s, n)
  PROVE  InstanceOK(n)
<1>1. s.queue \in Seq(Tasks) /\ s.job \in Tasks BY DEF ServiceSet
<1>2. n.queue = s.queue \/ (s.queue # <<>> /\ n.queue = Tail(s.queue))
  BY DEF Effect, Starting, Resets, Blocks, Stops, Launches, Bridges, Ends, Switched, Ignores, Takes,
    Failed, Failing, XrayExited, LibboxReported, Begins
<1>3. QueueOK(n.queue)
  <2>1. QueueOK(s.queue) BY DEF InstanceOK
  <2>2. s.queue # <<>> => QueueOK(Tail(s.queue)) BY <1>1, <2>1, Rest DEF QueueOK
  <2> QED BY <1>2, <2>1, <2>2
<1>4. JobOK(s) /\ CoresOK(s) BY DEF InstanceOK
<1>5. s.queue # <<>> => Head(s.queue) \in Tasks /\ QueueOK(s.queue) /\ 1 \in DOMAIN s.queue
                          /\ Head(s.queue) = s.queue[1]
  BY <1>1, Rest DEF InstanceOK
<1>6. CASE n.state = s.state /\ Starting(i, s, n)
  <2>1. /\ n.state = s.state /\ n.queue = Tail(s.queue) /\ n.job = Head(s.queue)
        /\ n.at = "reset" /\ n.server = 0 /\ n.process = 0 /\ ~n.bridge
        /\ s.queue # <<>> /\ Head(s.queue).op = "start"
    BY <1>6 DEF Effect, Starting, Takes
  <2>2. Head(s.queue).session \in Sent BY <1>5, <2>1 DEF QueueOK
  <2>3. JobOK(n) BY <1>4, <2>1, <2>2 DEF JobOK, Startup, NoTask, Task
  <2>4. CoresOK(n) BY <2>1 DEF CoresOK, Owned
  <2> QED BY <1>3, <2>3, <2>4 DEF InstanceOK
<1>7. CASE n.state = s.state /\ Stops(i, s, n)
  <2>1. /\ n.state = s.state /\ n.queue = Tail(s.queue) /\ n.job = Head(s.queue)
        /\ n.at = "stopSelf" /\ n.server = 0 /\ n.process = 0 /\ ~n.bridge
        /\ s.queue # <<>> /\ Head(s.queue).op = "stop"
    BY <1>7 DEF Effect, Stops, Takes
  <2>2. JobOK(n) BY <1>4, <2>1 DEF JobOK, Startup, NoTask, Task
  <2>3. CoresOK(n) BY <2>1 DEF CoresOK, Owned
  <2> QED BY <1>3, <2>2, <2>3 DEF InstanceOK
<1>8. CASE n.state = s.state /\ Launches(i, s, n)
  <2>1. /\ n.state = s.state /\ n.queue = s.queue /\ n.job = s.job /\ n.at = "bridge"
        /\ s.at = "core"
        /\ \/ core[s.job.session] = "xray" /\ n.process = s.job.session /\ n.server = s.server
           \/ core[s.job.session] = "singBox" /\ n.server = s.job.session /\ n.process = s.process
    BY <1>8 DEF Launches, SameCores
  <2>2. s.job.op = "start" /\ s.job.session \in Sent /\ s.server = 0 /\ s.process = 0
    BY <1>4, <2>1, OwnedTyped DEF JobOK, CoresOK, Startup
  <2>3. JobOK(n) BY <1>4, <2>1, <2>2 DEF JobOK, Startup, NoTask, Task
  <2>4. CoresOK(n) BY <2>1, <2>2 DEF CoresOK
  <2> QED BY <1>3, <2>3, <2>4 DEF InstanceOK
<1>9. CASE n.state = s.state /\ Bridges(i, s, n)
  <2>1. /\ n.state = s.state /\ n.queue = s.queue /\ n.job = s.job /\ n.at = "mark"
        /\ s.at = "bridge" /\ n.server = s.server /\ n.process = s.process
    BY <1>9 DEF Bridges, SameCores
  <2>2. JobOK(n) BY <1>4, <2>1 DEF JobOK, Startup
  <2>3. CoresOK(n) BY <1>4, <2>1 DEF CoresOK
  <2> QED BY <1>3, <2>2, <2>3 DEF InstanceOK
<1>10. CASE n.state = s.state /\ (Ends(i, s, n) \/ Blocks(i, s, n))
  <2>1. /\ n.state = s.state /\ n.queue = s.queue /\ n.job = NoTask /\ n.at = "begin"
        /\ n.server = s.server /\ n.process = s.process
    BY <1>10 DEF Ends, Blocks, SameCores
  <2>2. n.job.op = "none" BY <2>1 DEF NoTask, Task
  <2>3. JobOK(n) BY <1>4, <2>1, <2>2 DEF JobOK, Startup
  <2>4. CoresOK(n) BY <1>4, <2>1 DEF CoresOK
  <2> QED BY <1>3, <2>3, <2>4 DEF InstanceOK
<1>11. CASE n.state = s.state /\ (Switched(i, s, n) \/ Ignores(i, s, n))
  <2>1. /\ n.state = s.state /\ n.queue = Tail(s.queue) /\ n.job = s.job /\ n.at = s.at
        /\ n.server = s.server /\ (n.process = s.process \/ n.process = 0)
        /\ s.queue # <<>> /\ s.job = NoTask
    BY <1>11 DEF Switched, Ignores, Takes, SameTask, SameCores
  <2>2. JobOK(n) BY <1>4, <2>1 DEF JobOK, Startup, NoTask, Task
  <2>3. s.at = "begin" BY <1>4, <2>1 DEF JobOK
  <2>4. CoresOK(n) BY <1>4, <2>1, <2>3 DEF CoresOK
  <2> QED BY <1>3, <2>2, <2>4 DEF InstanceOK
<1>12. CASE Failed(i, s, n)
  <2>1. n.state = s.state /\ Owned(n) = {} /\ ~n.bridge /\ n.server = 0 /\ n.process = 0
    BY <1>12 DEF Failed
  <2>2. /\ n.at = "handle"
        /\ \/ s.at \in {"core", "bridge"} /\ n.queue = s.queue /\ n.job = s.job
           \/ /\ s.queue # <<>> /\ n.queue = Tail(s.queue) /\ n.job = Head(s.queue)
              /\ Head(s.queue).op \in Reports
    BY <1>12 DEF Failed, Failing, XrayExited, LibboxReported, Begins, Reports
  <2>3. s.at \in {"core", "bridge"} => s.job.op = "start" /\ s.job.session \in Sent
    BY <1>4 DEF JobOK, Startup
  <2>4. JobOK(n)
    <3>1. n.job.op = "start" \/ n.job.op \in Reports BY <2>2, <2>3
    <3>2. n.job # NoTask /\ n.job.op # "stop" BY <3>1 DEF NoTask, Task, Reports
    <3>3. n.job.op = "start" => n.job.session \in Sent BY <2>2, <2>3 DEF Reports
    <3>4. s.state = "gone" => n.queue = <<>> BY <1>4, <2>2 DEF JobOK
    <3> QED BY <2>1, <2>2, <3>2, <3>3, <3>4 DEF JobOK, Startup
  <2>5. CoresOK(n) BY <2>1 DEF CoresOK
  <2> QED BY <1>3, <2>4, <2>5 DEF InstanceOK
<1>13. CASE n.state = s.state /\ Resets(i, s, n)
  <2>1. /\ n.state = s.state /\ n.queue = s.queue /\ n.job = s.job /\ n.at = "core"
        /\ s.at = "reset" /\ n.server = s.server /\ n.process = s.process
        /\ n.bridge = s.bridge
    BY <1>13 DEF Resets, SameCores
  <2>2. JobOK(n) BY <1>4, <2>1 DEF JobOK, Startup
  <2>3. CoresOK(n) BY <1>4, <2>1 DEF CoresOK, Owned
  <2> QED BY <1>3, <2>2, <2>3 DEF InstanceOK
<1> QED BY <1>6, <1>7, <1>8, <1>9, <1>10, <1>11, <1>12, <1>13 DEF Effect

(* So does a step of the executor.                                         *)
LEMMA ExecutorInstance ==
  ASSUME TypeOK, InstancesOK, IfaceOK, NEW i \in Instances, Executor(i)
  PROVE  /\ InstanceOK(svc'[i])
         /\ svc'[i].server = 0 \/ svc'[i].process = 0
         /\ svc'[i].job = NoTask <=> svc'[i].at = "begin"
<1>1. svc[i] \in ServiceSet /\ InstanceOK(svc[i]) /\ svc[i].state # "none"
  BY InstanceTyped, Acts DEF InstancesOK
<1>2. Effect(i, svc[i], svc'[i]) \/ Failed(i, svc[i], svc'[i]) BY Effects, Failures
<1>3. InstanceOK(svc'[i]) BY <1>1, <1>2, InstanceStep
<1> QED BY <1>3 DEF InstanceOK, JobOK, CoresOK

(* What a task writes to the store, the interface and the cores has its    *)
(* type.                                                                   *)
LEMMA ExecutorStore ==
  ASSUME TypeInv, NEW i \in Instances, Executor(i)
  PROVE  /\ phase' \in {"disconnected", "connecting", "connected", "error"}
         /\ IfaceOK'
         /\ live' \subseteq Sent /\ notices' \subseteq NoticeSet /\ NoticesOK'
<1> DEFINE s == svc[i]
           n == svc'[i]
<1>1. TypeOK /\ InstancesOK /\ IfaceOK /\ NoticesOK BY DEF TypeInv
<1>2. s \in ServiceSet /\ InstanceOK(s) BY <1>1, InstanceTyped DEF InstancesOK
<1>3. i \in 1 .. made /\ i # 0 BY <1>1, Acts
<1>4. core' = core /\ made' = made BY <1>1, ExecutorFrame
<1>5. Effect(i, s, n) \/ Failed(i, s, n) BY <1>1, Effects, Failures
<1>6. Sent' = Sent BY <1>4 DEF Sent
<1>7. Owned(s) \subseteq Sent BY <1>2, OwnedTyped DEF InstanceOK, CoresOK
<1>8. live \subseteq Sent /\ notices \subseteq NoticeSet
  BY <1>1 DEF TypeOK, Sent, NoticeSet
<1> HIDE DEF s, n
<1>9. phase' \in {"disconnected", "connecting", "connected", "error"}
  <2>1. phase \in {"disconnected", "connecting", "connected", "error"} BY <1>1 DEF TypeOK
  <2> QED
    BY <1>5, <2>1 DEF Effect, Starting, Resets, Blocks, Stops, Launches, Bridges, Ends, Switched,
      Ignores, Failed
<1>10. IfaceOK'
  <2>1. \/ iface' = iface \/ iface' = NoIface \/ iface' = Iface("tun", i) \/ iface' = Iface("hole", i)
    BY <1>5 DEF Effect, Starting, Resets, Blocks, Stops, Launches, Bridges, Ends, Switched, Ignores,
      Failed, Closing
  <2>2. IfaceOK BY <1>1
  <2>3. made \in Nat BY <1>1, Acts
  <2>4. CASE iface' = iface BY <1>4, <2>2, <2>4 DEF IfaceOK
  <2>5. CASE iface' = NoIface BY <1>4, <2>3, <2>5 DEF IfaceOK, Iface, NoIface
  <2>6. CASE iface' = Iface("tun", i) BY <1>3, <1>4, <2>6 DEF IfaceOK, Iface, NoIface
  <2>7. CASE iface' = Iface("hole", i) BY <1>3, <1>4, <2>7 DEF IfaceOK, Iface, NoIface
  <2> QED BY <2>1, <2>4, <2>5, <2>6, <2>7
<1>11. live' \subseteq Sent /\ notices' \subseteq NoticeSet /\ NoticesOK'
  <2>1. CASE StopActiveRuntime(i)
    BY <1>1, <1>6, <1>7, <1>8, <2>1, StopTyped DEF NoticesOK, s
  <2>2. CASE Launches(i, s, n)
    <3>1. s.job.session \in Sent BY <1>2, <2>2 DEF Launches, InstanceOK, JobOK, Startup
    <3> QED BY <1>1, <1>6, <1>8, <2>2, <3>1 DEF Launches, NoticesOK
  <2>3. CASE live' = live /\ notices' = notices
    BY <1>1, <1>6, <1>8, <2>3 DEF NoticesOK
  <2> QED
    BY <1>5, <2>1, <2>2, <2>3 DEF Effect, Starting, Resets, Blocks, Stops, Bridges, Ends, Switched,
      Ignores, Failed
<1> QED BY <1>9, <1>10, <1>11

(* Nothing of what the messages say changes with the states of instances.  *)
LEMMA SameMain ==
  ASSUME TypeOK, MainOK, OneUp, SentOK, main' = main, record' = record, made' = made,
         stops' = stops, core' = core,
         \A j \in Instances : svc'[j].state = svc[j].state
  PROVE  MainOK' /\ OneUp' /\ SentOK'
<1>1. Sent' = Sent BY DEF Sent
<1>2. Up' = Up BY DEF Up
<1>3. \A j \in Instances : Gone(j)' <=> Gone(j) BY DEF Gone
<1>4. \A op, j : InMain(op, j)' <=> InMain(op, j) BY DEF InMain
<1>5. \A k, op, j : Before(k, op, j)' <=> Before(k, op, j) BY DEF Before
<1>6. \A j \in Instances : Created(j)' <=> Created(j) BY DEF Created
<1>7. OneUp' /\ SentOK' BY <1>1, <1>2 DEF OneUp, SentOK
<1>8. ASSUME NEW k \in DOMAIN main PROVE MessageOK(k)'
  <2>1. MessageOK(k) /\ main[k].to \in Instances
    BY MainTyped DEF MainOK
  <2>2. main'[k] = main[k] OBVIOUS
  <2> QED BY <1>1, <1>3, <1>5, <1>6, <2>1, <2>2 DEF MessageOK
<1>9. OneAfterAnother' BY <1>3, <1>4, <1>6 DEF MainOK, OneAfterAnother
<1>10. RecordOK'
  <2>1. record # 0 => record \in Instances BY MainTyped
  <2> QED BY <1>3, <1>4, <1>6, <2>1 DEF MainOK, RecordOK
<1> QED BY <1>7, <1>8, <1>9, <1>10 DEF MainOK

(* The executors keep the type invariant.                                  *)
LEMMA ExecutorType ==
  ASSUME TypeInv, NEW i \in Instances, Executor(i)
  PROVE  TypeInv'
<1>1. TypeOK /\ MainOK /\ OneUp /\ SentOK /\ InstancesOK /\ NoticesOK /\ IfaceOK
  BY DEF TypeInv
<1>2. /\ pref' = pref /\ main' = main /\ record' = record /\ made' = made
      /\ core' = core /\ stops' = stops /\ toggles' = toggles
      /\ svc' \in [Instances -> ServiceSet]
      /\ \A j \in Instances \ {i} : svc'[j] = svc[j]
      /\ svc'[i].state = svc[i].state
      /\ wanted' \in BOOLEAN /\ odd' \subseteq Orders
  BY <1>1, ExecutorFrame
<1>3. \A j \in Instances : svc'[j].state = svc[j].state BY <1>2
<1>4. MainOK' /\ OneUp' /\ SentOK' BY <1>1, <1>2, <1>3, SameMain
<1>5. Sent' = Sent BY <1>2 DEF Sent
<1>6. /\ InstanceOK(svc'[i])
      /\ svc'[i].server = 0 \/ svc'[i].process = 0
      /\ svc'[i].job = NoTask <=> svc'[i].at = "begin"
  BY <1>1, ExecutorInstance
<1>7. InstancesOK'
  <2>1. \A j \in Instances : InstanceOK(svc'[j]) BY <1>1, <1>2, <1>6 DEF InstancesOK
  <2> QED BY <1>2, <1>5, <2>1 DEF InstancesOK, InstanceOK, QueueOK, JobOK, CoresOK
<1>8. /\ phase' \in {"disconnected", "connecting", "connected", "error"}
      /\ IfaceOK' /\ live' \subseteq Sent /\ notices' \subseteq NoticeSet /\ NoticesOK'
  BY ExecutorStore
<1>9. TypeOK'
  <2>1. \A j \in Instances :
          /\ svc'[j].server = 0 \/ svc'[j].process = 0
          /\ svc'[j].job = NoTask <=> svc'[j].at = "begin"
    BY <1>1, <1>2, <1>6 DEF TypeOK
  <2>2. \A j \in Instances :
          svc'[j].state = "none" <=>
            j > made' \/ Message("create", j, 0) \in {main'[k] : k \in DOMAIN main'}
    BY <1>1, <1>2, <1>3 DEF TypeOK
  <2>3. iface'.kind \in {"none", "tun", "hole"} /\ iface'.by \in 0 .. made'
    BY <1>8 DEF IfaceOK
  <2>4. live' \subseteq {s \in Sessions : core'[s] # "none"} BY <1>2, <1>8 DEF Sent
  <2> QED BY <1>1, <1>2, <1>8, <2>1, <2>2, <2>3, <2>4 DEF TypeOK, ServiceSet, NoticeSet
<1> QED BY <1>4, <1>7, <1>8, <1>9 DEF TypeInv

(* The message that is handled is the first.                               *)
LEMMA First ==
  ASSUME TypeOK, MainOK, NEW op, Handles(op)
  PROVE  /\ main # <<>> /\ Head(main) = main[1] /\ main[1].op = op
         /\ 1 \in DOMAIN main /\ MessageOK(1) /\ main[1].to \in Instances
         /\ main[1].to \in 1 .. made
         /\ main[1] \in Messages
         /\ main' = Tail(main)
         /\ op # "create" => Created(main[1].to)
         /\ op = "create" => /\ main[1] = Message("create", main[1].to, 0)
                             /\ ~Created(main[1].to)
                             /\ \A i \in Instances : i < main[1].to => Gone(i)
<1>1. main \in Seq(Messages) /\ main # <<>> /\ main' = Tail(main) /\ Head(main).op = op
  BY MainTyped DEF Handles
<1>2. Head(main) = main[1] /\ 1 \in DOMAIN main /\ main[1] \in Messages BY <1>1
<1>3. MessageOK(1) /\ main[1].to \in Instances BY <1>2, MainTyped DEF MainOK
<1>4. \A o, i : ~Before(1, o, i) BY MainTyped DEF Before
<1>5. op # "create" => Created(main[1].to) BY <1>1, <1>2, <1>3, <1>4 DEF MessageOK
<1>6. ASSUME op = "create"
      PROVE  /\ main[1] = Message("create", main[1].to, 0)
             /\ ~Created(main[1].to)
             /\ \A i \in Instances : i < main[1].to => Gone(i)
  <2>1. main[1].op = "create" /\ main[1].session = 0
    BY <1>1, <1>2, <1>3, <1>6 DEF MessageOK
  <2>2. main[1] = Message("create", main[1].to, 0)
    BY <1>2, <2>1 DEF Messages, Message
  <2>3. svc[main[1].to].state = "none" BY <1>2, <1>3, <2>2 DEF TypeOK
  <2> QED BY <1>3, <1>4, <2>1, <2>2, <2>3 DEF Created, MessageOK
<1> QED BY <1>1, <1>2, <1>3, <1>5, <1>6 DEF MessageOK

(* What is true of the messages when the first has been handled.           *)
LEMMA Popped ==
  ASSUME TypeOK, MainOK, main # <<>>, main' = Tail(main), record' = record,
         made' = made, core' = core,
         \A j \in Instances :
           /\ Created(j)' <=> Created(j) \/ (main[1].op = "create" /\ main[1].to = j)
           /\ Gone(j)' <=> Gone(j) \/ (main[1].op = "destroy" /\ main[1].to = j)
  PROVE  /\ MainOK'
         /\ \A j \in Instances :
              (j > made \/ Message("create", j, 0) \in {main[k] : k \in DOMAIN main})
                /\ ~(main[1].op = "create" /\ main[1].to = j)
              <=> j > made' \/ Message("create", j, 0) \in {main'[k] : k \in DOMAIN main'}
<1>1. /\ main \in Seq(Messages) /\ Len(main) \in Nat /\ DOMAIN main = 1 .. Len(main)
      /\ \A n \in DOMAIN main : main[n].to \in Instances
      /\ Instances \subseteq Nat \ {0} /\ made \in Nat
  BY MainTyped
<1>2. /\ DOMAIN main' = 1 .. Len(main) - 1
      /\ \A n \in DOMAIN main' : n + 1 \in DOMAIN main /\ main'[n] = main[n + 1]
      /\ 1 \in DOMAIN main
      /\ \A n \in DOMAIN main : n = 1 \/ (n - 1 \in DOMAIN main' /\ main'[n - 1] = main[n])
  BY <1>1, TailAt
<1>3. Sent' = Sent BY DEF Sent
<1>4. \A op, i : InMain(op, i) <=> InMain(op, i)' \/ (main[1].op = op /\ main[1].to = i)
  <2>1. SUFFICES ASSUME NEW op, NEW i
                 PROVE  InMain(op, i) <=> InMain(op, i)' \/ (main[1].op = op /\ main[1].to = i)
    OBVIOUS
  <2>2. ASSUME NEW m \in DOMAIN main, main[m].op = op, main[m].to = i, m # 1
        PROVE  InMain(op, i)'
    <3>1. m - 1 \in DOMAIN main' /\ main'[m - 1] = main[m] BY <1>2, <2>2
    <3> QED BY <2>2, <3>1 DEF InMain
  <2>3. ASSUME NEW m \in DOMAIN main', main'[m].op = op, main'[m].to = i
        PROVE  InMain(op, i)
    <3>1. m + 1 \in DOMAIN main /\ main[m + 1] = main'[m] BY <1>2
    <3> QED BY <2>3, <3>1 DEF InMain
  <2> QED BY <1>2, <2>2, <2>3 DEF InMain
<1>5. \A k \in DOMAIN main' : \A op, i :
         Before(k + 1, op, i) <=> Before(k, op, i)' \/ (main[1].op = op /\ main[1].to = i)
  <2>1. SUFFICES ASSUME NEW k \in DOMAIN main', NEW op, NEW i
                 PROVE  Before(k + 1, op, i) <=>
                          Before(k, op, i)' \/ (main[1].op = op /\ main[1].to = i)
    OBVIOUS
  <2>2. ASSUME NEW m \in DOMAIN main, m < k + 1, main[m].op = op, main[m].to = i, m # 1
        PROVE  Before(k, op, i)'
    <3>1. m - 1 \in DOMAIN main' /\ main'[m - 1] = main[m] /\ m - 1 < k
      BY <1>1, <1>2, <2>2
    <3> QED BY <2>2, <3>1 DEF Before
  <2>3. ASSUME NEW m \in DOMAIN main', m < k, main'[m].op = op, main'[m].to = i
        PROVE  Before(k + 1, op, i)
    <3>1. m + 1 \in DOMAIN main /\ main[m + 1] = main'[m] /\ m + 1 < k + 1
      BY <1>1, <1>2, <2>3
    <3> QED BY <2>3, <3>1 DEF Before
  <2>4. 1 < k + 1 BY <1>2
  <2> QED BY <1>2, <2>2, <2>3, <2>4 DEF Before
<1>6. \A n \in DOMAIN main : MessageOK(n) BY DEF MainOK
<1>7. ASSUME NEW k \in DOMAIN main' PROVE MessageOK(k)'
  <2>1. k + 1 \in DOMAIN main /\ main'[k] = main[k + 1] /\ MessageOK(k + 1)
    BY <1>2, <1>6
  <2>2. main'[k].to \in 1 .. made' BY <2>1 DEF MessageOK
  <2>3. ASSUME main'[k].op = "create"
        PROVE  /\ main'[k].session = 0
               /\ \A i \in Instances : i < main'[k].to => Gone(i)' \/ Before(k, "destroy", i)'
               /\ \A m \in DOMAIN main' :
                    main'[m].op = "create" /\ main'[m].to = main'[k].to => m = k
    <3>1. main'[k].session = 0 BY <2>1, <2>3 DEF MessageOK
    <3>2. \A i \in Instances : i < main'[k].to => Gone(i)' \/ Before(k, "destroy", i)'
      BY <1>5, <2>1, <2>3 DEF MessageOK
    <3>3. ASSUME NEW m \in DOMAIN main', main'[m].op = "create", main'[m].to = main'[k].to
          PROVE  m = k
      <4>1. m + 1 \in DOMAIN main /\ main'[m] = main[m + 1] BY <1>2
      <4>2. m + 1 = k + 1 BY <2>1, <2>3, <3>3, <4>1 DEF MessageOK
      <4> QED BY <1>1, <1>2, <4>2
    <3> QED BY <3>1, <3>2, <3>3
  <2>4. (main[k].op # "create" => Created(main[k].to) \/ Before(k, "create", main[k].to))'
    <3>1. PICK j \in Instances : j = main[k + 1].to BY <1>1, <2>1
    <3>2. main[k + 1].op # "create" => Created(j) \/ Before(k + 1, "create", j)
      BY <2>1, <3>1 DEF MessageOK
    <3>3. main'[k].op # "create" => Created(j)' \/ Before(k, "create", j)'
      BY <1>5, <2>1, <3>1, <3>2
    <3> QED BY <2>1, <3>1, <3>3 DEF Created, Before
  <2>5. main'[k].op = "start" => main'[k].session \in Sent' BY <1>3, <2>1 DEF MessageOK
  <2> QED BY <2>2, <2>3, <2>4, <2>5 DEF MessageOK
<1>8. MessageOK(1) /\ \A op, i : ~Before(1, op, i) BY <1>1, <1>2, <1>6 DEF Before
<1>9. \A j \in Instances : Gone(j) => Created(j) BY DEF Gone, Created
<1>10. OneAfterAnother'
  <2>1. OneAfterAnother BY DEF MainOK
  <2>2. ASSUME NEW i \in Instances, NEW j \in Instances, i < j, Created(j)'
        PROVE  Created(i)'
    <3>1. CASE Created(j) BY <2>1, <2>2, <3>1 DEF OneAfterAnother
    <3>2. CASE main[1].op = "create" /\ main[1].to = j
      BY <1>8, <1>9, <2>2, <3>2 DEF MessageOK
    <3> QED BY <2>2, <3>1, <3>2
  <2>3. \A i \in Instances : i <= made' /\ i # record' => Gone(i)' \/ InMain("destroy", i)'
    BY <1>4, <2>1 DEF OneAfterAnother
  <2> QED BY <2>2, <2>3 DEF OneAfterAnother
<1>11. RecordOK'
  <2>1. RecordOK BY DEF MainOK
  <2>2. CASE record = 0 BY <2>1, <2>2 DEF RecordOK
  <2>3. CASE record # 0
    <3>1. record \in Instances BY <2>3, MainTyped
    <3>2. ~Gone(record)' /\ ~InMain("destroy", record)'
      BY <1>4, <2>1, <2>3, <3>1 DEF RecordOK
    <3>3. Created(record)' \/ InMain("start", record)' \/ InMain("stop", record)'
      BY <1>4, <1>8, <2>1, <2>3, <3>1 DEF RecordOK, MessageOK
    <3> QED BY <2>1, <3>2, <3>3 DEF RecordOK
  <2> QED BY <2>2, <2>3
<1>12. ASSUME NEW j \in Instances
       PROVE  (j > made \/ Message("create", j, 0) \in {main[k] : k \in DOMAIN main})
                /\ ~(main[1].op = "create" /\ main[1].to = j)
              <=> j > made' \/ Message("create", j, 0) \in {main'[k] : k \in DOMAIN main'}
  <2>1. ASSUME NEW k \in DOMAIN main, main[k] = Message("create", j, 0),
               ~(main[1].op = "create" /\ main[1].to = j)
        PROVE  Message("create", j, 0) \in {main'[n] : n \in DOMAIN main'}
    <3>1. k # 1 BY <2>1 DEF Message
    <3> QED BY <1>2, <2>1, <3>1
  <2>2. ASSUME NEW k \in DOMAIN main', main'[k] = Message("create", j, 0)
        PROVE  /\ Message("create", j, 0) \in {main[n] : n \in DOMAIN main}
               /\ ~(main[1].op = "create" /\ main[1].to = j)
    <3>1. k + 1 \in DOMAIN main /\ main[k + 1] = main'[k] /\ k + 1 # 1 BY <1>1, <1>2
    <3>2. main[k + 1].op = "create" /\ main[k + 1].to = j BY <2>2, <3>1 DEF Message
    <3>3. ~(main[1].op = "create" /\ main[1].to = j)
      BY <1>2, <1>6, <3>1, <3>2 DEF MessageOK
    <3> QED BY <2>2, <3>1, <3>3
  <2>3. j > made => ~(main[1].op = "create" /\ main[1].to = j)
    BY <1>1, <1>8 DEF MessageOK
  <2> QED BY <2>1, <2>2, <2>3
<1> QED BY <1>7, <1>10, <1>11, <1>12 DEF MainOK

(* What is true of the messages when others have been put after them.      *)
LEMMA Extended ==
  ASSUME TypeOK, MainOK, made' \in Nat, made <= made', Sent \subseteq Sent',
         \A j \in Instances : (Created(j)' <=> Created(j)) /\ (Gone(j)' <=> Gone(j)),
         \A k \in DOMAIN main : k \in DOMAIN main' /\ main'[k] = main[k],
         \A k \in DOMAIN main' : k \in Nat /\ (k \notin DOMAIN main => k > Len(main)),
         \A k \in DOMAIN main' \ DOMAIN main : main'[k].op = "create" => main'[k].to > made
  PROVE  /\ \A k \in DOMAIN main : MessageOK(k)'
         /\ \A op, j : InMain(op, j) => InMain(op, j)'
         /\ \A k \in DOMAIN main' \ DOMAIN main : \A op, j :
              InMain(op, j) => Before(k, op, j)'
<1>1. /\ Len(main) \in Nat /\ DOMAIN main = 1 .. Len(main) /\ made \in Nat
      /\ \A n \in DOMAIN main : main[n].to \in Instances
      /\ Instances \subseteq Nat \ {0}
  BY MainTyped
<1>2. \A k \in DOMAIN main : \A op, j : Before(k, op, j)' <=> Before(k, op, j)
  <2>1. ASSUME NEW k \in DOMAIN main, NEW m \in DOMAIN main', m < k PROVE m \in DOMAIN main
    BY <1>1, <2>1
  <2> QED BY <2>1 DEF Before
<1>3. ASSUME NEW k \in DOMAIN main PROVE MessageOK(k)'
  <2>1. MessageOK(k) /\ main'[k] = main[k] BY DEF MainOK
  <2>2. main'[k].to \in 1 .. made' BY <1>1, <2>1 DEF MessageOK
  <2>3. ASSUME main'[k].op = "create"
        PROVE  /\ main'[k].session = 0
               /\ \A i \in Instances : i < main'[k].to => Gone(i)' \/ Before(k, "destroy", i)'
               /\ \A m \in DOMAIN main' :
                    main'[m].op = "create" /\ main'[m].to = main'[k].to => m = k
    <3>1. ASSUME NEW m \in DOMAIN main', main'[m].op = "create", main'[m].to = main'[k].to
          PROVE  m = k
      <4>1. main[k].to <= made /\ main[k].to \in Nat BY <1>1, <2>1 DEF MessageOK
      <4>2. m \in DOMAIN main BY <1>1, <2>1, <3>1, <4>1
      <4> QED BY <2>1, <2>3, <3>1, <4>2 DEF MessageOK
    <3> QED BY <1>2, <2>1, <2>3, <3>1 DEF MessageOK
  <2>4. (main[k].op # "create" => Created(main[k].to) \/ Before(k, "create", main[k].to))'
    <3>1. PICK j \in Instances : j = main[k].to BY <1>1
    <3>2. main[k].op # "create" => Created(j) \/ Before(k, "create", j)
      BY <2>1, <3>1 DEF MessageOK
    <3>3. main'[k].op # "create" => Created(j)' \/ Before(k, "create", j)'
      BY <1>2, <2>1, <3>2
    <3> QED BY <2>1, <3>1, <3>3 DEF Created, Before
  <2>5. main'[k].op = "start" => main'[k].session \in Sent' BY <2>1 DEF MessageOK
  <2> QED BY <2>2, <2>3, <2>4, <2>5 DEF MessageOK
<1>4. \A op, j : InMain(op, j) => InMain(op, j)' BY DEF InMain
<1>5. ASSUME NEW k \in DOMAIN main' \ DOMAIN main, NEW op, NEW j, InMain(op, j)
      PROVE  Before(k, op, j)'
  <2>1. PICK m \in DOMAIN main : main[m].op = op /\ main[m].to = j BY <1>5 DEF InMain
  <2>2. m < k /\ m \in DOMAIN main' /\ main'[m] = main[m] BY <1>1, <2>1
  <2> QED BY <2>1, <2>2 DEF Before
<1> QED BY <1>3, <1>4, <1>5

(* An intent reaches the instance there is, or makes one.                  *)
LEMMA IntentMain ==
  ASSUME TypeOK, MainOK, NEW op \in {"start", "stop"}, NEW s \in 0 .. MaxStarts,
         SendIntent(op, s), svc' = svc, Sent \subseteq Sent', op = "start" => s \in Sent',
         made + 1 \in Instances
  PROVE  /\ MainOK' /\ main' \in Seq(Messages) /\ made' \in {made, made + 1}
         /\ record' # 0 /\ record' = made'
         /\ \A j \in Instances :
              j > made \/ Message("create", j, 0) \in {main[k] : k \in DOMAIN main}
              <=> j > made' \/ Message("create", j, 0) \in {main'[k] : k \in DOMAIN main'}
<1>1. /\ main \in Seq(Messages) /\ Len(main) \in Nat /\ DOMAIN main = 1 .. Len(main)
      /\ made \in Nat /\ record \in Nat /\ Instances \subseteq Nat \ {0}
      /\ \A i \in 1 .. made : i \in Instances
      /\ record # 0 => record \in Instances /\ record \in 1 .. made
  BY MainTyped
<1>2. /\ \A k \in DOMAIN main : MessageOK(k)
      /\ OneAfterAnother /\ RecordOK
  BY DEF MainOK
<1>3. \A j \in Instances : (Created(j)' <=> Created(j)) /\ (Gone(j)' <=> Gone(j))
  BY DEF Created, Gone
<1>4. CASE record # 0
  <2>1. PICK j \in Instances : j = record BY <1>1, <1>4
  <2>2. PICK x \in Messages : x = Message(op, j, s) BY DEF Message, Messages
  <2>3. PICK last \in Nat : last = Len(main) + 1 BY <1>1
  <2>4. main' = Append(main, x) /\ record' = record /\ made' = made
    BY <1>4, <2>1, <2>2 DEF SendIntent
  <2>5. x.op = op /\ x.to = j /\ x.session = s BY <2>2 DEF Message
  <2>6. /\ main' \in Seq(Messages) /\ DOMAIN main' = 1 .. last
        /\ \A k \in DOMAIN main : main'[k] = main[k]
        /\ main'[last] = x
    BY <1>1, <2>3, <2>4
  <2>7. /\ \A k \in DOMAIN main : k \in DOMAIN main'
        /\ \A k \in DOMAIN main' : k \in Nat /\ (k \notin DOMAIN main => k > Len(main) /\ k = last)
        /\ last \in DOMAIN main' \ DOMAIN main
    BY <1>1, <2>3, <2>6
  <2>8. /\ \A k \in DOMAIN main : MessageOK(k)'
        /\ \A o, i : InMain(o, i) => InMain(o, i)'
        /\ \A k \in DOMAIN main' \ DOMAIN main : \A o, i : InMain(o, i) => Before(k, o, i)'
    <3>1. made' \in Nat /\ made <= made' BY <1>1, <2>4
    <3>2. \A k \in DOMAIN main' \ DOMAIN main : main'[k].op # "create"
      BY <2>5, <2>6, <2>7
    <3> QED BY <1>3, <2>6, <2>7, <3>1, <3>2, Extended
  <2>9. Created(j) \/ InMain("create", j)
    <3>1. Created(j) \/ \E k \in DOMAIN main : main[k] = Message("create", j, 0)
      <4>1. svc[j].state = "none" <=>
              j > made \/ Message("create", j, 0) \in {main[n] : n \in DOMAIN main}
        BY <1>1, <2>1, InstanceTyped
      <4> QED BY <1>1, <1>4, <2>1, <4>1 DEF Created
    <3> QED BY <3>1 DEF InMain, Message
  <2>10. Created(j)' \/ Before(last, "create", j)'
    <3>1. CASE Created(j) BY <1>3, <3>1
    <3>2. CASE InMain("create", j) BY <2>7, <2>8, <3>2
    <3> QED BY <2>9, <3>1, <3>2
  <2>11. \A k \in DOMAIN main' : MessageOK(k)'
    <3>1. MessageOK(last)'
      <4>1. /\ main'[last].op = op /\ main'[last].to = j
            /\ op = "start" => main'[last].session \in Sent'
        BY <2>5, <2>6
      <4>2. j \in 1 .. made' BY <1>1, <1>4, <2>1, <2>4
      <4> QED BY <2>10, <4>1, <4>2 DEF MessageOK, Created, Before
    <3> QED BY <2>7, <2>8, <3>1
  <2>12. OneAfterAnother' BY <1>2, <1>3, <2>4, <2>8 DEF OneAfterAnother
  <2>13. \A o : InMain(o, j)' <=> InMain(o, j) \/ o = op
    BY <2>5, <2>6, <2>7 DEF InMain
  <2>14. RecordOK'
    <3>1. ~Gone(j)' /\ ~InMain("destroy", j)' /\ (InMain("start", j)' \/ InMain("stop", j)')
      BY <1>2, <1>3, <1>4, <2>1, <2>13 DEF RecordOK
    <3> QED BY <1>2, <2>1, <2>4, <3>1 DEF RecordOK, Gone, InMain
  <2>15. \A i \in Instances :
              i > made \/ Message("create", i, 0) \in {main[k] : k \in DOMAIN main}
              <=> i > made' \/ Message("create", i, 0) \in {main'[k] : k \in DOMAIN main'}
    <3>1. \A i : x # Message("create", i, 0) BY <2>5 DEF Message
    <3>2. {main'[k] : k \in DOMAIN main'} = {main[k] : k \in DOMAIN main} \cup {x}
      BY <2>6, <2>7
    <3> QED BY <2>4, <3>1, <3>2
  <2> QED BY <1>2, <1>4, <2>4, <2>6, <2>11, <2>12, <2>14, <2>15 DEF MainOK, RecordOK
<1>5. CASE record = 0
  <2>1. PICK j \in Instances : j = made + 1 OBVIOUS
  <2>2. PICK x \in Messages : x = Message("create", j, 0)
    <3>1. j \in Instances /\ 0 \in 0 .. MaxStarts BY <2>1, Bounds
    <3>2. Message("create", j, 0) \in Messages BY <3>1 DEF Message, Messages
    <3> QED BY <3>2
  <2>3. PICK y \in Messages : y = Message(op, j, s) BY DEF Message, Messages
  <2>4. PICK one \in Nat : one = Len(main) + 1 BY <1>1
  <2>5. main' = main \o <<x, y>> /\ record' = j /\ made' = j
    BY <1>5, <2>1, <2>2, <2>3 DEF SendIntent
  <2>6. /\ x.op = "create" /\ x.to = j /\ x.session = 0
        /\ y.op = op /\ y.to = j /\ y.session = s
    BY <2>2, <2>3 DEF Message
  <2>7. /\ main' \in Seq(Messages) /\ DOMAIN main' = 1 .. one + 1
        /\ \A k \in DOMAIN main : main'[k] = main[k]
        /\ main'[one] = x /\ main'[one + 1] = y
    BY <1>1, <2>4, <2>5
  <2>8. /\ \A k \in DOMAIN main : k \in DOMAIN main'
        /\ \A k \in DOMAIN main' : k \in Nat /\ (k \notin DOMAIN main => k > Len(main))
        /\ \A k \in DOMAIN main' \ DOMAIN main : k = one \/ k = one + 1
        /\ {one, one + 1} \subseteq DOMAIN main' \ DOMAIN main
        /\ one < one + 1 /\ one # one + 1
    BY <1>1, <2>4, <2>7
  <2>9. j > made /\ j \in Nat /\ made <= j /\ j \in 1 .. j BY <1>1, <2>1
  <2>10. \A k \in DOMAIN main' \ DOMAIN main : main'[k].to = j
    BY <2>6, <2>7, <2>8
  <2>11. /\ \A k \in DOMAIN main : MessageOK(k)'
         /\ \A o, i : InMain(o, i) => InMain(o, i)'
         /\ \A k \in DOMAIN main' \ DOMAIN main : \A o, i : InMain(o, i) => Before(k, o, i)'
    BY <1>3, <2>5, <2>7, <2>8, <2>9, <2>10, Extended
  <2>12. \A k \in DOMAIN main : main'[k].to # j
    BY <1>1, <1>2, <2>7, <2>9 DEF MessageOK
  <2>13. MessageOK(one)'
    <3>1. \A i \in Instances : i < j => Gone(i)' \/ Before(one, "destroy", i)'
      <4>1. \A i \in Instances : i < j => i <= made /\ i # record
        BY <1>1, <1>5, <2>1
      <4> QED BY <1>2, <1>3, <2>8, <2>11, <4>1 DEF OneAfterAnother
    <3>2. \A m \in DOMAIN main' : main'[m].op = "create" /\ main'[m].to = j => m = one
      BY <2>6, <2>7, <2>8, <2>12
    <3>3. main'[one].op = "create" /\ main'[one].to = j /\ main'[one].session = 0
      BY <2>6, <2>7
    <3>4. j \in 1 .. made' BY <2>5, <2>9
    <3> QED BY <3>1, <3>2, <3>3, <3>4 DEF MessageOK
  <2>14. MessageOK(one + 1)'
    <3>1. PICK two \in Nat : two = one + 1 OBVIOUS
    <3>2. Before(two, "create", j)' BY <2>6, <2>7, <2>8, <3>1 DEF Before
    <3>3. /\ main'[two].op = op /\ main'[two].to = j
          /\ op = "start" => main'[two].session \in Sent'
      BY <2>6, <2>7, <3>1
    <3>4. j \in 1 .. made' BY <2>5, <2>9
    <3>5. MessageOK(two)' BY <3>2, <3>3, <3>4 DEF MessageOK, Before
    <3> QED BY <3>1, <3>5
  <2>15. \A k \in DOMAIN main' : MessageOK(k)' BY <2>8, <2>11, <2>13, <2>14
  <2>16. ~Created(j) /\ ~Gone(j)
    BY <2>9 DEF TypeOK, Created, Gone
  <2>17. OneAfterAnother'
    <3>1. \A i \in Instances : i <= j /\ i # j => i <= made /\ i # record
      BY <1>1, <1>5, <2>1
    <3> QED BY <1>2, <1>3, <2>5, <2>11, <3>1 DEF OneAfterAnother
  <2>18. ~InMain("destroy", j)' /\ InMain(op, j)'
    <3>1. InMain(op, j)' BY <2>6, <2>7, <2>8 DEF InMain
    <3>2. ~InMain("destroy", j)' BY <2>6, <2>7, <2>8, <2>12 DEF InMain
    <3> QED BY <3>1, <3>2
  <2>19. RecordOK'
    BY <1>3, <2>5, <2>16, <2>18 DEF RecordOK, Gone, InMain
  <2>20. \A i \in Instances :
              i > made \/ Message("create", i, 0) \in {main[k] : k \in DOMAIN main}
              <=> i > made' \/ Message("create", i, 0) \in {main'[k] : k \in DOMAIN main'}
    <3>1. \A i : y # Message("create", i, 0) BY <2>6 DEF Message
    <3>2. {main'[k] : k \in DOMAIN main'} = {main[k] : k \in DOMAIN main} \cup {x, y}
      BY <2>7, <2>8
    <3>3. \A i \in Instances : x = Message("create", i, 0) <=> i = j BY <2>2 DEF Message
    <3>4. \A i \in Instances : i > made <=> i > j \/ i = j BY <1>1, <2>1
    <3> QED BY <2>5, <3>1, <3>2, <3>3, <3>4
  <2>21. MainOK' BY <2>15, <2>17, <2>19 DEF MainOK
  <2>22. record' # 0 /\ record' = made' /\ made' \in {made, made + 1} BY <2>1, <2>5, <2>9
  <2> QED BY <2>7, <2>20, <2>21, <2>22
<1> QED BY <1>4, <1>5

(* The system tells an instance that is made to end, or that it has lost   *)
(* its interface.                                                          *)
LEMMA OneMore ==
  ASSUME TypeOK, MainOK, NEW op \in {"revoke", "destroy"}, NEW j \in 1 .. made,
         main' = Append(main, Message(op, j, 0)), made' = made, core' = core, svc' = svc,
         Created(j) \/ InMain("create", j)
  PROVE  /\ \A k \in DOMAIN main' : MessageOK(k)'
         /\ main' \in Seq(Messages)
         /\ \A i \in Instances : (Created(i)' <=> Created(i)) /\ (Gone(i)' <=> Gone(i))
         /\ \A o, i : InMain(o, i)' <=> InMain(o, i) \/ (o = op /\ i = j)
         /\ \A i \in Instances :
              i > made \/ Message("create", i, 0) \in {main[k] : k \in DOMAIN main}
              <=> i > made' \/ Message("create", i, 0) \in {main'[k] : k \in DOMAIN main'}
<1>1. /\ main \in Seq(Messages) /\ Len(main) \in Nat /\ DOMAIN main = 1 .. Len(main)
      /\ made \in Nat /\ j \in Instances
  BY MainTyped
<1>2. \A i \in Instances : (Created(i)' <=> Created(i)) /\ (Gone(i)' <=> Gone(i))
  BY DEF Created, Gone
<1>3. PICK last \in Nat : last = Len(main) + 1 BY <1>1
<1>4. PICK x \in Messages : x = Message(op, j, 0)
  <2>1. 0 \in 0 .. MaxStarts BY Bounds
  <2>2. Message(op, j, 0) \in Messages BY <1>1, <2>1 DEF Message, Messages
  <2> QED BY <2>2
<1>5. x.op = op /\ x.to = j /\ x.session = 0 BY <1>4 DEF Message
<1>6. /\ main' \in Seq(Messages) /\ DOMAIN main' = 1 .. last
      /\ \A k \in DOMAIN main : main'[k] = main[k]
      /\ main'[last] = x
  BY <1>1, <1>3, <1>4
<1>7. /\ \A k \in DOMAIN main : k \in DOMAIN main'
      /\ \A k \in DOMAIN main' : k \in Nat /\ (k \notin DOMAIN main => k > Len(main) /\ k = last)
      /\ last \in DOMAIN main' \ DOMAIN main
  BY <1>1, <1>3, <1>6
<1>8. /\ \A k \in DOMAIN main : MessageOK(k)'
      /\ \A o, i : InMain(o, i) => InMain(o, i)'
      /\ \A k \in DOMAIN main' \ DOMAIN main : \A o, i : InMain(o, i) => Before(k, o, i)'
  <2>1. made' \in Nat /\ made <= made' /\ Sent \subseteq Sent' BY <1>1 DEF Sent
  <2>2. \A k \in DOMAIN main' \ DOMAIN main : main'[k].op # "create"
    BY <1>5, <1>6, <1>7
  <2> QED BY <1>2, <1>6, <1>7, <2>1, <2>2, Extended
<1>9. Created(j)' \/ Before(last, "create", j)'
  <2>1. CASE Created(j) BY <1>1, <1>2, <2>1
  <2>2. CASE InMain("create", j) BY <1>7, <1>8, <2>2
  <2> QED BY <2>1, <2>2
<1>10. MessageOK(last)'
  <2>1. main'[last].op = op /\ main'[last].to = j BY <1>5, <1>6
  <2> QED BY <1>9, <2>1 DEF MessageOK, Created, Before
<1>11. \A k \in DOMAIN main' : MessageOK(k)' BY <1>7, <1>8, <1>10
<1>12. \A o, i : InMain(o, i)' <=> InMain(o, i) \/ (o = op /\ i = j)
  BY <1>5, <1>6, <1>7 DEF InMain
<1>13. \A i \in Instances :
         i > made \/ Message("create", i, 0) \in {main[k] : k \in DOMAIN main}
         <=> i > made' \/ Message("create", i, 0) \in {main'[k] : k \in DOMAIN main'}
  <2>1. \A i : x # Message("create", i, 0) BY <1>5 DEF Message
  <2>2. {main'[k] : k \in DOMAIN main'} = {main[k] : k \in DOMAIN main} \cup {x}
    BY <1>6, <1>7
  <2> QED BY <2>1, <2>2
<1> QED BY <1>2, <1>6, <1>11, <1>12, <1>13

(* The sessions that were asked for are the first ones.                    *)
LEMMA SentFacts ==
  ASSUME TypeOK, SentOK
  PROVE  /\ Cardinality(Sent) \in Nat /\ Cardinality(Sent) <= MaxStarts
         /\ \A s : s \in Sent <=> s \in Nat /\ 1 <= s /\ s <= Cardinality(Sent)
         /\ stops \in Nat /\ stops <= MaxStops
<1>1. Sent \subseteq 1 .. MaxStarts BY DEF Sent, Sessions
<1>2. IsFiniteSet(1 .. MaxStarts) /\ Cardinality(1 .. MaxStarts) = MaxStarts
  BY Bounds, FS_Interval
<1>3. Cardinality(Sent) \in Nat /\ Cardinality(Sent) <= MaxStarts
  BY <1>1, <1>2, FS_Subset, FS_CardinalityType, Bounds
<1> QED BY <1>3, Bounds DEF TypeOK, SentOK

(* The state of an instance when the messages alone change.                *)
LEMMA SameInstances ==
  ASSUME TypeInv, svc' = svc, Sent \subseteq Sent', notices' = notices,
         \A s \in Sent : core'[s] = core[s]
  PROVE  InstancesOK' /\ OneUp' /\ NoticesOK'
<1>1. InstancesOK /\ OneUp /\ NoticesOK BY DEF TypeInv
<1>2. ASSUME NEW i \in Instances PROVE InstanceOK(svc[i])'
  <2>1. InstanceOK(svc[i]) BY <1>1 DEF InstancesOK
  <2> QED BY <2>1 DEF InstanceOK, QueueOK, JobOK, CoresOK
<1>3. Up' = Up BY DEF Up
<1> QED BY <1>1, <1>2, <1>3 DEF InstancesOK, OneUp, NoticesOK

(* A start intent is a new session.                                        *)
LEMMA ClientStartType ==
  ASSUME TypeInv, NEW c \in {"xray", "singBox"}, ClientStart(c)
  PROVE  TypeInv' /\ Sent' = Sent \cup {Cardinality(Sent) + 1}
         /\ Cardinality(Sent) + 1 \in Sessions /\ Cardinality(Sent) + 1 \notin Sent
         /\ Cardinality(Sent') = Cardinality(Sent) + 1
<1> DEFINE s == Cardinality(Sent) + 1
<1>1. TypeOK /\ MainOK /\ SentOK /\ IfaceOK BY DEF TypeInv
<1>2. s \in Sessions /\ core' = [core EXCEPT ![s] = c] /\ SendIntent("start", s)
      /\ phase' = phase /\ pref' = pref /\ svc' = svc /\ iface' = iface /\ live' = live
      /\ notices' = notices /\ stops' = stops /\ toggles' = toggles /\ odd' = odd
  BY DEF ClientStart
<1>3. /\ Cardinality(Sent) \in Nat /\ Cardinality(Sent) <= MaxStarts
      /\ \A x : x \in Sent <=> x \in Nat /\ 1 <= x /\ x <= Cardinality(Sent)
      /\ stops \in Nat /\ stops <= MaxStops
  BY <1>1, SentFacts
<1>4. s \notin Sent /\ s \in Nat BY <1>3
<1>5. core \in [Sessions -> {"none", "xray", "singBox"}] BY <1>1 DEF TypeOK
<1>6. Sent' = Sent \cup {s} BY <1>2, <1>4, <1>5 DEF Sent
<1>7. Sent' = 1 .. s BY <1>3, <1>4, <1>6
<1>8. Cardinality(Sent') = s BY <1>4, <1>7, FS_Interval
<1>9. made \in Nat /\ made <= Cardinality(Sent) + stops BY <1>1, MainTyped DEF SentOK
<1>10. made + 1 \in Instances
  <2>1. s <= MaxStarts BY <1>2 DEF Sessions
  <2> QED BY <1>3, <1>9, <2>1, Bounds DEF Instances
<1>11. s \in 0 .. MaxStarts /\ s \in Sent' BY <1>2, <1>6, Bounds DEF Sessions
<1>12. /\ MainOK' /\ main' \in Seq(Messages) /\ made' \in {made, made + 1}
       /\ record' # 0 /\ record' = made'
       /\ \A j \in Instances :
            j > made \/ Message("create", j, 0) \in {main[k] : k \in DOMAIN main}
            <=> j > made' \/ Message("create", j, 0) \in {main'[k] : k \in DOMAIN main'}
  <2>1. Sent \subseteq Sent' BY <1>6
  <2> HIDE DEF s
  <2> QED BY <1>1, <1>2, <1>10, <1>11, <2>1, IntentMain
<1>13. SentOK' BY <1>2, <1>7, <1>8, <1>9, <1>3, <1>12 DEF SentOK
<1>14. InstancesOK' /\ OneUp' /\ NoticesOK'
  <2>1. \A x \in Sent : core'[x] = core[x] BY <1>2, <1>4, <1>5 DEF Sent
  <2> QED BY <1>2, <1>6, <2>1, SameInstances
<1>15. IfaceOK' BY <1>1, <1>2, <1>9, <1>12 DEF IfaceOK
<1>16. TypeOK'
  <2>1. core' \in [Sessions -> {"none", "xray", "singBox"}] BY <1>2, <1>5
  <2>2. live' \subseteq {x \in Sessions : core'[x] # "none"}
    BY <1>1, <1>2, <1>6 DEF TypeOK, Sent
  <2>3. made' \in 0 .. (MaxStarts + MaxStops) /\ record' \in 0 .. made'
    <3>1. made' \in Nat /\ made' <= MaxStarts + MaxStops
      BY <1>9, <1>10, <1>12, <1>1, Bounds DEF Instances
    <3> QED BY <1>12, <3>1
  <2>4. wanted' \in BOOLEAN BY <1>2 DEF SendIntent
  <2>5. \A i \in Instances : svc'[i].state = "none" <=>
           i > made' \/ Message("create", i, 0) \in {main'[k] : k \in DOMAIN main'}
    BY <1>1, <1>2, <1>12 DEF TypeOK
  <2>6. iface'.kind \in {"none", "tun", "hole"} /\ iface'.by \in 0 .. made'
    BY <1>15 DEF IfaceOK
  <2> QED BY <1>1, <1>2, <1>12, <2>1, <2>2, <2>3, <2>4, <2>5, <2>6 DEF TypeOK
<1> QED BY <1>2, <1>4, <1>6, <1>8, <1>12, <1>13, <1>14, <1>15, <1>16 DEF TypeInv

(* A stop intent finds or makes an instance.                               *)
LEMMA ClientStopType ==
  ASSUME TypeInv, ClientStop
  PROVE  TypeInv' /\ record' # 0
<1>1. TypeOK /\ MainOK /\ SentOK /\ IfaceOK BY DEF TypeInv
<1>2. stops < MaxStops /\ stops' = stops + 1 /\ core' = core /\ SendIntent("stop", 0)
      /\ phase' = phase /\ pref' = pref /\ svc' = svc /\ iface' = iface /\ live' = live
      /\ notices' = notices /\ toggles' = toggles /\ odd' = odd
  BY DEF ClientStop
<1>3. /\ Cardinality(Sent) \in Nat /\ Cardinality(Sent) <= MaxStarts
      /\ stops \in Nat /\ stops <= MaxStops
  BY <1>1, SentFacts
<1>4. Sent' = Sent BY <1>2 DEF Sent
<1>5. made \in Nat /\ made <= Cardinality(Sent) + stops BY <1>1, MainTyped DEF SentOK
<1>6. made + 1 \in Instances /\ stops' \in 0 .. MaxStops
  BY <1>2, <1>3, <1>5, Bounds DEF Instances
<1>7. /\ MainOK' /\ main' \in Seq(Messages) /\ made' \in {made, made + 1}
      /\ record' # 0 /\ record' = made'
      /\ \A j \in Instances :
           j > made \/ Message("create", j, 0) \in {main[k] : k \in DOMAIN main}
           <=> j > made' \/ Message("create", j, 0) \in {main'[k] : k \in DOMAIN main'}
  <2>1. 0 \in 0 .. MaxStarts BY Bounds
  <2> QED BY <1>1, <1>2, <1>4, <1>6, <2>1, IntentMain
<1>8. SentOK' BY <1>1, <1>2, <1>3, <1>4, <1>5, <1>7 DEF SentOK
<1>9. InstancesOK' /\ OneUp' /\ NoticesOK' BY <1>2, <1>4, SameInstances
<1>10. IfaceOK' BY <1>1, <1>2, <1>5, <1>7 DEF IfaceOK
<1>11. TypeOK'
  <2>1. made' \in 0 .. (MaxStarts + MaxStops) /\ record' \in 0 .. made'
    <3>1. made' \in Nat /\ made' <= MaxStarts + MaxStops
      BY <1>5, <1>6, <1>7, <1>1, Bounds DEF Instances
    <3> QED BY <1>7, <3>1
  <2>2. wanted' \in BOOLEAN BY <1>2 DEF SendIntent
  <2>3. \A i \in Instances : svc'[i].state = "none" <=>
           i > made' \/ Message("create", i, 0) \in {main'[k] : k \in DOMAIN main'}
    BY <1>1, <1>2, <1>7 DEF TypeOK
  <2>4. iface'.kind \in {"none", "tun", "hole"} /\ iface'.by \in 0 .. made'
    BY <1>10 DEF IfaceOK
  <2> QED BY <1>1, <1>2, <1>6, <1>7, <2>1, <2>2, <2>3, <2>4 DEF TypeOK
<1> QED BY <1>7, <1>8, <1>9, <1>10, <1>11 DEF TypeInv

(* An instance that was made has been created, or will be by a message.    *)
LEMMA CreatedOrCreating ==
  ASSUME TypeOK, NEW j \in 1 .. made
  PROVE  Created(j) \/ InMain("create", j)
<1>1. j \in Instances /\ ~(j > made) BY MainTyped
<1>2. Created(j) \/ \E k \in DOMAIN main : main[k] = Message("create", j, 0)
  BY <1>1 DEF TypeOK, Created
<1> QED BY <1>2 DEF InMain, Message

(* A revocation is a message to the instance that opened the interface.    *)
LEMMA RevokeType ==
  ASSUME TypeInv, Revoke
  PROVE  /\ TypeInv' /\ iface.by \in Instances /\ svc[iface.by].state = "up"
         /\ \A o, i : InMain(o, i)' <=> InMain(o, i) \/ (o = "revoke" /\ i = iface.by)
<1>1. TypeOK /\ MainOK /\ SentOK /\ IfaceOK BY DEF TypeInv
<1>2. stops < MaxStops /\ stops' = stops + 1 /\ core' = core
      /\ iface # NoIface /\ iface' = NoIface /\ svc[iface.by].state = "up"
      /\ main' = Append(main, Message("revoke", iface.by, 0))
      /\ phase' = phase /\ pref' = pref /\ svc' = svc /\ live' = live /\ record' = record
      /\ wanted' = wanted /\ made' = made
      /\ notices' = notices /\ toggles' = toggles /\ odd' = odd
  BY DEF Revoke
<1>3. made \in Nat BY <1>1, MainTyped
<1>4. iface.by \in 1 .. made BY <1>1, <1>2, <1>3 DEF IfaceOK
<1>5. iface.by \in Instances BY <1>1, <1>4, MainTyped
<1>6. /\ \A k \in DOMAIN main' : MessageOK(k)'
      /\ main' \in Seq(Messages)
      /\ \A i \in Instances : (Created(i)' <=> Created(i)) /\ (Gone(i)' <=> Gone(i))
      /\ \A o, i : InMain(o, i)' <=> InMain(o, i) \/ (o = "revoke" /\ i = iface.by)
      /\ \A i \in Instances :
           i > made \/ Message("create", i, 0) \in {main[k] : k \in DOMAIN main}
           <=> i > made' \/ Message("create", i, 0) \in {main'[k] : k \in DOMAIN main'}
  BY <1>1, <1>2, <1>4, CreatedOrCreating, OneMore
<1>7. OneAfterAnother' BY <1>1, <1>2, <1>6 DEF MainOK, OneAfterAnother
<1>8. RecordOK'
  <2>1. record # 0 => record \in Instances BY <1>1, MainTyped
  <2> QED BY <1>1, <1>2, <1>6, <2>1 DEF MainOK, RecordOK
<1>9. Sent' = Sent BY <1>2 DEF Sent
<1>10. stops \in Nat /\ stops' \in 0 .. MaxStops /\ Cardinality(Sent) \in Nat
  BY <1>1, <1>2, SentFacts, Bounds
<1>11. SentOK' BY <1>1, <1>2, <1>3, <1>9, <1>10 DEF SentOK
<1>12. InstancesOK' /\ OneUp' /\ NoticesOK' BY <1>2, <1>9, SameInstances
<1>13. IfaceOK' BY <1>2, <1>3 DEF IfaceOK, NoIface, Iface
<1>14. TypeOK'
  <2>1. \A i \in Instances : svc'[i].state = "none" <=>
           i > made' \/ Message("create", i, 0) \in {main'[k] : k \in DOMAIN main'}
    BY <1>1, <1>2, <1>6 DEF TypeOK
  <2>2. iface'.kind \in {"none", "tun", "hole"} /\ iface'.by \in 0 .. made'
    BY <1>13 DEF IfaceOK
  <2> QED BY <1>1, <1>2, <1>6, <1>10, <2>1, <2>2 DEF TypeOK
<1> QED BY <1>2, <1>5, <1>6, <1>7, <1>8, <1>11, <1>12, <1>13, <1>14 DEF TypeInv, MainOK

(* The system destroys an instance with a message.                         *)
LEMMA BringDownType ==
  ASSUME TypeInv, BringDown
  PROVE  /\ TypeInv'
         /\ \A o, i : InMain(o, i)' <=> InMain(o, i) \/ (o = "destroy" /\ i = record)
<1>1. TypeOK /\ MainOK /\ SentOK /\ IfaceOK BY DEF TypeInv
<1>2. record # 0 /\ ~wanted /\ iface = NoIface /\ record' = 0
      /\ main' = Append(main, Message("destroy", record, 0))
      /\ phase' = phase /\ pref' = pref /\ svc' = svc /\ live' = live /\ wanted' = wanted
      /\ made' = made /\ iface' = iface /\ notices' = notices
      /\ core' = core /\ stops' = stops /\ toggles' = toggles /\ odd' = odd
  BY DEF BringDown, sent
<1>3. made \in Nat /\ record \in 1 .. made BY <1>1, <1>2, MainTyped
<1>4. /\ \A k \in DOMAIN main' : MessageOK(k)'
      /\ main' \in Seq(Messages)
      /\ \A i \in Instances : (Created(i)' <=> Created(i)) /\ (Gone(i)' <=> Gone(i))
      /\ \A o, i : InMain(o, i)' <=> InMain(o, i) \/ (o = "destroy" /\ i = record)
      /\ \A i \in Instances :
           i > made \/ Message("create", i, 0) \in {main[k] : k \in DOMAIN main}
           <=> i > made' \/ Message("create", i, 0) \in {main'[k] : k \in DOMAIN main'}
  BY <1>1, <1>2, <1>3, CreatedOrCreating, OneMore
<1>5. OneAfterAnother' BY <1>1, <1>2, <1>4 DEF MainOK, OneAfterAnother
<1>6. RecordOK' BY <1>2 DEF RecordOK
<1>7. Sent' = Sent BY <1>2 DEF Sent
<1>8. SentOK' BY <1>1, <1>2, <1>7 DEF SentOK
<1>9. InstancesOK' /\ OneUp' /\ NoticesOK' BY <1>2, <1>7, SameInstances
<1>10. IfaceOK' BY <1>1, <1>2 DEF IfaceOK
<1>11. TypeOK'
  <2>1. \A i \in Instances : svc'[i].state = "none" <=>
           i > made' \/ Message("create", i, 0) \in {main'[k] : k \in DOMAIN main'}
    BY <1>1, <1>2, <1>4 DEF TypeOK
  <2>2. record' \in 0 .. made' BY <1>2, <1>3
  <2> QED BY <1>1, <1>2, <1>4, <2>1, <2>2 DEF TypeOK
<1> QED BY <1>4, <1>5, <1>6, <1>8, <1>9, <1>10, <1>11 DEF TypeInv, MainOK

(* A task that is dispatched waits behind the others, in an instance that  *)
(* is up.                                                                  *)
SameButQueue(r, d) ==
  /\ d.state = r.state /\ d.job = r.job /\ d.at = r.at
  /\ d.server = r.server /\ d.process = r.process /\ d.bridge = r.bridge
  /\ d.active = r.active /\ d.hole = r.hole

(* A task that is dispatched waits at the end of the queue, if the executor*)
(* still takes tasks.                                                      *)
LEMMA DispatchFacts ==
  ASSUME NEW r \in ServiceSet, NEW t \in Tasks
  PROVE  /\ Dispatched(r, t) \in ServiceSet
         /\ SameButQueue(r, Dispatched(r, t)) /\ Dispatched(r, t).expected = r.expected
         /\ r.state = "up" => Dispatched(r, t).queue = Append(r.queue, t)
         /\ r.state # "up" => Dispatched(r, t) = r
<1>1. Append(r.queue, t) \in Seq(Tasks) BY AppendAt DEF ServiceSet
<1>2. CASE r.state = "up" BY <1>1, <1>2 DEF Dispatched, ServiceSet, SameButQueue
<1>3. CASE r.state # "up" BY <1>3 DEF Dispatched, SameButQueue
<1> QED BY <1>2, <1>3

(* An instance stays well-formed when a task is queued ...                 *)
LEMMA QueuedOK ==
  ASSUME NEW r \in ServiceSet, InstanceOK(r), NEW t \in Tasks, t.op # "none",
         t.op \in {"start"} \cup Reports => t.session \in Sent,
         NEW d, SameButQueue(r, d), r.state = "up", d.queue = Append(r.queue, t)
  PROVE  InstanceOK(d)
<1>1. r.queue \in Seq(Tasks) BY DEF ServiceSet
<1>2. QueueOK(r.queue) /\ JobOK(r) /\ CoresOK(r) BY DEF InstanceOK
<1>3. QueueOK(d.queue)
  <2>1. /\ DOMAIN d.queue = 1 .. Len(r.queue) + 1 /\ DOMAIN r.queue = 1 .. Len(r.queue)
        /\ Len(r.queue) \in Nat
        /\ \A n \in DOMAIN r.queue : d.queue[n] = r.queue[n]
        /\ d.queue[Len(r.queue) + 1] = t
    BY <1>1, AppendAt
  <2>2. \A n \in DOMAIN d.queue : n \in DOMAIN r.queue \/ n = Len(r.queue) + 1
    BY <2>1
  <2> QED BY <1>2, <2>1, <2>2 DEF QueueOK
<1>4. JobOK(d) /\ CoresOK(d) BY <1>2 DEF SameButQueue, JobOK, CoresOK, Owned
<1> QED BY <1>3, <1>4 DEF InstanceOK

(* ... and when it is dispatched.                                          *)
LEMMA DispatchedOK ==
  ASSUME NEW r \in ServiceSet, InstanceOK(r), NEW t \in Tasks, t.op # "none",
         t.op \in {"start"} \cup Reports => t.session \in Sent
  PROVE  InstanceOK(Dispatched(r, t))
<1>1. CASE r.state = "up" BY <1>1, DispatchFacts, QueuedOK
<1>2. CASE r.state # "up" BY <1>2, DispatchFacts
<1> QED BY <1>1, <1>2

(* A step that dispatches tasks, to any of the instances, and does no more *)
(* to them.                                                                *)
LEMMA DispatchType ==
  ASSUME TypeInv, svc' \in [Instances -> ServiceSet], core' = core, main' = main,
         record' = record, made' = made, stops' = stops,
         \A j \in Instances :
           InstanceOK(svc'[j]) /\ (svc'[j] = svc[j] \/ SameButQueue(svc[j], svc'[j]))
  PROVE  /\ MainOK' /\ OneUp' /\ SentOK' /\ InstancesOK'
         /\ \A i \in Instances :
              /\ svc'[i].server = 0 \/ svc'[i].process = 0
              /\ svc'[i].job = NoTask <=> svc'[i].at = "begin"
              /\ svc'[i].state = "none" <=>
                   i > made' \/ Message("create", i, 0) \in {main'[k] : k \in DOMAIN main'}
<1>1. TypeOK /\ MainOK /\ OneUp /\ SentOK /\ InstancesOK BY DEF TypeInv
<1>2. \A j \in Instances : svc'[j].state = svc[j].state BY DEF SameButQueue
<1>3. MainOK' /\ OneUp' /\ SentOK' BY <1>1, <1>2, SameMain
<1>4. \A j \in Instances : InstanceOK(svc[j])'
  BY DEF InstanceOK, QueueOK, JobOK, CoresOK, Sent
<1>5. \A i \in Instances :
        /\ svc'[i].server = 0 \/ svc'[i].process = 0
        /\ svc'[i].job = NoTask <=> svc'[i].at = "begin"
  BY DEF InstanceOK, JobOK, CoresOK
<1>6. \A i \in Instances : svc'[i].state = "none" <=>
        i > made' \/ Message("create", i, 0) \in {main'[k] : k \in DOMAIN main'}
  BY <1>1, <1>2 DEF TypeOK
<1> QED BY <1>3, <1>4, <1>5, <1>6 DEF InstancesOK

(* A task has the parts it was made of.                                    *)
LEMMA TaskTyped ==
  ASSUME NEW op \in {"none", "start", "stop", "on", "off"} \cup Reports,
         NEW s \in 0 .. MaxStarts
  PROVE  Task(op, s) \in Tasks /\ Task(op, s).op = op /\ Task(op, s).session = s
BY DEF Task, Tasks

(* A change of the preference keeps the type invariant.                    *)
LEMMA ToggleType ==
  ASSUME TypeInv, ToggleKillswitch
  PROVE  TypeInv'
<1>1. TypeOK /\ InstancesOK /\ NoticesOK /\ IfaceOK BY DEF TypeInv
<1>2. /\ toggles < MaxToggles /\ toggles' = toggles + 1 /\ pref' = ~pref
      /\ svc' = [i \in Instances |-> Dispatched(svc[i], Task(IF pref THEN "off" ELSE "on", 0))]
      /\ phase' = phase /\ main' = main /\ record' = record /\ wanted' = wanted
      /\ made' = made /\ iface' = iface /\ live' = live /\ notices' = notices
      /\ core' = core /\ stops' = stops /\ odd' = odd
  BY DEF ToggleKillswitch, system
<1>3. PICK t \in Tasks : t = Task(IF pref THEN "off" ELSE "on", 0) /\ t.op \in {"on", "off"}
  <2>1. 0 \in 0 .. MaxStarts BY Bounds
  <2>2. CASE pref BY <2>1, <2>2, TaskTyped
  <2>3. CASE ~pref BY <2>1, <2>3, TaskTyped
  <2> QED BY <2>2, <2>3
<1>4. \A j \in Instances : svc[j] \in ServiceSet /\ InstanceOK(svc[j])
  BY <1>1, InstanceTyped DEF InstancesOK
<1>5. \A j \in Instances : svc'[j] = Dispatched(svc[j], t) BY <1>2, <1>3
<1>6. \A j \in Instances : /\ svc'[j] \in ServiceSet /\ InstanceOK(svc'[j])
                           /\ SameButQueue(svc[j], svc'[j])
  BY <1>3, <1>4, <1>5, DispatchFacts, DispatchedOK DEF Reports
<1>7. svc' \in [Instances -> ServiceSet] BY <1>2, <1>6
<1>8. /\ MainOK' /\ OneUp' /\ SentOK' /\ InstancesOK'
      /\ \A i \in Instances :
           /\ svc'[i].server = 0 \/ svc'[i].process = 0
           /\ svc'[i].job = NoTask <=> svc'[i].at = "begin"
           /\ svc'[i].state = "none" <=>
                i > made' \/ Message("create", i, 0) \in {main'[k] : k \in DOMAIN main'}
  BY <1>2, <1>6, <1>7, DispatchType
<1>9. NoticesOK' /\ IfaceOK' BY <1>1, <1>2 DEF NoticesOK, IfaceOK, Sent
<1>10. toggles' \in 0 .. MaxToggles /\ pref' \in BOOLEAN BY <1>1, <1>2, Bounds DEF TypeOK
<1>11. TypeOK' BY <1>1, <1>2, <1>7, <1>8, <1>10 DEF TypeOK, ServiceSet
<1> QED BY <1>8, <1>9, <1>11 DEF TypeInv

(* The report n reaches the executor of its instance, or is dropped.       *)
LEMMA ReportStep ==
  ASSUME TypeInv, NEW n \in notices, ReportCore(n) \/ ReportDisconnected(n)
  PROVE  /\ n \in NoticeSet /\ n.session \in Sent /\ Task(n.op, n.session) \in Tasks
         /\ Task(n.op, n.session).op = n.op /\ Task(n.op, n.session).session = n.session
         /\ n.op \in Reports /\ n.to \in Instances
         /\ svc'[n.to] = Dispatched(svc[n.to], Task(n.op, n.session))
              \/ (n.op = "closed" /\ svc[n.to].expected /\ svc'[n.to] = svc[n.to])
         /\ \A j \in Instances \ {n.to} : svc'[j] = svc[j]
         /\ svc' = [svc EXCEPT ![n.to] = svc'[n.to]]
         /\ phase' = phase /\ pref' = pref /\ main' = main /\ record' = record
         /\ wanted' = wanted /\ made' = made /\ iface' = iface /\ live' = live
         /\ notices' = notices \ {n}
         /\ core' = core /\ stops' = stops /\ toggles' = toggles /\ odd' = odd
<1>1. svc \in [Instances -> ServiceSet] BY InstanceTyped DEF TypeInv
<1>2. n \in NoticeSet /\ n.session \in Sent BY DEF TypeInv, TypeOK, NoticesOK, NoticeSet
<1>3. n.to \in Instances /\ n.op \in Reports /\ n.session \in Sessions
  BY <1>2 DEF NoticeSet
<1>4. n.session \in 0 .. MaxStarts BY <1>3, Bounds DEF Sessions
<1>5. CASE ReportCore(n)
  BY <1>1, <1>2, <1>3, <1>4, <1>5, TaskTyped DEF ReportCore, system, sent
<1>6. CASE ReportDisconnected(n)
  BY <1>1, <1>2, <1>3, <1>4, <1>6, TaskTyped DEF ReportDisconnected, system, sent
<1> QED BY <1>5, <1>6

(* A report keeps the type invariant.                                      *)
LEMMA ReportType ==
  ASSUME TypeInv, NEW n \in notices, ReportCore(n) \/ ReportDisconnected(n)
  PROVE  TypeInv'
<1>1. TypeOK /\ InstancesOK /\ NoticesOK /\ IfaceOK BY DEF TypeInv
<1>2. svc[n.to] \in ServiceSet /\ InstanceOK(svc[n.to])
      /\ svc \in [Instances -> ServiceSet]
      /\ \A j \in Instances : InstanceOK(svc[j])
  BY <1>1, ReportStep, InstanceTyped DEF InstancesOK
<1>3. svc'[n.to] \in ServiceSet /\ InstanceOK(svc'[n.to])
      /\ (svc'[n.to] = svc[n.to] \/ SameButQueue(svc[n.to], svc'[n.to]))
  <2>1. n.op # "none" /\ n.session \in Sent BY ReportStep DEF Reports
  <2>2. CASE svc'[n.to] = Dispatched(svc[n.to], Task(n.op, n.session))
    BY <1>2, <2>1, <2>2, ReportStep, DispatchFacts, DispatchedOK
  <2>3. CASE svc'[n.to] = svc[n.to] BY <1>2, <2>3
  <2> QED BY <2>2, <2>3, ReportStep
<1>4. svc' \in [Instances -> ServiceSet]
      /\ \A j \in Instances :
           InstanceOK(svc'[j]) /\ (svc'[j] = svc[j] \/ SameButQueue(svc[j], svc'[j]))
  BY <1>2, <1>3, ReportStep
<1>5. /\ MainOK' /\ OneUp' /\ SentOK' /\ InstancesOK'
      /\ \A i \in Instances :
           /\ svc'[i].server = 0 \/ svc'[i].process = 0
           /\ svc'[i].job = NoTask <=> svc'[i].at = "begin"
           /\ svc'[i].state = "none" <=>
                i > made' \/ Message("create", i, 0) \in {main'[k] : k \in DOMAIN main'}
  BY <1>4, ReportStep, DispatchType
<1>6. NoticesOK' /\ IfaceOK' BY <1>1, ReportStep DEF NoticesOK, IfaceOK, Sent
<1>7. TypeOK'
  <2>1. /\ phase' = phase /\ pref' = pref /\ main' = main /\ record' = record
        /\ wanted' = wanted /\ made' = made /\ iface' = iface /\ live' = live
        /\ notices' \subseteq notices
        /\ core' = core /\ stops' = stops /\ toggles' = toggles /\ odd' = odd
    BY ReportStep
  <2> QED BY <1>1, <1>4, <1>5, <2>1 DEF TypeOK, ServiceSet
<1> QED BY <1>5, <1>6, <1>7 DEF TypeInv

(* A core that dies is reported by the thread that watches it.             *)
LEMMA CoreDiesStep ==
  ASSUME TypeInv, NEW i \in Instances, NEW s \in Sessions, CoreDies(i, s)
  PROVE  /\ s \in Owned(svc[i]) /\ s \in live /\ s \in Sent /\ live' = live \ {s}
         /\ core[s] = "xray" => notices' = notices \cup {Notice("exit", i, s)}
         /\ core[s] = "singBox" =>
              \/ notices' = notices \cup {Notice("stopped", i, s)}
              \/ notices' = notices \cup {Notice("stopped", i, s), Notice("closed", i, s)}
         /\ core[s] \in {"xray", "singBox"}
         /\ \A n \in notices' : n \in notices \/ (n.to = i /\ n.session = s /\ n \in NoticeSet)
         /\ phase' = phase /\ pref' = pref /\ svc' = svc /\ main' = main
         /\ record' = record /\ wanted' = wanted /\ made' = made /\ iface' = iface
         /\ core' = core /\ stops' = stops /\ toggles' = toggles /\ odd' = odd
<1>1. /\ s \in Owned(svc[i]) /\ s \in live /\ live' = live \ {s}
      /\ phase' = phase /\ pref' = pref /\ svc' = svc /\ main' = main
      /\ record' = record /\ wanted' = wanted /\ made' = made /\ iface' = iface
      /\ core' = core /\ stops' = stops /\ toggles' = toggles /\ odd' = odd
  BY DEF CoreDies, system, sent
<1>2. s \in Sent BY <1>1 DEF TypeInv, TypeOK, Sent
<1>3. \/ core[s] = "xray" /\ notices' = notices \cup {Notice("exit", i, s)}
      \/ core[s] = "singBox" /\ notices' = notices \cup {Notice("stopped", i, s)}
      \/ /\ core[s] = "singBox"
         /\ notices' = notices \cup {Notice("stopped", i, s), Notice("closed", i, s)}
  BY DEF CoreDies
<1>4. \A op \in Reports : /\ Notice(op, i, s) \in NoticeSet
                          /\ Notice(op, i, s).to = i /\ Notice(op, i, s).session = s
  BY DEF Notice, NoticeSet
<1> QED BY <1>1, <1>2, <1>3, <1>4 DEF Reports

(* The end of a core keeps the type invariant.                             *)
LEMMA CoreDiesType ==
  ASSUME TypeInv, NEW i \in Instances, NEW s \in Sessions, CoreDies(i, s)
  PROVE  TypeInv'
<1>1. TypeOK /\ MainOK /\ OneUp /\ SentOK /\ InstancesOK /\ NoticesOK /\ IfaceOK
  BY DEF TypeInv
<1>2. svc' = svc /\ main' = main /\ record' = record /\ made' = made
      /\ core' = core /\ stops' = stops /\ iface' = iface
  BY CoreDiesStep
<1>3. MainOK' /\ OneUp' /\ SentOK' BY <1>1, <1>2, SameMain
<1>4. InstancesOK'
  BY <1>1, <1>2 DEF InstancesOK, InstanceOK, QueueOK, JobOK, CoresOK, Sent
<1>5. NoticesOK' BY <1>1, <1>2, CoreDiesStep DEF NoticesOK, Sent
<1>6. IfaceOK' BY <1>1, <1>2 DEF IfaceOK
<1>7. TypeOK'
  <2>1. notices' \subseteq [op : Reports, to : Instances, session : Sessions]
    BY <1>1, CoreDiesStep DEF TypeOK, NoticeSet
  <2>2. live' \subseteq live BY CoreDiesStep
  <2> QED BY <1>1, <1>2, <2>1, <2>2, CoreDiesStep DEF TypeOK
<1> QED BY <1>3, <1>4, <1>5, <1>6, <1>7 DEF TypeInv

(* The steps of the main thread.                                           *)
LEMMA CreateStep ==
  ASSUME TypeInv, OnCreate
  PROVE  \E j \in Instances :
           /\ j = main[1].to /\ main[1].op = "create" /\ main # <<>> /\ main' = Tail(main)
           /\ svc[j] = Fresh /\ \A i \in Instances : i < j => Gone(i)
           /\ svc' \in [Instances -> ServiceSet]
           /\ \A i \in Instances \ {j} : svc'[i] = svc[i]
           /\ svc'[j].state = "up" /\ svc'[j].active = pref /\ svc'[j].queue = <<>>
           /\ svc'[j].job = NoTask /\ svc'[j].at = "begin" /\ ~svc'[j].expected
           /\ svc'[j].server = 0 /\ svc'[j].process = 0 /\ ~svc'[j].bridge /\ ~svc'[j].hole
           /\ phase' = phase /\ pref' = pref /\ record' = record /\ wanted' = wanted
           /\ made' = made /\ iface' = iface /\ live' = live /\ notices' = notices
           /\ core' = core /\ stops' = stops /\ toggles' = toggles /\ odd' = odd
<1>1. TypeOK /\ MainOK /\ InstancesOK BY DEF TypeInv
<1>2. Handles("create")
      /\ phase' = phase /\ pref' = pref /\ record' = record /\ wanted' = wanted
      /\ made' = made /\ iface' = iface /\ live' = live /\ notices' = notices
      /\ core' = core /\ stops' = stops /\ toggles' = toggles /\ odd' = odd
  BY DEF OnCreate, sent
<1>3. PICK j \in Instances : j = main[1].to BY <1>1, <1>2, First
<1>4. /\ main # <<>> /\ Head(main) = main[1] /\ main[1].op = "create" /\ main' = Tail(main)
      /\ ~Created(j) /\ \A i \in Instances : i < j => Gone(i)
  BY <1>1, <1>2, <1>3, First
<1>5. svc[j] = Fresh BY <1>1, <1>4 DEF InstancesOK, InstanceOK, JobOK, Created
<1>6. svc \in [Instances -> ServiceSet] /\ svc[j] \in ServiceSet /\ pref \in BOOLEAN
  BY <1>1, InstanceTyped DEF TypeOK
<1>7. PICK up \in ServiceSet :
        /\ up = [svc[j] EXCEPT !.state = "up", !.active = pref]
        /\ up.state = "up" /\ up.active = pref /\ up.queue = svc[j].queue
        /\ up.job = svc[j].job /\ up.at = svc[j].at /\ up.expected = svc[j].expected
        /\ up.server = svc[j].server /\ up.process = svc[j].process
        /\ up.bridge = svc[j].bridge /\ up.hole = svc[j].hole
  <2> DEFINE up == [svc[j] EXCEPT !.state = "up", !.active = pref]
  <2>1. /\ up \in ServiceSet
        /\ up.state = "up" /\ up.active = pref /\ up.queue = svc[j].queue
        /\ up.job = svc[j].job /\ up.at = svc[j].at /\ up.expected = svc[j].expected
        /\ up.server = svc[j].server /\ up.process = svc[j].process
        /\ up.bridge = svc[j].bridge /\ up.hole = svc[j].hole
    BY <1>6 DEF ServiceSet
  <2> QED BY <2>1
<1>8. svc' = [svc EXCEPT ![j] = up]
  <2>1. svc' = [svc EXCEPT ![j].state = "up", ![j].active = pref]
    BY <1>3, <1>4 DEF OnCreate
  <2> QED BY <1>6, <1>7, <2>1 DEF ServiceSet
<1>9. /\ svc' \in [Instances -> ServiceSet] /\ svc'[j] = up
      /\ \A i \in Instances \ {j} : svc'[i] = svc[i]
  BY <1>6, <1>8
<1>10. /\ svc'[j].state = "up" /\ svc'[j].active = pref /\ svc'[j].queue = <<>>
       /\ svc'[j].job = NoTask /\ svc'[j].at = "begin" /\ ~svc'[j].expected
       /\ svc'[j].server = 0 /\ svc'[j].process = 0 /\ ~svc'[j].bridge /\ ~svc'[j].hole
  BY <1>5, <1>7, <1>9 DEF Fresh
<1> QED BY <1>2, <1>3, <1>4, <1>5, <1>9, <1>10

(* onStartCommand dispatches the intent as a task.                         *)
LEMMA StartCommandStep ==
  ASSUME TypeInv, OnStartCommand
  PROVE  \E j \in Instances, t \in Tasks :
           /\ j = main[1].to /\ main[1].op \in {"start", "stop"} /\ Created(j)
           /\ main # <<>> /\ main' = Tail(main)
           /\ t = Task(main[1].op, main[1].session) /\ t.op = main[1].op
           /\ t.session = main[1].session
           /\ t.op = "start" => t.session \in Sent
           /\ svc' = [svc EXCEPT ![j] = Dispatched(svc[j], t)]
           /\ svc' \in [Instances -> ServiceSet]
           /\ \A i \in Instances \ {j} : svc'[i] = svc[i]
           /\ svc'[j] = Dispatched(svc[j], t)
           /\ phase' = phase /\ pref' = pref /\ record' = record /\ wanted' = wanted
           /\ made' = made /\ iface' = iface /\ live' = live /\ notices' = notices
           /\ core' = core /\ stops' = stops /\ toggles' = toggles /\ odd' = odd
<1>1. TypeOK /\ MainOK BY DEF TypeInv
<1>2. PICK op \in {"start", "stop"} : Handles(op) BY DEF OnStartCommand
<1>3. /\ main # <<>> /\ Head(main) = main[1] /\ main[1].op = op /\ main' = Tail(main)
      /\ main[1].to \in Instances /\ Created(main[1].to) /\ main[1] \in Messages
      /\ MessageOK(1)
  BY <1>1, <1>2, First
<1>4. PICK j \in Instances : j = main[1].to BY <1>3
<1>5. PICK t \in Tasks : t = Task(main[1].op, main[1].session) /\ t.op = main[1].op
                           /\ t.session = main[1].session
  <2>1. main[1].session \in 0 .. MaxStarts BY <1>3 DEF Messages
  <2> QED BY <1>3, <2>1, TaskTyped
<1>6. t.op = "start" => t.session \in Sent BY <1>3, <1>5 DEF MessageOK
<1>7. svc \in [Instances -> ServiceSet] BY <1>1, InstanceTyped
<1>8. svc' = [svc EXCEPT ![j] = Dispatched(svc[j], t)]
  BY <1>3, <1>4, <1>5, <1>7 DEF OnStartCommand
<1>9. Dispatched(svc[j], t) \in ServiceSet BY <1>7, DispatchFacts
<1>10. phase' = phase /\ pref' = pref /\ record' = record /\ wanted' = wanted
       /\ made' = made /\ iface' = iface /\ live' = live /\ notices' = notices
       /\ core' = core /\ stops' = stops /\ toggles' = toggles /\ odd' = odd
  BY DEF OnStartCommand, sent
<1>11. svc' \in [Instances -> ServiceSet] /\ svc'[j] = Dispatched(svc[j], t)
       /\ \A i \in Instances \ {j} : svc'[i] = svc[i]
  BY <1>7, <1>8, <1>9
<1> QED BY <1>3, <1>4, <1>5, <1>6, <1>8, <1>10, <1>11

(* onRevoke marks the stop as expected and dispatches it.                  *)
LEMMA RevokeStep ==
  ASSUME TypeInv, OnRevoke
  PROVE  \E j \in Instances, t \in Tasks :
           /\ j = main[1].to /\ main[1].op = "revoke" /\ Created(j)
           /\ main # <<>> /\ main' = Tail(main)
           /\ t = Task("stop", 0) /\ t.op = "stop"
           /\ svc' \in [Instances -> ServiceSet]
           /\ \A i \in Instances \ {j} : svc'[i] = svc[i]
           /\ SameButQueue(svc[j], svc'[j]) /\ svc'[j].expected
           /\ svc[j].state = "up" => svc'[j].queue = Append(svc[j].queue, t)
           /\ svc[j].state # "up" => svc'[j].queue = svc[j].queue
           /\ phase' = phase /\ pref' = pref /\ record' = record /\ wanted' = wanted
           /\ made' = made /\ iface' = iface /\ live' = live /\ notices' = notices
           /\ core' = core /\ stops' = stops /\ toggles' = toggles /\ odd' = odd
<1>1. TypeOK /\ MainOK BY DEF TypeInv
<1>2. Handles("revoke") BY DEF OnRevoke
<1>3. /\ main # <<>> /\ Head(main) = main[1] /\ main[1].op = "revoke" /\ main' = Tail(main)
      /\ main[1].to \in Instances /\ Created(main[1].to)
  BY <1>1, <1>2, First
<1>4. PICK j \in Instances : j = main[1].to BY <1>3
<1>5. PICK t \in Tasks : t = Task("stop", 0) /\ t.op = "stop"
  <2>1. 0 \in 0 .. MaxStarts BY Bounds
  <2> QED BY <2>1, TaskTyped
<1>6. svc \in [Instances -> ServiceSet] BY <1>1, InstanceTyped
<1>7. PICK r \in ServiceSet :
        /\ r = Dispatched(svc[j], t) /\ SameButQueue(svc[j], r)
        /\ svc[j].state = "up" => r.queue = Append(svc[j].queue, t)
        /\ svc[j].state # "up" => r = svc[j]
  BY <1>6, DispatchFacts
<1>8. PICK d \in ServiceSet :
        /\ d = [r EXCEPT !.expected = TRUE] /\ SameButQueue(r, d) /\ d.expected
        /\ d.queue = r.queue
  <2> DEFINE d == [r EXCEPT !.expected = TRUE]
  <2>1. d \in ServiceSet /\ SameButQueue(r, d) /\ d.expected /\ d.queue = r.queue
    BY DEF ServiceSet, SameButQueue
  <2> QED BY <2>1
<1>9. svc' = [svc EXCEPT ![j] = d]
  BY <1>3, <1>4, <1>5, <1>6, <1>7, <1>8 DEF OnRevoke
<1>10. /\ svc' \in [Instances -> ServiceSet] /\ svc'[j] = d
       /\ \A i \in Instances \ {j} : svc'[i] = svc[i]
  BY <1>6, <1>9
<1>11. phase' = phase /\ pref' = pref /\ record' = record /\ wanted' = wanted
       /\ made' = made /\ iface' = iface /\ live' = live /\ notices' = notices
       /\ core' = core /\ stops' = stops /\ toggles' = toggles /\ odd' = odd
  BY DEF OnRevoke, sent
<1>12. SameButQueue(svc[j], svc'[j]) BY <1>7, <1>8, <1>10 DEF SameButQueue
<1>13. /\ svc'[j].expected
       /\ svc[j].state = "up" => svc'[j].queue = Append(svc[j].queue, t)
       /\ svc[j].state # "up" => svc'[j].queue = svc[j].queue
  BY <1>7, <1>8, <1>10
<1> QED BY <1>3, <1>4, <1>5, <1>10, <1>11, <1>12, <1>13

(* onDestroy ends what the instance owns and drops its tasks.              *)
LEMMA DestroyStep ==
  ASSUME TypeInv, OnDestroy
  PROVE  \E j \in Instances :
           /\ j = main[1].to /\ main[1].op = "destroy" /\ Created(j)
           /\ main # <<>> /\ main' = Tail(main)
           /\ StopActiveRuntime(j) /\ iface' = Closing({"tun", "hole"}, j)
           /\ svc' \in [Instances -> ServiceSet]
           /\ \A i \in Instances \ {j} : svc'[i] = svc[i]
           /\ svc'[j].state = "gone" /\ svc'[j].queue = <<>> /\ svc'[j].job = svc[j].job
           /\ svc'[j].at = svc[j].at /\ svc'[j].expected /\ ~svc'[j].hole
           /\ svc'[j].server = 0 /\ svc'[j].process = 0 /\ ~svc'[j].bridge
           /\ phase' = phase /\ pref' = pref /\ record' = record /\ wanted' = wanted
           /\ made' = made /\ core' = core /\ stops' = stops /\ toggles' = toggles
           /\ odd \subseteq odd' /\ odd' \subseteq odd \cup {"dropped", "destroyed"}
           /\ phase \in {"connecting", "connected"} \/ svc[j].at \in {"reset", "handle"}
                => "destroyed" \in odd'
<1>1. TypeOK /\ MainOK BY DEF TypeInv
<1>2. Handles("destroy")
      /\ phase' = phase /\ pref' = pref /\ record' = record /\ wanted' = wanted
      /\ made' = made /\ core' = core /\ stops' = stops /\ toggles' = toggles
  BY DEF OnDestroy, sent
<1>3. /\ main # <<>> /\ Head(main) = main[1] /\ main[1].op = "destroy" /\ main' = Tail(main)
      /\ main[1].to \in Instances /\ Created(main[1].to)
  BY <1>1, <1>2, First
<1>4. PICK j \in Instances : j = main[1].to BY <1>3
<1>5. svc \in [Instances -> ServiceSet] /\ svc[j] \in ServiceSet BY <1>1, InstanceTyped
<1>6. PICK r \in ServiceSet :
        /\ r = Idle(svc[j]) /\ r.job = svc[j].job /\ r.at = svc[j].at
        /\ r.server = 0 /\ r.process = 0 /\ r.bridge = FALSE
  BY <1>5, IdleFacts
<1>7. PICK d \in ServiceSet :
        /\ d = [r EXCEPT !.state = "gone", !.expected = TRUE, !.hole = FALSE, !.queue = <<>>]
        /\ d.state = "gone" /\ d.queue = <<>> /\ d.job = r.job /\ d.at = r.at /\ d.expected
        /\ ~d.hole /\ d.server = r.server /\ d.process = r.process /\ d.bridge = r.bridge
  <2> DEFINE d == [r EXCEPT !.state = "gone", !.expected = TRUE, !.hole = FALSE, !.queue = <<>>]
  <2>1. <<>> \in Seq(Tasks) OBVIOUS
  <2>2. d \in ServiceSet
    BY <2>1 DEF ServiceSet
  <2>3. /\ d.state = "gone" /\ d.queue = <<>> /\ d.job = r.job /\ d.at = r.at /\ d.expected
        /\ ~d.hole /\ d.server = r.server /\ d.process = r.process /\ d.bridge = r.bridge
    BY DEF ServiceSet
  <2> QED BY <2>2, <2>3
<1>8. svc' = [svc EXCEPT ![j] = d]
      /\ StopActiveRuntime(j) /\ iface' = Closing({"tun", "hole"}, j)
  BY <1>3, <1>4, <1>6, <1>7 DEF OnDestroy
<1>9. /\ odd \subseteq odd' /\ odd' \subseteq odd \cup {"dropped", "destroyed"}
      /\ phase \in {"connecting", "connected"} \/ svc[j].at \in {"reset", "handle"}
           => "destroyed" \in odd'
  BY <1>3, <1>4 DEF OnDestroy
<1>10. /\ svc' \in [Instances -> ServiceSet] /\ svc'[j] = d
       /\ \A i \in Instances \ {j} : svc'[i] = svc[i]
  BY <1>5, <1>8
<1> QED BY <1>2, <1>3, <1>4, <1>6, <1>7, <1>8, <1>9, <1>10

(* A message has been handled by the instance j.                           *)
LEMMA HandledType ==
  ASSUME TypeInv, NEW j \in Instances, j = main[1].to, main # <<>>, main' = Tail(main),
         main[1].op = "create" \/ Created(j),
         svc' \in [Instances -> ServiceSet], \A i \in Instances \ {j} : svc'[i] = svc[i],
         InstanceOK(svc'[j]), svc'[j].state # "none",
         svc'[j].state = "gone" <=> svc[j].state = "gone" \/ main[1].op = "destroy",
         svc'[j].state = "up" /\ svc[j].state # "up" =>
           \A i \in Instances \ {j} : svc[i].state # "up",
         phase' = phase, pref' = pref, record' = record, wanted' = wanted, made' = made,
         core' = core, stops' = stops, toggles' = toggles, odd' \subseteq Orders,
         live' \subseteq Sent, notices' \subseteq NoticeSet, NoticesOK', IfaceOK'
  PROVE  TypeInv'
<1>1. TypeOK /\ MainOK /\ OneUp /\ SentOK /\ InstancesOK BY DEF TypeInv
<1>2. ASSUME NEW i \in Instances
      PROVE  /\ Created(i)' <=> Created(i) \/ (main[1].op = "create" /\ main[1].to = i)
             /\ Gone(i)' <=> Gone(i) \/ (main[1].op = "destroy" /\ main[1].to = i)
  <2>1. CASE i = j BY <2>1 DEF Created, Gone
  <2>2. CASE i # j BY <2>2 DEF Created, Gone
  <2> QED BY <2>1, <2>2
<1>3. /\ MainOK'
      /\ \A i \in Instances :
           (i > made \/ Message("create", i, 0) \in {main[k] : k \in DOMAIN main})
             /\ ~(main[1].op = "create" /\ main[1].to = i)
           <=> i > made' \/ Message("create", i, 0) \in {main'[k] : k \in DOMAIN main'}
  BY <1>1, <1>2, Popped
<1>4. OneUp'
  <2>1. ASSUME NEW a \in Instances, NEW b \in Instances,
               svc'[a].state = "up", svc'[b].state = "up"
        PROVE  a = b
    BY <1>1, <2>1 DEF OneUp, Up
  <2> QED BY <2>1 DEF OneUp, Up
<1>5. Sent' = Sent BY DEF Sent
<1>6. SentOK' BY <1>1, <1>5 DEF SentOK
<1>7. \A i \in Instances : InstanceOK(svc'[i]) BY <1>1 DEF InstancesOK
<1>8. InstancesOK'
  BY <1>5, <1>7 DEF InstancesOK, InstanceOK, QueueOK, JobOK, CoresOK
<1>9. TypeOK'
  <2>1. \A i \in Instances :
          /\ svc'[i].server = 0 \/ svc'[i].process = 0
          /\ svc'[i].job = NoTask <=> svc'[i].at = "begin"
    BY <1>7 DEF InstanceOK, JobOK, CoresOK
  <2>2. \A i \in Instances : svc'[i].state = "none" <=>
          i > made' \/ Message("create", i, 0) \in {main'[k] : k \in DOMAIN main'}
    <3>1. ASSUME NEW i \in Instances
          PROVE  svc'[i].state = "none" <=>
                   svc[i].state = "none" /\ ~(main[1].op = "create" /\ main[1].to = i)
      BY <1>2, <3>1 DEF Created
    <3> QED BY <1>1, <1>3, <3>1 DEF TypeOK
  <2>3. main' \in Seq(Messages)
    <3>1. main \in Seq(Messages) BY <1>1, MainTyped
    <3> QED BY <3>1
  <2>4. iface'.kind \in {"none", "tun", "hole"} /\ iface'.by \in 0 .. made'
    BY DEF IfaceOK
  <2>5. live' \subseteq {s \in Sessions : core'[s] # "none"} BY DEF Sent
  <2>6. notices' \subseteq [op : Reports, to : Instances, session : Sessions]
    BY DEF NoticeSet
  <2> QED BY <1>1, <2>1, <2>2, <2>3, <2>4, <2>5, <2>6 DEF TypeOK, ServiceSet
<1> QED BY <1>3, <1>4, <1>6, <1>8, <1>9 DEF TypeInv

(* The main thread keeps the type invariant.                               *)
LEMMA MainType ==
  ASSUME TypeInv, Main
  PROVE  TypeInv'
<1>1. TypeOK /\ MainOK /\ OneUp /\ InstancesOK /\ NoticesOK /\ IfaceOK BY DEF TypeInv
<1>2. \A i \in Instances : svc[i] \in ServiceSet /\ InstanceOK(svc[i])
  BY <1>1, InstanceTyped DEF InstancesOK
<1>3. live \subseteq Sent /\ notices \subseteq NoticeSet /\ odd \subseteq Orders
  BY <1>1 DEF TypeOK, Sent, NoticeSet
<1>4. CASE OnCreate
  <2>1. PICK j \in Instances :
          /\ j = main[1].to /\ main[1].op = "create" /\ main # <<>> /\ main' = Tail(main)
          /\ svc[j] = Fresh /\ \A i \in Instances : i < j => Gone(i)
          /\ svc' \in [Instances -> ServiceSet]
          /\ \A i \in Instances \ {j} : svc'[i] = svc[i]
          /\ svc'[j].state = "up" /\ svc'[j].active = pref /\ svc'[j].queue = <<>>
          /\ svc'[j].job = NoTask /\ svc'[j].at = "begin" /\ ~svc'[j].expected
          /\ svc'[j].server = 0 /\ svc'[j].process = 0 /\ ~svc'[j].bridge /\ ~svc'[j].hole
          /\ phase' = phase /\ pref' = pref /\ record' = record /\ wanted' = wanted
          /\ made' = made /\ iface' = iface /\ live' = live /\ notices' = notices
          /\ core' = core /\ stops' = stops /\ toggles' = toggles /\ odd' = odd
    BY <1>4, CreateStep
  <2>2. InstanceOK(svc'[j])
    <3>1. QueueOK(svc'[j].queue) BY <2>1 DEF QueueOK
    <3>2. JobOK(svc'[j]) BY <2>1 DEF JobOK, Startup, NoTask, Task
    <3>3. CoresOK(svc'[j]) BY <2>1 DEF CoresOK
    <3> QED BY <3>1, <3>2, <3>3 DEF InstanceOK, QueueOK, JobOK, CoresOK
  <2>3. \A i \in Instances \ {j} : svc[i].state # "up"
    <3>1. ~Created(j) BY <2>1 DEF Created, Fresh
    <3>2. \A i \in Instances : j < i => ~Created(i)
      BY <1>1, <3>1 DEF MainOK, OneAfterAnother
    <3>3. \A i \in Instances \ {j} : i < j \/ j < i BY <1>1, MainTyped
    <3> QED BY <2>1, <3>2, <3>3 DEF Created, Gone
  <2>4. svc[j].state = "none" BY <2>1 DEF Fresh
  <2>5. NoticesOK' /\ IfaceOK' BY <1>1, <2>1 DEF NoticesOK, IfaceOK, Sent
  <2> QED BY <1>3, <2>1, <2>2, <2>3, <2>4, <2>5, HandledType
<1>5. CASE OnStartCommand
  <2>1. PICK j \in Instances, t \in Tasks :
           /\ j = main[1].to /\ main[1].op \in {"start", "stop"} /\ Created(j)
           /\ main # <<>> /\ main' = Tail(main)
           /\ t = Task(main[1].op, main[1].session) /\ t.op = main[1].op
           /\ t.session = main[1].session
           /\ t.op = "start" => t.session \in Sent
           /\ svc' = [svc EXCEPT ![j] = Dispatched(svc[j], t)]
           /\ svc' \in [Instances -> ServiceSet]
           /\ \A i \in Instances \ {j} : svc'[i] = svc[i]
           /\ svc'[j] = Dispatched(svc[j], t)
           /\ phase' = phase /\ pref' = pref /\ record' = record /\ wanted' = wanted
           /\ made' = made /\ iface' = iface /\ live' = live /\ notices' = notices
           /\ core' = core /\ stops' = stops /\ toggles' = toggles /\ odd' = odd
    BY <1>5, StartCommandStep
  <2>2. SameButQueue(svc[j], svc'[j]) BY <1>2, <2>1, DispatchFacts
  <2>3. InstanceOK(svc'[j])
    <3>1. t.op # "none" /\ (t.op \in {"start"} \cup Reports => t.session \in Sent)
      BY <2>1 DEF Reports
    <3> QED BY <1>2, <2>1, <3>1, DispatchedOK
  <2>4. svc'[j].state = svc[j].state /\ svc[j].state # "none"
    BY <2>1, <2>2 DEF SameButQueue, Created
  <2>5. NoticesOK' /\ IfaceOK' BY <1>1, <2>1 DEF NoticesOK, IfaceOK, Sent
  <2> QED BY <1>3, <2>1, <2>3, <2>4, <2>5, HandledType
<1>6. CASE OnRevoke
  <2>1. PICK j \in Instances, t \in Tasks :
           /\ j = main[1].to /\ main[1].op = "revoke" /\ Created(j)
           /\ main # <<>> /\ main' = Tail(main)
           /\ t = Task("stop", 0) /\ t.op = "stop"
           /\ svc' \in [Instances -> ServiceSet]
           /\ \A i \in Instances \ {j} : svc'[i] = svc[i]
           /\ SameButQueue(svc[j], svc'[j]) /\ svc'[j].expected
           /\ svc[j].state = "up" => svc'[j].queue = Append(svc[j].queue, t)
           /\ svc[j].state # "up" => svc'[j].queue = svc[j].queue
           /\ phase' = phase /\ pref' = pref /\ record' = record /\ wanted' = wanted
           /\ made' = made /\ iface' = iface /\ live' = live /\ notices' = notices
           /\ core' = core /\ stops' = stops /\ toggles' = toggles /\ odd' = odd
    BY <1>6, RevokeStep
  <2>2. InstanceOK(svc'[j])
    <3>1. CASE svc[j].state = "up" BY <1>2, <2>1, <3>1, QueuedOK DEF Reports
    <3>2. CASE svc[j].state # "up"
      <4>1. svc[j].state # "none" BY <2>1 DEF Created
      <4>2. svc'[j].queue = svc[j].queue BY <2>1, <3>2
      <4>3. QueueOK(svc[j].queue) /\ JobOK(svc[j]) /\ CoresOK(svc[j])
        BY <1>2 DEF InstanceOK
      <4>4. JobOK(svc'[j]) /\ CoresOK(svc'[j])
        BY <2>1, <4>1, <4>2, <4>3 DEF JobOK, CoresOK, SameButQueue, Owned
      <4> QED BY <4>2, <4>3, <4>4 DEF InstanceOK
    <3> QED BY <3>1, <3>2
  <2>3. svc'[j].state = svc[j].state /\ svc[j].state # "none"
    BY <2>1 DEF SameButQueue, Created
  <2>4. NoticesOK' /\ IfaceOK' BY <1>1, <2>1 DEF NoticesOK, IfaceOK, Sent
  <2> QED BY <1>3, <2>1, <2>2, <2>3, <2>4, HandledType
<1>7. CASE OnDestroy
  <2>1. PICK j \in Instances :
           /\ j = main[1].to /\ main[1].op = "destroy" /\ Created(j)
           /\ main # <<>> /\ main' = Tail(main)
           /\ StopActiveRuntime(j) /\ iface' = Closing({"tun", "hole"}, j)
           /\ svc' \in [Instances -> ServiceSet]
           /\ \A i \in Instances \ {j} : svc'[i] = svc[i]
           /\ svc'[j].state = "gone" /\ svc'[j].queue = <<>> /\ svc'[j].job = svc[j].job
           /\ svc'[j].at = svc[j].at /\ svc'[j].expected /\ ~svc'[j].hole
           /\ svc'[j].server = 0 /\ svc'[j].process = 0 /\ ~svc'[j].bridge
           /\ phase' = phase /\ pref' = pref /\ record' = record /\ wanted' = wanted
           /\ made' = made /\ core' = core /\ stops' = stops /\ toggles' = toggles
           /\ odd \subseteq odd' /\ odd' \subseteq odd \cup {"dropped", "destroyed"}
           /\ phase \in {"connecting", "connected"} => "destroyed" \in odd'
    BY <1>7, DestroyStep
  <2>2. InstanceOK(svc'[j])
    <3>1. JobOK(svc[j]) BY <1>2 DEF InstanceOK
    <3> QED BY <2>1, <3>1 DEF InstanceOK, QueueOK, JobOK, CoresOK, Owned
  <2>3. odd' \subseteq Orders BY <1>3, <2>1 DEF Orders
  <2>4. Sent' = Sent BY <2>1 DEF Sent
  <2>5. Owned(svc[j]) \subseteq Sent BY <1>2, OwnedTyped DEF InstanceOK, CoresOK
  <2>6. live' \subseteq Sent /\ notices' \subseteq NoticeSet /\ NoticesOK'
    BY <1>1, <1>3, <2>1, <2>4, <2>5, StopTyped DEF NoticesOK
  <2>7. IfaceOK'
    <3>1. iface' = iface \/ iface' = NoIface BY <2>1 DEF Closing
    <3>2. made \in Nat BY <1>1, MainTyped
    <3>3. CASE iface' = iface BY <1>1, <2>1, <3>3 DEF IfaceOK
    <3>4. CASE iface' = NoIface BY <2>1, <3>2, <3>4 DEF IfaceOK, NoIface, Iface
    <3> QED BY <3>1, <3>3, <3>4
  <2> QED BY <2>1, <2>2, <2>3, <2>6, <2>7, HandledType
<1> QED BY <1>4, <1>5, <1>6, <1>7 DEF Main

(* Every step keeps the type invariant.                                    *)
LEMMA TypeStep ==
  ASSUME TypeInv, [Next]_vars
  PROVE  TypeInv'
<1>1. CASE Client
  BY <1>1, ClientStartType, ClientStopType, RevokeType, ToggleType DEF Client
<1>2. CASE Main BY <1>2, MainType
<1>3. CASE BringDown BY <1>3, BringDownType
<1>4. CASE \E i \in Instances : Executor(i) BY <1>4, ExecutorType
<1>5. CASE \E i \in Instances, s \in Sessions : CoreDies(i, s) BY <1>5, CoreDiesType
<1>6. CASE \E n \in notices : ReportCore(n) \/ ReportDisconnected(n) BY <1>6, ReportType
<1>7. CASE UNCHANGED vars
  <2>1. /\ phase' = phase /\ pref' = pref /\ core' = core /\ svc' = svc /\ main' = main
        /\ record' = record /\ wanted' = wanted /\ iface' = iface /\ live' = live
        /\ notices' = notices /\ made' = made /\ stops' = stops /\ toggles' = toggles
        /\ odd' = odd
    BY <1>7 DEF vars, system, sent
  <2>2. Sent' = Sent /\ Up' = Up BY <2>1 DEF Sent, Up
  <2>3. TypeOK' BY <2>1 DEF TypeInv, TypeOK
  <2>4. MainOK'
    BY <2>1, <2>2 DEF TypeInv, MainOK, MessageOK, OneAfterAnother, RecordOK, Created, Gone,
      Before, InMain
  <2>5. OneUp' /\ SentOK' BY <2>1, <2>2 DEF TypeInv, OneUp, SentOK
  <2>6. InstancesOK'
    BY <2>1, <2>2 DEF TypeInv, InstancesOK, InstanceOK, QueueOK, JobOK, CoresOK
  <2>7. NoticesOK' /\ IfaceOK' BY <2>1, <2>2 DEF TypeInv, NoticesOK, IfaceOK
  <2> QED BY <2>3, <2>4, <2>5, <2>6, <2>7 DEF TypeInv
<1> QED BY <1>1, <1>2, <1>3, <1>4, <1>5, <1>6, <1>7 DEF Next

-----------------------------------------------------------------------------
(* The preference.                                                         *)
LEMMA FollowsKept ==
  ASSUME NEW r, NEW d, NEW p \in BOOLEAN, NEW u \in BOOLEAN, NEW v \in BOOLEAN,
         Follows(r, p, u), d.queue = r.queue, u => v,
         (d.active <=> r.active) \/ (~d.active /\ v)
  PROVE  Follows(d, p, v)
<1>1. Switches(d) = Switches(r) BY DEF Switches
<1> QED BY <1>1 DEF Follows

(* A task that is no switch changes nothing of what the instance will      *)
(* follow.                                                                 *)
LEMMA FollowsQueued ==
  ASSUME NEW r \in ServiceSet, NEW d, NEW t \in Tasks, NEW p \in BOOLEAN, NEW u \in BOOLEAN,
         Follows(r, p, u), d.queue = Append(r.queue, t), d.active = r.active,
         t.op # "on", t.op # "off"
  PROVE  Follows(d, p, u)
<1>1. /\ Len(r.queue) \in Nat /\ DOMAIN r.queue = 1 .. Len(r.queue)
      /\ DOMAIN d.queue = 1 .. Len(r.queue) + 1
      /\ \A n \in DOMAIN r.queue : d.queue[n] = r.queue[n]
      /\ d.queue[Len(r.queue) + 1] = t
  BY AppendAt DEF ServiceSet
<1>2. Switches(d) = Switches(r) BY <1>1 DEF Switches
<1>3. \A n \in Switches(r) : d.queue[n] = r.queue[n] BY <1>1 DEF Switches
<1>4. d.active <=> r.active OBVIOUS
<1> QED BY <1>2, <1>3, <1>4 DEF Follows

(* After a switch has been queued, the instance will follow it.            *)
LEMMA FollowsSwitched ==
  ASSUME NEW r \in ServiceSet, NEW d, NEW t \in Tasks, NEW p \in BOOLEAN, NEW u \in BOOLEAN,
         d.queue = Append(r.queue, t), t.op \in {"on", "off"}, p <=> t.op = "on"
  PROVE  Follows(d, p, u)
<1>1. /\ Len(r.queue) \in Nat /\ DOMAIN r.queue = 1 .. Len(r.queue)
      /\ DOMAIN d.queue = 1 .. Len(r.queue) + 1
      /\ d.queue[Len(r.queue) + 1] = t
  BY AppendAt DEF ServiceSet
<1>2. Len(r.queue) + 1 \in Switches(d) BY <1>1 DEF Switches
<1>3. \A n \in Switches(d) : n \in Nat /\ n <= Len(r.queue) + 1 BY <1>1 DEF Switches
<1>4. ASSUME NEW n \in Switches(d), \A m \in Switches(d) : m <= n
      PROVE  p <=> d.queue[n].op = "on"
  <2>1. n = Len(r.queue) + 1 BY <1>1, <1>2, <1>3, <1>4
  <2> QED BY <1>1, <2>1
<1> QED BY <1>2, <1>4 DEF Follows

(* A switch that is taken is followed, unless the blackhole failed.        *)
LEMMA FollowsTaken ==
  ASSUME NEW r \in ServiceSet, NEW d, NEW p \in BOOLEAN, NEW u \in BOOLEAN, NEW v \in BOOLEAN,
         Follows(r, p, u), r.queue # <<>>, d.queue = Tail(r.queue), u => v,
         \/ Head(r.queue).op = "on" /\ d.active
         \/ Head(r.queue).op = "off" /\ ~d.active
         \/ /\ Head(r.queue).op \notin {"on", "off"}
            /\ (d.active <=> r.active) \/ (~d.active /\ v)
  PROVE  Follows(d, p, v)
<1>1. r.queue \in Seq(Tasks) BY DEF ServiceSet
<1>2. /\ Len(r.queue) \in Nat \ {0} /\ DOMAIN r.queue = 1 .. Len(r.queue)
      /\ DOMAIN d.queue = 1 .. Len(r.queue) - 1 /\ Head(r.queue) = r.queue[1]
      /\ \A n \in DOMAIN d.queue : d.queue[n] = r.queue[n + 1]
  BY <1>1, TailAt
<1>3. \A n \in Switches(d) : /\ n \in Nat /\ n + 1 \in Switches(r)
                             /\ d.queue[n] = r.queue[n + 1]
  BY <1>2 DEF Switches
<1>4. \A n \in Switches(r) : n \in Nat /\ (n = 1 \/ n - 1 \in Switches(d))
  <2>1. ASSUME NEW n \in Switches(r), n # 1 PROVE n - 1 \in Switches(d)
    <3>1. n \in DOMAIN r.queue /\ n \in Nat /\ n - 1 \in DOMAIN d.queue
      BY <1>2, <2>1 DEF Switches
    <3>2. d.queue[n - 1] = r.queue[n] BY <1>2, <3>1
    <3> QED BY <2>1, <3>1, <3>2 DEF Switches
  <2> QED BY <1>2, <2>1 DEF Switches
<1>5. ASSUME NEW n \in Switches(d), \A m \in Switches(d) : m <= n
      PROVE  p <=> d.queue[n].op = "on"
  <2>1. \A m \in Switches(r) : m <= n + 1
    <3>1. ASSUME NEW m \in Switches(r) PROVE m <= n + 1
      <4>1. m = 1 \/ m - 1 <= n BY <1>4, <1>5
      <4> QED BY <1>3, <1>4, <4>1
    <3> QED BY <3>1
  <2> QED BY <1>3, <2>1 DEF Follows
<1>6. ASSUME Switches(d) = {}
      PROVE  (d.active => p) /\ (p => d.active \/ v)
  <2>1. CASE Switches(r) = {}
    <3>1. Head(r.queue).op \notin {"on", "off"} BY <1>2, <2>1 DEF Switches
    <3> QED BY <2>1, <3>1 DEF Follows
  <2>2. CASE Switches(r) # {}
    <3>1. Switches(r) = {1} BY <1>4, <1>6, <2>2
    <3>2. p <=> r.queue[1].op = "on" BY <3>1 DEF Follows
    <3>3. r.queue[1].op \in {"on", "off"} BY <3>1 DEF Switches
    <3> QED BY <1>2, <3>2, <3>3
  <2> QED BY <2>1, <2>2
<1> QED BY <1>5, <1>6 DEF Follows

(* The executors follow the preference.                                    *)
LEMMA PrefExecutor ==
  ASSUME TypeInv, PrefOK, NEW i \in Instances, Executor(i)
  PROVE  PrefOK'
<1>1. TypeOK /\ IfaceOK BY DEF TypeInv
<1>2. /\ pref' = pref /\ odd \subseteq odd'
      /\ \A j \in Instances \ {i} : svc'[j] = svc[j]
      /\ svc'[i].state = svc[i].state
  BY <1>1, ExecutorFrame
<1>3. svc[i] \in ServiceSet /\ pref \in BOOLEAN BY <1>1, InstanceTyped DEF TypeOK
<1>4. Up' = Up
  <2>1. \A j \in Instances : svc'[j].state = svc[j].state BY <1>2
  <2> QED BY <2>1 DEF Up
<1>5. PICK p \in BOOLEAN : p = pref BY <1>3
<1>6. PICK u \in BOOLEAN : u <=> "unprotected" \in odd
  <2>1. CASE "unprotected" \in odd
    <3>1. TRUE <=> "unprotected" \in odd BY <2>1
    <3> QED BY <3>1
  <2>2. CASE "unprotected" \notin odd
    <3>1. FALSE <=> "unprotected" \in odd BY <2>2
    <3> QED BY <3>1
  <2> QED BY <2>1, <2>2
<1>7. PICK v \in BOOLEAN : v <=> "unprotected" \in odd'
  <2>1. CASE "unprotected" \in odd'
    <3>1. TRUE <=> "unprotected" \in odd' BY <2>1
    <3> QED BY <3>1
  <2>2. CASE "unprotected" \notin odd'
    <3>1. FALSE <=> "unprotected" \in odd' BY <2>2
    <3> QED BY <3>1
  <2> QED BY <2>1, <2>2
<1>8. u => v BY <1>2, <1>6, <1>7
<1>9. \A j \in Up : Follows(svc[j], p, u) BY <1>5, <1>6 DEF PrefOK
<1>10. ASSUME i \in Up PROVE Follows(svc'[i], p, v)
  <2>1. Follows(svc[i], p, u) BY <1>9, <1>10
  <2>2. CASE Effect(i, svc[i], svc'[i])
    <3>1. CASE /\ svc'[i].queue = svc[i].queue /\ (svc'[i].active <=> svc[i].active)
      BY <1>8, <2>1, <3>1, FollowsKept
    <3>2. CASE /\ svc[i].queue # <<>> /\ svc'[i].queue = Tail(svc[i].queue)
               /\ \/ Head(svc[i].queue).op = "on" /\ svc'[i].active
                  \/ Head(svc[i].queue).op = "off" /\ ~svc'[i].active
                  \/ /\ Head(svc[i].queue).op \notin {"on", "off"}
                     /\ svc'[i].active <=> svc[i].active
      BY <1>3, <1>8, <2>1, <3>2, FollowsTaken
    <3>3. CASE Blocks(i, svc[i], svc'[i])
      <4>1. /\ svc'[i].queue = svc[i].queue
            /\ (svc'[i].active <=> svc[i].active) \/ (~svc'[i].active /\ v)
        BY <1>7, <3>3 DEF Blocks
      <4> QED BY <1>8, <2>1, <4>1, FollowsKept
    <3> QED
      BY <2>2, <3>1, <3>2, <3>3 DEF Effect, Starting, Resets, Stops, Launches, Bridges,
        Ends, Switched, Ignores, Takes, SameBlock
  <2>3. CASE Failed(i, svc[i], svc'[i])
    <3>1. svc'[i].active <=> svc[i].active BY <2>3 DEF Failed, SameBlock
    <3>2. CASE svc'[i].queue = svc[i].queue BY <1>8, <2>1, <3>1, <3>2, FollowsKept
    <3>3. CASE /\ svc[i].queue # <<>> /\ svc'[i].queue = Tail(svc[i].queue)
               /\ Head(svc[i].queue).op \notin {"on", "off"}
      BY <1>3, <1>8, <2>1, <3>1, <3>3, FollowsTaken
    <3> QED BY <2>3, <3>2, <3>3 DEF Failed, Failing, LibboxReported, Begins
  <2> QED BY <1>1, <2>2, <2>3, Effects, Failures
<1>11. ASSUME NEW j \in Up, j # i PROVE Follows(svc'[j], p, v)
  <2>1. svc'[j] = svc[j] /\ Follows(svc[j], p, u) BY <1>2, <1>9, <1>11 DEF Up
  <2> QED BY <1>8, <2>1, FollowsKept
<1>12. \A j \in Up : Follows(svc'[j], p, v) BY <1>10, <1>11
<1>13. \A j \in Up' : Follows(svc'[j], pref', "unprotected" \in odd')
  BY <1>2, <1>4, <1>5, <1>7, <1>12
<1> QED BY <1>13 DEF PrefOK, Follows, Switches

(* Every step keeps what the instances follow.                             *)
LEMMA PrefStep ==
  ASSUME TypeInv, PrefOK, [Next]_vars
  PROVE  PrefOK'
<1>1. TypeOK /\ IfaceOK /\ OneUp BY DEF TypeInv
<1>2. \A j \in Instances : svc[j] \in ServiceSet BY <1>1, InstanceTyped
<1>3. pref \in BOOLEAN BY <1>1 DEF TypeOK
<1>4. PICK p \in BOOLEAN : p = pref BY <1>3
<1>5. PICK u \in BOOLEAN : u <=> "unprotected" \in odd
  <2>1. CASE "unprotected" \in odd
    <3>1. TRUE <=> "unprotected" \in odd BY <2>1
    <3> QED BY <3>1
  <2>2. CASE "unprotected" \notin odd
    <3>1. FALSE <=> "unprotected" \in odd BY <2>2
    <3> QED BY <3>1
  <2> QED BY <2>1, <2>2
<1>6. PICK v \in BOOLEAN : v <=> "unprotected" \in odd'
  <2>1. CASE "unprotected" \in odd'
    <3>1. TRUE <=> "unprotected" \in odd' BY <2>1
    <3> QED BY <3>1
  <2>2. CASE "unprotected" \notin odd'
    <3>1. FALSE <=> "unprotected" \in odd' BY <2>2
    <3> QED BY <3>1
  <2> QED BY <2>1, <2>2
<1>7. \A j \in Up : Follows(svc[j], p, u) BY <1>4, <1>5 DEF PrefOK
<1>8. ASSUME odd' = odd \/ odd \subseteq odd', pref' = pref,
             \A j \in Up' : (j \in Up /\ svc'[j] = svc[j]) \/ Follows(svc'[j], p, v)
      PROVE  PrefOK'
  <2>1. u => v BY <1>5, <1>6, <1>8
  <2>2. \A j \in Up' : Follows(svc'[j], p, v)
    <3>1. ASSUME NEW j \in Up', j \in Up, svc'[j] = svc[j] PROVE Follows(svc'[j], p, v)
      BY <1>7, <2>1, <3>1, FollowsKept
    <3> QED BY <1>8, <3>1
  <2> QED BY <1>4, <1>6, <1>8, <2>2 DEF PrefOK, Follows, Switches
<1>9. CASE \/ \E c \in {"xray", "singBox"} : ClientStart(c)
           \/ ClientStop \/ Revoke \/ BringDown \/ UNCHANGED vars
           \/ \E i \in Instances, s \in Sessions : CoreDies(i, s)
  <2>1. svc' = svc /\ pref' = pref /\ odd' = odd
    BY <1>9 DEF ClientStart, ClientStop, Revoke, BringDown, CoreDies, vars
  <2>2. Up' = Up BY <2>1 DEF Up
  <2> QED BY <1>8, <2>1, <2>2
<1>10. CASE ToggleKillswitch
  <2>1. /\ pref' = ~pref /\ odd' = odd
        /\ svc' = [i \in Instances |-> Dispatched(svc[i], Task(IF pref THEN "off" ELSE "on", 0))]
    BY <1>10 DEF ToggleKillswitch
  <2>2. PICK t \in Tasks : /\ t = Task(IF pref THEN "off" ELSE "on", 0)
                           /\ t.op \in {"on", "off"} /\ (t.op = "on" <=> ~pref)
    <3>1. 0 \in 0 .. MaxStarts BY Bounds
    <3>2. CASE pref BY <3>1, <3>2, TaskTyped
    <3>3. CASE ~pref BY <3>1, <3>3, TaskTyped
    <3> QED BY <3>2, <3>3
  <2>3. PICK q \in BOOLEAN : q = ~pref OBVIOUS
  <2>4. \A j \in Instances : svc'[j] = Dispatched(svc[j], t) BY <2>1, <2>2
  <2>5. ASSUME NEW j \in Up' PROVE Follows(svc'[j], q, v)
    <3>1. j \in Instances /\ svc'[j].state = "up" BY DEF Up
    <3>2. svc[j].state = "up" BY <1>2, <2>4, <3>1, DispatchFacts DEF SameButQueue
    <3>3. svc'[j].queue = Append(svc[j].queue, t) BY <1>2, <2>4, <3>1, <3>2, DispatchFacts
    <3> QED BY <1>2, <2>2, <2>3, <3>1, <3>3, FollowsSwitched
  <2> QED BY <1>6, <2>1, <2>3, <2>5 DEF PrefOK, Follows, Switches
<1>11. CASE OnCreate
  <2>1. PICK j \in Instances :
          /\ \A i \in Instances \ {j} : svc'[i] = svc[i]
          /\ svc'[j].active = pref /\ svc'[j].queue = <<>>
          /\ pref' = pref /\ odd' = odd
    BY <1>11, CreateStep
  <2>2. Follows(svc'[j], p, v)
    <3>1. Switches(svc'[j]) = {} BY <2>1 DEF Switches
    <3> QED BY <1>4, <2>1, <3>1 DEF Follows
  <2> QED BY <1>8, <2>1, <2>2 DEF Up
<1>12. CASE OnStartCommand
  <2>1. PICK j \in Instances, t \in Tasks :
           /\ main[1].op \in {"start", "stop"} /\ t.op = main[1].op
           /\ \A i \in Instances \ {j} : svc'[i] = svc[i]
           /\ svc'[j] = Dispatched(svc[j], t)
           /\ pref' = pref /\ odd' = odd
    BY <1>12, StartCommandStep
  <2>2. ASSUME j \in Up' PROVE Follows(svc'[j], p, v)
    <3>1. svc[j].state = "up" BY <1>2, <2>1, <2>2, DispatchFacts DEF SameButQueue, Up
    <3>2. svc'[j].queue = Append(svc[j].queue, t) /\ svc'[j].active = svc[j].active
      BY <1>2, <2>1, <3>1, DispatchFacts DEF SameButQueue
    <3>3. Follows(svc[j], p, u) BY <1>7, <3>1 DEF Up
    <3>4. u <=> v BY <1>5, <1>6, <2>1
    <3>5. Follows(svc[j], p, v) BY <3>3, <3>4 DEF Follows
    <3>6. t.op # "on" /\ t.op # "off" BY <2>1
    <3>7. svc[j] \in ServiceSet BY <1>2
    <3>8. PICK r \in ServiceSet : r = svc[j] BY <3>7
    <3>9. PICK d : d = svc'[j] OBVIOUS
    <3>10. d.queue = Append(r.queue, t) /\ d.active = r.active /\ Follows(r, p, v)
      BY <3>2, <3>5, <3>8, <3>9
    <3>11. Follows(d, p, v) BY <3>6, <3>10, FollowsQueued
    <3> QED BY <3>9, <3>11
  <2> QED BY <1>8, <2>1, <2>2 DEF Up
<1>13. CASE OnRevoke
  <2>1. PICK j \in Instances, t \in Tasks :
           /\ t.op = "stop"
           /\ \A i \in Instances \ {j} : svc'[i] = svc[i]
           /\ SameButQueue(svc[j], svc'[j])
           /\ svc[j].state = "up" => svc'[j].queue = Append(svc[j].queue, t)
           /\ pref' = pref /\ odd' = odd
    BY <1>13, RevokeStep
  <2>2. ASSUME j \in Up' PROVE Follows(svc'[j], p, v)
    <3>1. svc[j].state = "up" BY <2>1, <2>2 DEF SameButQueue, Up
    <3>2. svc'[j].queue = Append(svc[j].queue, t) /\ svc'[j].active = svc[j].active
      BY <2>1, <3>1 DEF SameButQueue
    <3>3. Follows(svc[j], p, u) BY <1>7, <3>1 DEF Up
    <3>4. u <=> v BY <1>5, <1>6, <2>1
    <3>5. Follows(svc[j], p, v) BY <3>3, <3>4 DEF Follows
    <3>6. t.op # "on" /\ t.op # "off" BY <2>1
    <3>7. svc[j] \in ServiceSet BY <1>2
    <3>8. PICK r \in ServiceSet : r = svc[j] BY <3>7
    <3>9. PICK d : d = svc'[j] OBVIOUS
    <3>10. d.queue = Append(r.queue, t) /\ d.active = r.active /\ Follows(r, p, v)
      BY <3>2, <3>5, <3>8, <3>9
    <3>11. Follows(d, p, v) BY <3>6, <3>10, FollowsQueued
    <3> QED BY <3>9, <3>11
  <2> QED BY <1>8, <2>1, <2>2 DEF Up
<1>14. CASE OnDestroy
  <2>1. PICK j \in Instances :
           /\ \A i \in Instances \ {j} : svc'[i] = svc[i]
           /\ svc'[j].state = "gone"
           /\ pref' = pref /\ odd \subseteq odd'
    BY <1>14, DestroyStep
  <2> QED BY <1>8, <2>1 DEF Up
<1>15. CASE \E n \in notices : ReportCore(n) \/ ReportDisconnected(n)
  <2>1. PICK n \in notices : ReportCore(n) \/ ReportDisconnected(n) BY <1>15
  <2>2. PICK j \in Instances, t \in Tasks :
          /\ t.op \in Reports
          /\ svc'[j] = Dispatched(svc[j], t) \/ svc'[j] = svc[j]
          /\ \A i \in Instances \ {j} : svc'[i] = svc[i]
          /\ pref' = pref /\ odd' = odd
    BY <2>1, ReportStep
  <2>3. ASSUME j \in Up' PROVE Follows(svc'[j], p, v)
    <3>1. svc[j].state = "up" BY <1>2, <2>2, <2>3, DispatchFacts DEF SameButQueue, Up
    <3>2. Follows(svc[j], p, u) BY <1>7, <3>1 DEF Up
    <3>3. u <=> v BY <1>5, <1>6, <2>2
    <3>4. Follows(svc[j], p, v) BY <3>2, <3>3 DEF Follows
    <3>5. CASE svc'[j] = svc[j] BY <3>5, <3>4
    <3>6. CASE svc'[j] = Dispatched(svc[j], t)
      <4>1. svc'[j].queue = Append(svc[j].queue, t) /\ svc'[j].active = svc[j].active
        BY <1>2, <3>1, <3>6, DispatchFacts DEF SameButQueue
      <4>2. t.op # "on" /\ t.op # "off" BY <2>2 DEF Reports
      <4>3. svc[j] \in ServiceSet BY <1>2
      <4>4. PICK r \in ServiceSet : r = svc[j] BY <4>3
      <4>5. PICK d : d = svc'[j] OBVIOUS
      <4>6. d.queue = Append(r.queue, t) /\ d.active = r.active /\ Follows(r, p, v)
        BY <4>1, <3>4, <4>4, <4>5
      <4>7. Follows(d, p, v) BY <4>2, <4>6, FollowsQueued
      <4> QED BY <4>5, <4>7
    <3> QED BY <2>2, <3>5, <3>6
  <2> QED BY <1>8, <2>2, <2>3 DEF Up
<1>16. CASE \E i \in Instances : Executor(i) BY <1>16, PrefExecutor
<1> QED
  BY <1>9, <1>10, <1>11, <1>12, <1>13, <1>14, <1>15, <1>16 DEF Next, Client, Main

-----------------------------------------------------------------------------
(* What waits in a queue after Append and after Tail.                      *)
LEMMA Appended ==
  ASSUME NEW S, NEW q \in Seq(S), NEW x \in S
  PROVE  /\ \A op : Has(Append(q, x), op) <=> Has(q, op) \/ x.op = op
         /\ \A op, s : HasOf(Append(q, x), op, s)
              <=> HasOf(q, op, s) \/ (x.op = op /\ x.session = s)
         /\ x.op # "start" => StartsOf(Append(q, x)) = StartsOf(q)
         /\ StartsOf(Append(q, x)) \subseteq StartsOf(q) \cup {x.session}
         /\ x.op \notin Reports => ReportsOf(Append(q, x)) = ReportsOf(q)
         /\ ReportsOf(Append(q, x)) \subseteq ReportsOf(q) \cup {x.session}
         /\ Distinct(q) /\ (x.op = "start" => ~HasOf(q, "start", x.session))
              => Distinct(Append(q, x))
<1>1. /\ Len(q) \in Nat /\ DOMAIN q = 1 .. Len(q)
      /\ DOMAIN Append(q, x) = 1 .. Len(q) + 1
      /\ \A n \in DOMAIN q : Append(q, x)[n] = q[n]
      /\ Append(q, x)[Len(q) + 1] = x
  BY AppendAt
<1>2. PICK a : a = Append(q, x) OBVIOUS
<1>3. PICK last \in Nat : last = Len(q) + 1 BY <1>1
<1>4. /\ DOMAIN a = DOMAIN q \cup {last} /\ last \notin DOMAIN q
      /\ \A n \in DOMAIN q : a[n] = q[n]
      /\ a[last] = x
  BY <1>1, <1>2, <1>3
<1>5. \A op : Has(a, op) <=> Has(q, op) \/ x.op = op BY <1>4 DEF Has
<1>6. \A op, s : HasOf(a, op, s) <=> HasOf(q, op, s) \/ (x.op = op /\ x.session = s)
  BY <1>4 DEF HasOf
<1>7. /\ x.op # "start" => StartsOf(a) = StartsOf(q)
      /\ StartsOf(a) \subseteq StartsOf(q) \cup {x.session}
  BY <1>6 DEF StartsOf
<1>8. /\ x.op \notin Reports => ReportsOf(a) = ReportsOf(q)
      /\ ReportsOf(a) \subseteq ReportsOf(q) \cup {x.session}
  BY <1>6 DEF ReportsOf
<1>9. ASSUME Distinct(q), x.op = "start" => ~HasOf(q, "start", x.session)
      PROVE  Distinct(a)
  BY <1>4, <1>9 DEF Distinct, HasOf
<1> QED BY <1>2, <1>5, <1>6, <1>7, <1>8, <1>9

(* What waits when the first has been taken.                               *)
LEMMA Removed ==
  ASSUME NEW S, NEW q \in Seq(S), q # <<>>
  PROVE  /\ \A op : Has(q, op) <=> Has(Tail(q), op) \/ Head(q).op = op
         /\ \A op, s : HasOf(q, op, s)
              <=> HasOf(Tail(q), op, s) \/ (Head(q).op = op /\ Head(q).session = s)
         /\ StartsOf(Tail(q)) \subseteq StartsOf(q)
         /\ ReportsOf(Tail(q)) \subseteq ReportsOf(q)
         /\ Distinct(q) => /\ Distinct(Tail(q))
                           /\ Head(q).op = "start" => Head(q).session \notin StartsOf(Tail(q))
         /\ Head(q).op = "start" /\ Head(q).session \in Sessions
              => Head(q).session \in StartsOf(q)
         /\ Head(q).op \in Reports /\ Head(q).session \in Sessions
              => Head(q).session \in ReportsOf(q)
<1>1. /\ Len(q) \in Nat \ {0} /\ DOMAIN q = 1 .. Len(q)
      /\ DOMAIN Tail(q) = 1 .. Len(q) - 1 /\ Head(q) = q[1]
      /\ \A n \in DOMAIN Tail(q) : Tail(q)[n] = q[n + 1]
  BY TailAt
<1>2. PICK a : a = Tail(q) OBVIOUS
<1>3. /\ \A n \in DOMAIN a : n + 1 \in DOMAIN q /\ n + 1 # 1 /\ a[n] = q[n + 1]
      /\ \A n \in DOMAIN q : n # 1 => n - 1 \in DOMAIN a /\ a[n - 1] = q[n]
      /\ 1 \in DOMAIN q
      /\ \A n, m \in DOMAIN a : n + 1 = m + 1 => n = m
  BY <1>1, <1>2
<1>4. PICK x : x = Head(q) /\ x = q[1] BY <1>1
<1>5. \A op : Has(q, op) <=> Has(a, op) \/ x.op = op
  <2>1. ASSUME NEW op, Has(q, op) PROVE Has(a, op) \/ x.op = op
    BY <1>3, <1>4, <2>1 DEF Has
  <2>2. ASSUME NEW op, Has(a, op) \/ x.op = op PROVE Has(q, op)
    BY <1>3, <1>4, <2>2 DEF Has
  <2> QED BY <2>1, <2>2
<1>6. \A op, s : HasOf(q, op, s) <=> HasOf(a, op, s) \/ (x.op = op /\ x.session = s)
  <2>1. ASSUME NEW op, NEW s, HasOf(q, op, s)
        PROVE  HasOf(a, op, s) \/ (x.op = op /\ x.session = s)
    BY <1>3, <1>4, <2>1 DEF HasOf
  <2>2. ASSUME NEW op, NEW s, HasOf(a, op, s) \/ (x.op = op /\ x.session = s)
        PROVE  HasOf(q, op, s)
    BY <1>3, <1>4, <2>2 DEF HasOf
  <2> QED BY <2>1, <2>2
<1>7. StartsOf(a) \subseteq StartsOf(q) /\ ReportsOf(a) \subseteq ReportsOf(q)
  BY <1>6 DEF StartsOf, ReportsOf
<1>8. ASSUME Distinct(q) PROVE Distinct(a)
  BY <1>3, <1>8 DEF Distinct
<1>9. ASSUME Distinct(q), x.op = "start" PROVE x.session \notin StartsOf(a)
  <2>1. ~HasOf(a, "start", x.session) BY <1>3, <1>4, <1>9 DEF Distinct, HasOf
  <2> QED BY <2>1 DEF StartsOf
<1>10. /\ x.op = "start" /\ x.session \in Sessions => x.session \in StartsOf(q)
       /\ x.op \in Reports /\ x.session \in Sessions => x.session \in ReportsOf(q)
  BY <1>6 DEF StartsOf, ReportsOf
<1> QED BY <1>2, <1>4, <1>5, <1>6, <1>7, <1>8, <1>9, <1>10

(* The executor of an instance that is gone only ends a stop.              *)
LEMMA GoneEnds ==
  ASSUME TypeInv, PhaseOK, NEW i \in Instances, Gone(i), Executor(i)
  PROVE  /\ Ends(i, svc[i], svc'[i]) /\ svc[i].at = "stopSelf"
         /\ phase' = phase /\ iface' = iface /\ live' = live /\ notices' = notices
         /\ StopSelf(i) /\ odd' = odd
<1>1. TypeOK /\ InstanceOK(svc[i]) BY DEF TypeInv, InstancesOK
<1>2. svc[i].queue = <<>> /\ svc[i].at \notin Startup \cup {"handle"}
  BY <1>1 DEF InstanceOK, JobOK, Gone, PhaseOK, AtRest
<1>3. ~Failed(i, svc[i], svc'[i])
  BY <1>2 DEF Failed, Failing, XrayExited, LibboxReported, Begins, Startup
<1>4. Effect(i, svc[i], svc'[i]) /\ (odd' = odd \/ Blocks(i, svc[i], svc'[i]))
  BY <1>1, <1>3, Effects, Failures
<1>5. Ends(i, svc[i], svc'[i]) /\ svc[i].at = "stopSelf"
  BY <1>2, <1>4 DEF Effect, Starting, Resets, Blocks, Stops, Launches, Bridges, Ends, Switched, Ignores,
    Takes, Startup
<1> QED BY <1>4, <1>5 DEF Ends, Blocks

(* An executor whose instance is not gone is that of the one instance that *)
(* is up.                                                                  *)
LEMMA ActsAlone ==
  ASSUME TypeInv, NEW i \in Instances, Executor(i), ~Gone(i)
  PROVE  i \in Up /\ \A j \in Up : j = i
<1>1. svc[i].state # "none" /\ svc[i] \in ServiceSet
  BY Acts, InstanceTyped DEF TypeInv
<1>2. i \in Up BY <1>1 DEF Up, Gone, ServiceSet
<1> QED BY <1>2 DEF TypeInv, OneUp

-----------------------------------------------------------------------------
(* The phase.                                                              *)
LEMMA PhaseKept ==
  ASSUME NEW i, NEW s \in ServiceSet, NEW n, s = svc[i], InstanceOK(s), InPhase(s, phase),
         Effect(i, s, n) \/ Failed(i, s, n)
  PROVE  InPhase(n, phase')
<1>1. JobOK(s) /\ CoresOK(s) BY DEF InstanceOK
<1>2. CASE Starting(i, s, n)
  <2>1. Owned(n) = {} BY <1>2 DEF Starting, Owned
  <2> QED BY <1>2, <2>1 DEF Starting, InPhase
<1>3. CASE Stops(i, s, n) BY <1>3 DEF Stops, Takes, InPhase, Owned
<1>4. CASE Launches(i, s, n) \/ Bridges(i, s, n)
  <2>1. /\ s.at \in {"core", "bridge"} /\ n.at \in {"bridge", "mark"} /\ phase' = phase
        /\ n.hole = s.hole
    BY <1>4 DEF Launches, Bridges, SameBlock
  <2>2. phase = "connecting" /\ ~s.hole BY <2>1 DEF InPhase
  <2> QED BY <2>1, <2>2 DEF InPhase
<1>5. CASE Ends(i, s, n)
  <2>1. /\ n.at = "begin" /\ n.server = s.server /\ n.process = s.process
        /\ n.bridge = s.bridge /\ n.hole = s.hole /\ n.active = s.active
        /\ n.expected = s.expected
    BY <1>5 DEF Ends, SameCores, SameBlock
  <2>2. Owned(n) = Owned(s) BY <2>1 DEF Owned
  <2>3. CASE s.at = "mark" /\ phase' = "connected"
    <3>1. phase = "connecting" BY <2>3 DEF InPhase
    <3> QED BY <2>1, <2>2, <2>3, <3>1 DEF InPhase
  <2>4. CASE phase' = phase BY <2>1, <2>2, <2>4 DEF InPhase
  <2> QED BY <1>5, <2>3, <2>4 DEF Ends
<1>6. CASE Switched(i, s, n)
  <2>1. /\ phase' = phase /\ n.at = s.at /\ n.expected = s.expected /\ s.at = "begin"
        /\ n.server = s.server /\ n.process = s.process /\ n.bridge = s.bridge
        /\ \/ n.active /\ n.hole = s.hole
           \/ ~n.hole
           \/ ~s.active /\ n.hole = s.hole
    BY <1>1, <1>6 DEF Switched, SameTask, SameCores, Takes, JobOK
  <2>2. Owned(n) = Owned(s) BY <2>1 DEF Owned
  <2> QED BY <2>1, <2>2 DEF InPhase
<1>7. CASE Ignores(i, s, n)
  <2>1. /\ phase' = phase /\ n.at = s.at /\ n.expected = s.expected /\ s.at = "begin"
        /\ n.server = s.server /\ (n.process = s.process \/ n.process = 0)
        /\ n.bridge = s.bridge /\ n.active = s.active /\ n.hole = s.hole
    BY <1>1, <1>7 DEF Ignores, SameTask, SameBlock, Takes, JobOK
  <2>2. Owned(n) \subseteq Owned(s) BY <2>1 DEF Owned
  <2> QED BY <2>1, <2>2 DEF InPhase
<1>8. CASE Failed(i, s, n)
  <2>1. /\ phase' = "error" /\ n.at = "handle" /\ n.expected /\ Owned(n) = {} /\ ~n.bridge
        /\ n.hole = s.hole
    BY <1>8 DEF Failed, SameBlock
  <2>2. ~s.hole
    <3>1. CASE s.at \in {"core", "bridge"} BY <3>1 DEF InPhase
    <3>2. CASE ~s.expected BY <3>2 DEF InPhase
    <3>3. CASE s.server # 0 BY <3>3 DEF InPhase, Owned
    <3> QED BY <1>8, <3>1, <3>2, <3>3 DEF Failed, Failing, LibboxReported
  <2> QED BY <2>1, <2>2 DEF InPhase
<1>9. CASE Resets(i, s, n)
  <2>1. /\ phase' = "connecting" /\ s.at = "reset" /\ n.at = "core" /\ n.hole = s.hole
    BY <1>9 DEF Resets, SameBlock
  <2> QED BY <2>1 DEF InPhase
<1>10. CASE Blocks(i, s, n)
  <2>1. /\ phase' = phase /\ s.at = "handle" /\ n.at = "begin" /\ n.expected = s.expected
        /\ n.server = s.server /\ n.process = s.process /\ n.bridge = s.bridge
        /\ (n.active /\ n.hole) \/ (n.hole = s.hole /\ ~n.active)
    BY <1>10 DEF Blocks, SameCores
  <2>2. Owned(n) = Owned(s) BY <2>1 DEF Owned
  <2>3. phase = "error" /\ s.expected /\ ~s.hole BY <2>1 DEF InPhase
  <2> QED BY <2>1, <2>2, <2>3 DEF InPhase
<1> QED BY <1>2, <1>3, <1>4, <1>5, <1>6, <1>7, <1>8, <1>9, <1>10 DEF Effect

(* The executors keep the phase.                                           *)
LEMMA PhaseExecutor ==
  ASSUME TypeInv, PhaseOK, NEW i \in Instances, Executor(i)
  PROVE  PhaseOK'
<1>1. TypeOK /\ IfaceOK /\ InstancesOK BY DEF TypeInv
<1>2. /\ svc' \in [Instances -> ServiceSet] /\ \A j \in Instances \ {i} : svc'[j] = svc[j]
      /\ svc'[i].state = svc[i].state
  BY <1>1, ExecutorFrame
<1>3. \A j \in Instances : (svc'[j].state = svc[j].state) /\ (j \in Up' <=> j \in Up)
  BY <1>2 DEF Up
<1>4. svc[i] \in ServiceSet /\ InstanceOK(svc[i]) BY <1>1, InstanceTyped DEF InstancesOK
<1>5. CASE Gone(i)
  <2>1. Ends(i, svc[i], svc'[i]) /\ phase' = phase /\ iface' = iface BY <1>5, GoneEnds
  <2>2. AtRest(svc'[i])
    <3>1. AtRest(svc[i]) BY <1>5 DEF PhaseOK
    <3>2. svc'[i].at = "begin" BY <2>1 DEF Ends
    <3>3. Owned(svc'[i]) = Owned(svc[i]) /\ svc'[i].hole = svc[i].hole
      BY <2>1 DEF Ends, SameCores, SameBlock, Owned
    <3> QED BY <3>1, <3>2, <3>3 DEF AtRest, Startup
  <2>3. i \notin Up BY <1>5 DEF Gone, Up
  <2>4. \A j \in Instances : Gone(j)' => AtRest(svc'[j])
    BY <1>2, <1>3, <2>2 DEF PhaseOK, Gone
  <2>5. \A j \in Up' : InPhase(svc'[j], phase')
    BY <1>2, <1>3, <2>1, <2>3 DEF PhaseOK, Up
  <2>6. iface' # NoIface => svc'[iface'.by].state = "up"
    <3>1. iface # NoIface => iface.by \in Instances BY <1>1, MainTyped DEF IfaceOK
    <3> QED BY <1>3, <2>1, <3>1 DEF PhaseOK
  <2> QED BY <2>4, <2>5, <2>6 DEF PhaseOK, AtRest, InPhase
<1>6. CASE ~Gone(i)
  <2>1. i \in Up /\ svc[i].state = "up" BY <1>6, ActsAlone DEF Up
  <2>2. Effect(i, svc[i], svc'[i]) \/ Failed(i, svc[i], svc'[i])
    BY <1>1, Effects, Failures
  <2>3. InPhase(svc'[i], phase')
    <3>1. InPhase(svc[i], phase) BY <2>1 DEF PhaseOK
    <3> QED BY <1>4, <2>2, <3>1, PhaseKept
  <2>4. \A j \in Instances : Gone(j)' => AtRest(svc'[j])
    BY <1>2, <1>3, <2>1 DEF PhaseOK, Gone
  <2>5. \A j \in Up' : j = i BY <1>3, <1>6, ActsAlone DEF Up
  <2>6. iface' # NoIface => svc'[iface'.by].state = "up"
    <3>1. iface # NoIface => iface.by \in Instances BY <1>1, MainTyped DEF IfaceOK
    <3>2. \/ iface' = iface \/ iface' = NoIface \/ iface' = Iface("tun", i)
          \/ iface' = Iface("hole", i)
      BY <2>2 DEF Effect, Starting, Resets, Blocks, Stops, Launches, Bridges, Ends, Switched, Ignores,
        Failed, Closing
    <3>3. CASE iface' = iface BY <1>3, <3>1, <3>3 DEF PhaseOK
    <3>4. CASE iface' \in {Iface("tun", i), Iface("hole", i)}
      BY <1>2, <2>1, <3>4 DEF Iface
    <3> QED BY <3>2, <3>3, <3>4
  <2> QED BY <2>3, <2>4, <2>5, <2>6 DEF PhaseOK, AtRest, InPhase
<1> QED BY <1>5, <1>6

-----------------------------------------------------------------------------
(* The sessions that wait, run or are reported have been asked for.        *)
LEMMA SessionsTyped ==
  ASSUME TypeInv
  PROVE  /\ main \in Seq(Messages) /\ StartsOf(main) \subseteq Sent /\ Noticed \subseteq Sent
         /\ \A i \in Instances :
              /\ svc[i] \in ServiceSet /\ svc[i].queue \in Seq(Tasks)
              /\ StartsOf(svc[i].queue) \subseteq Sent /\ Used(svc[i]) \subseteq Sent
              /\ svc[i].at \in {"reset", "core"} => svc[i].job.session \in Sent
         /\ \A s \in Sent : s \in Sessions
<1>1. TypeOK /\ MainOK /\ InstancesOK /\ NoticesOK BY DEF TypeInv
<1>2. main \in Seq(Messages) BY <1>1, MainTyped
<1>3. StartsOf(main) \subseteq Sent BY <1>1 DEF MainOK, MessageOK, StartsOf, HasOf
<1>4. Noticed \subseteq Sent BY <1>1 DEF NoticesOK, Noticed
<1>5. ASSUME NEW i \in Instances
      PROVE  /\ svc[i] \in ServiceSet /\ svc[i].queue \in Seq(Tasks)
             /\ StartsOf(svc[i].queue) \subseteq Sent /\ Used(svc[i]) \subseteq Sent
             /\ svc[i].at \in {"reset", "core"} => svc[i].job.session \in Sent
  <2>1. svc[i] \in ServiceSet /\ InstanceOK(svc[i]) BY <1>1, InstanceTyped DEF InstancesOK
  <2>2. svc[i].queue \in Seq(Tasks) BY <2>1 DEF ServiceSet
  <2>3. /\ StartsOf(svc[i].queue) \subseteq Sent /\ ReportsOf(svc[i].queue) \subseteq Sent
    BY <2>1 DEF InstanceOK, QueueOK, StartsOf, ReportsOf, HasOf, Reports
  <2>4. Owned(svc[i]) \subseteq Sent BY <2>1, OwnedTyped DEF InstanceOK, CoresOK
  <2>5. svc[i].at \in {"reset", "core"} => svc[i].job.session \in Sent BY <2>1 DEF InstanceOK, JobOK, Startup
  <2> QED BY <1>4, <2>1, <2>2, <2>3, <2>4, <2>5 DEF Used
<1> QED BY <1>2, <1>3, <1>4, <1>5 DEF Sent

(* A message behind the others.                                            *)
InQueue(q, op, i) == \E n \in DOMAIN q : q[n].op = op /\ q[n].to = i

(* A message behind the others.                                            *)
LEMMA MessageAppended ==
  ASSUME NEW q \in Seq(Messages), NEW x \in Messages
  PROVE  \A op, i : InQueue(Append(q, x), op, i)
                      <=> InQueue(q, op, i) \/ (x.op = op /\ x.to = i)
<1>1. /\ Len(q) \in Nat /\ DOMAIN q = 1 .. Len(q)
      /\ DOMAIN Append(q, x) = 1 .. Len(q) + 1
      /\ \A n \in DOMAIN q : Append(q, x)[n] = q[n]
      /\ Append(q, x)[Len(q) + 1] = x
  BY AppendAt
<1>2. PICK a : a = Append(q, x) OBVIOUS
<1>3. PICK last \in Nat : last = Len(q) + 1 BY <1>1
<1>4. /\ DOMAIN a = DOMAIN q \cup {last}
      /\ \A n \in DOMAIN q : a[n] = q[n]
      /\ a[last] = x
  BY <1>1, <1>2, <1>3
<1> QED BY <1>2, <1>4 DEF InQueue

(* The messages behind the first.                                          *)
LEMMA MessageRemoved ==
  ASSUME NEW q \in Seq(Messages), q # <<>>
  PROVE  \A op, i : InQueue(q, op, i)
                      <=> InQueue(Tail(q), op, i) \/ (Head(q).op = op /\ Head(q).to = i)
<1>1. /\ Len(q) \in Nat \ {0} /\ DOMAIN q = 1 .. Len(q)
      /\ DOMAIN Tail(q) = 1 .. Len(q) - 1 /\ Head(q) = q[1]
      /\ \A n \in DOMAIN Tail(q) : Tail(q)[n] = q[n + 1]
  BY TailAt
<1>2. PICK a : a = Tail(q) OBVIOUS
<1>3. /\ \A n \in DOMAIN a : n + 1 \in DOMAIN q /\ a[n] = q[n + 1]
      /\ \A n \in DOMAIN q : n # 1 => n - 1 \in DOMAIN a /\ a[n - 1] = q[n]
      /\ 1 \in DOMAIN q
  BY <1>1, <1>2
<1>4. PICK x : x = Head(q) /\ x = q[1] BY <1>1
<1>5. ASSUME NEW op, NEW i, InQueue(q, op, i)
      PROVE  InQueue(a, op, i) \/ (x.op = op /\ x.to = i)
  BY <1>3, <1>4, <1>5 DEF InQueue
<1>6. ASSUME NEW op, NEW i, InQueue(a, op, i) \/ (x.op = op /\ x.to = i)
      PROVE  InQueue(q, op, i)
  BY <1>3, <1>4, <1>6 DEF InQueue
<1> QED BY <1>2, <1>4, <1>5, <1>6

(* An intent reaches the instance the system has; only a start brings a    *)
(* session, and a new one.                                                 *)
LEMMA Sends ==
  ASSUME TypeInv, NEW op \in {"start", "stop"}, NEW s \in 0 .. MaxStarts,
         SendIntent(op, s), TypeInv'
  PROVE  /\ \A o, i : InMain(o, i) => InMain(o, i)'
         /\ InMain(op, record)'
         /\ StartsOf(main') \subseteq StartsOf(main) \cup {s}
         /\ op = "stop" => StartsOf(main') = StartsOf(main)
         /\ Distinct(main) /\ (op = "start" => s \notin Sent) => Distinct(main')
<1>1. main \in Seq(Messages) /\ main' \in Seq(Messages) BY DEF TypeInv, TypeOK
<1>2. ~HasOf(main, "start", s) \/ s \in Sent
  BY DEF TypeInv, MainOK, MessageOK, HasOf
<1>3. \A o, i : InMain(o, i) <=> InQueue(main, o, i) BY DEF InMain, InQueue
<1>4. \A o, i : InMain(o, i)' <=> InQueue(main', o, i) BY DEF InMain, InQueue
<1>5. \A i \in Instances : /\ Message(op, i, s) \in Messages /\ Message(op, i, s).op = op
                           /\ Message(op, i, s).to = i /\ Message(op, i, s).session = s
  BY DEF Message, Messages
<1>6. CASE record # 0
  <2>1. main' = Append(main, Message(op, record, s)) /\ record' = record
    BY <1>6 DEF SendIntent
  <2>2. record \in Instances BY <1>6, MainTyped DEF TypeInv
  <2>3. PICK x \in Messages : x = Message(op, record, s)
                                /\ x.op = op /\ x.to = record /\ x.session = s
    BY <1>5, <2>2
  <2>4. \A o, i : InQueue(main', o, i) <=> InQueue(main, o, i) \/ (x.op = o /\ x.to = i)
    BY <1>1, <2>1, <2>3, MessageAppended
  <2>5. /\ x.op # "start" => StartsOf(main') = StartsOf(main)
        /\ StartsOf(main') \subseteq StartsOf(main) \cup {x.session}
        /\ Distinct(main) /\ (x.op = "start" => ~HasOf(main, "start", x.session))
             => Distinct(main')
    BY <1>1, <2>1, <2>3, Appended
  <2>6. InMain(op, record)'
    <3>1. InQueue(main', op, record') BY <2>1, <2>3, <2>4
    <3> QED BY <3>1 DEF InMain, InQueue
  <2> QED BY <1>2, <1>3, <1>4, <2>3, <2>4, <2>5, <2>6
<1>7. CASE record = 0
  <2>1. /\ main' = main \o <<Message("create", made + 1, 0), Message(op, made + 1, s)>>
        /\ made' = made + 1 /\ record' = made + 1
    BY <1>7 DEF SendIntent
  <2>2. made + 1 \in Instances
    <3>1. record' # 0 BY <2>1, MainTyped DEF TypeInv
    <3>2. TypeOK' BY DEF TypeInv
    <3>3. made + 1 \in 0 .. (MaxStarts + MaxStops) /\ made \in Nat
      BY <2>1, <3>2, MainTyped DEF TypeInv, TypeOK
    <3> QED BY <3>3, Bounds DEF Instances
  <2>3. PICK c \in Messages : c = Message("create", made + 1, 0) /\ c.op = "create"
    <3>1. 0 \in 0 .. MaxStarts BY Bounds
    <3>2. PICK k \in Instances : k = made + 1 BY <2>2
    <3>3. Message("create", k, 0) \in Messages /\ Message("create", k, 0).op = "create"
      BY <3>1 DEF Message, Messages
    <3> QED BY <3>2, <3>3
  <2>4. PICK x \in Messages : x = Message(op, made + 1, s)
                                /\ x.op = op /\ x.to = made + 1 /\ x.session = s
    BY <1>5, <2>2
  <2>5. PICK q \in Seq(Messages) : q = Append(main, c) BY <1>1, AppendAt
  <2>6. main' = Append(q, x) BY <1>1, <2>1, <2>3, <2>4, <2>5
  <2>7. \A o, i : InQueue(q, o, i) <=> InQueue(main, o, i) \/ (c.op = o /\ c.to = i)
    BY <1>1, <2>5, MessageAppended
  <2>8. \A o, i : InQueue(main', o, i) <=> InQueue(q, o, i) \/ (x.op = o /\ x.to = i)
    BY <2>6, MessageAppended
  <2>9. /\ StartsOf(q) = StartsOf(main) /\ (Distinct(main) => Distinct(q))
        /\ \A n : HasOf(q, "start", n) <=> HasOf(main, "start", n)
    BY <1>1, <2>3, <2>5, Appended
  <2>10. /\ x.op # "start" => StartsOf(main') = StartsOf(q)
         /\ StartsOf(main') \subseteq StartsOf(q) \cup {x.session}
         /\ Distinct(q) /\ (x.op = "start" => ~HasOf(q, "start", x.session))
              => Distinct(main')
    BY <2>4, <2>6, Appended
  <2>11. InMain(op, record)'
    <3>1. InQueue(main', op, record') BY <2>1, <2>4, <2>8
    <3> QED BY <3>1 DEF InMain, InQueue
  <2> QED BY <1>2, <1>3, <1>4, <2>4, <2>7, <2>8, <2>9, <2>10, <2>11
<1> QED BY <1>6, <1>7

-----------------------------------------------------------------------------
(* A step after which an instance r, now d, still does what it did: its    *)
(* tasks wait, and the end of its core is on its way.                      *)
Keeps(i, r, d) ==
  /\ SameButQueue(r, d)
  /\ r.expected => d.expected
  /\ d.expected => r.expected \/ Has(d.queue, "stop")
  /\ Has(r.queue, "stop") => Has(d.queue, "stop")
  /\ \A op \in {"exit", "stopped"}, s \in Sessions :
       Dead(i, r.queue, op, s) => Dead(i, d.queue, op, s)'
  /\ r.process \in live => r.process \in live' \/ Dead(i, d.queue, "exit", r.process)'
  /\ r.server \in live => r.server \in live' \/ Dead(i, d.queue, "stopped", r.server)'
  /\ InMain("revoke", i) => InMain("revoke", i)' \/ Stopping(d)
  /\ iface = Iface("tun", i) => iface' = Iface("tun", i) \/ InMain("revoke", i)'
  /\ r.job.op = "start" => core'[r.job.session] = core[r.job.session]

(* What runs, is shown or is on its way stays so.                          *)
LEMMA RunsKept ==
  ASSUME NEW i, NEW r \in ServiceSet, NEW d, Keeps(i, r, d), InstanceOK(r)
  PROVE  /\ Shown(i, r) => Shown(i, d)'
         /\ OnItsWay(i, r) => OnItsWay(i, d)'
<1>1. /\ r.process # 0 => r.process \in Sessions
      /\ r.server # 0 => r.server \in Sessions
  BY OwnedTyped
<1>2. /\ d.job = r.job /\ d.at = r.at /\ d.server = r.server /\ d.process = r.process
      /\ d.bridge = r.bridge
  BY DEF Keeps, SameButQueue
<1>3. Owned(d) = Owned(r) BY <1>2 DEF Owned
<1>4. Stopping(r) => Stopping(d) BY DEF Keeps, Stopping
<1>5. Alive(i, r) => Alive(i, d)'
  BY <1>1, <1>2 DEF Keeps, Alive
<1>6. Runs(i, r) => Runs(i, d)'
  <2>1. CASE Stopping(r) BY <1>4, <2>1 DEF Runs
  <2>2. CASE ~Stopping(r) BY <1>3, <1>5, <2>2 DEF Runs, Keeps, Stopping
  <2> QED BY <2>1, <2>2
<1>7. TunOpen(i, r) => TunOpen(i, d)' BY <1>4 DEF TunOpen, Keeps
<1>8. Shown(i, r) => Shown(i, d)' BY <1>2, <1>6, <1>7 DEF Shown
<1>9. ~r.expected => ~d.expected \/ Stopping(d) BY DEF Keeps, Stopping
<1>10. r.at \in Startup => r.job.op = "start" BY DEF InstanceOK, JobOK
<1>11. OnItsWay(i, r) => OnItsWay(i, d)'
  BY <1>2, <1>4, <1>6, <1>7, <1>8, <1>9, <1>10 DEF OnItsWay, Keeps, Startup
<1> QED BY <1>8, <1>11

(* A step of another thread keeps what runs.                               *)
LEMMA RunsStep ==
  ASSUME TypeInv, RunsOK, phase' = phase, Up \subseteq Up',
         \A i \in Up' : \E d : /\ d = svc'[i]
                               /\ d.at = "begin" \/ (i \in Up /\ Keeps(i, svc[i], d)),
         \A i \in Up : \E d : d = svc'[i] /\ Keeps(i, svc[i], d)
  PROVE  RunsOK'
<1>1. \A i \in Up : i \in Instances /\ svc[i] \in ServiceSet /\ InstanceOK(svc[i])
  BY InstanceTyped DEF TypeInv, InstancesOK, Up
<1>2. ASSUME NEW i \in Up' PROVE OnItsWay(i, svc[i])'
  <2>1. PICK d : /\ d = svc'[i]
                 /\ d.at = "begin" \/ (i \in Up /\ Keeps(i, svc[i], d))
    OBVIOUS
  <2>2. CASE d.at = "begin"
    <3>1. OnItsWay(i, d)' BY <2>2 DEF OnItsWay
    <3> QED BY <2>1, <3>1 DEF OnItsWay, Shown, Runs, TunOpen, Alive, Dead, Stopping
  <2>3. CASE i \in Up /\ Keeps(i, svc[i], d)
    <3>1. OnItsWay(i, svc[i]) BY <2>3 DEF RunsOK
    <3>2. OnItsWay(i, d)' BY <1>1, <2>3, <3>1, RunsKept
    <3> QED BY <2>1, <3>2 DEF OnItsWay, Shown, Runs, TunOpen, Alive, Dead, Stopping
  <2> QED BY <2>1, <2>2, <2>3
<1>3. ASSUME phase' = "connected"
      PROVE  \E i \in Up' : Shown(i, svc[i])' \/ svc'[i].at = "reset"
  <2>1. PICK i \in Up : Shown(i, svc[i]) \/ svc[i].at = "reset" BY <1>3 DEF RunsOK
  <2>2. PICK d : d = svc'[i] /\ Keeps(i, svc[i], d) OBVIOUS
  <2>3. CASE Shown(i, svc[i])
    <3>1. Shown(i, d)' BY <1>1, <2>2, <2>3, RunsKept
    <3>2. Shown(i, svc[i])' BY <2>2, <3>1 DEF Shown, Runs, TunOpen, Alive, Dead, Stopping
    <3> QED BY <3>2
  <2>4. CASE svc[i].at = "reset"
    <3>1. svc'[i].at = "reset" BY <2>2, <2>4 DEF Keeps, SameButQueue
    <3> QED BY <3>1
  <2> QED BY <2>1, <2>3, <2>4
<1> QED BY <1>2, <1>3 DEF RunsOK

(* A step that only adds messages, or closes the interface with a          *)
(* revocation, keeps the invariant.                                        *)
LEMMA StillCalm ==
  ASSUME TypeInv, CalmInv, svc' = svc, phase' = phase, live' = live, notices' = notices,
         iface' = iface \/ (iface' = NoIface /\
            \A i \in Instances : iface = Iface("tun", i) => InMain("revoke", i)'),
         \A i \in Instances : InMain("revoke", i) => InMain("revoke", i)',
         \A s \in StartsOf(main') : s \in StartsOf(main) \/ s \notin Sent,
         Distinct(main'), \A s \in Sent : core'[s] = core[s],
         ErrorOK'
  PROVE  CalmInv'
<1>1. PhaseOK /\ OrderOK /\ LiveOK /\ RunsOK BY DEF CalmInv
<1>2. Up' = Up BY DEF Up
<1>3. PhaseOK' BY <1>1, <1>2 DEF PhaseOK, Gone
<1>4. Noticed' = Noticed BY DEF Noticed
<1>5. OrderOK'
  <2>1. \A s \in StartsOf(main') : s \notin Noticed
    BY <1>1, SessionsTyped DEF OrderOK
  <2>2. ASSUME NEW i \in Up PROVE InOrder(svc[i])'
    <3>1. InOrder(svc[i]) BY <1>1 DEF OrderOK
    <3>2. /\ StartsOf(svc[i].queue) \subseteq Sent /\ Used(svc[i]) \subseteq Sent
          /\ svc[i].at \in {"reset", "core"} => svc[i].job.session \in Sent
      BY SessionsTyped DEF Up
    <3>3. Used(svc[i])' = Used(svc[i]) BY <1>4 DEF Used
    <3>4. \A s \in StartsOf(main') :
            /\ s \notin StartsOf(svc[i].queue) /\ s \notin Used(svc[i])
            /\ svc[i].at \in {"reset", "core"} => svc[i].job.session # s
      BY <3>1, <3>2 DEF InOrder
    <3> QED BY <3>1, <3>3, <3>4 DEF InOrder
  <2> QED BY <1>2, <1>4, <2>1, <2>2 DEF OrderOK
<1>6. LiveOK' BY <1>1, <1>2 DEF LiveOK
<1>7. RunsOK'
  <2>1. ASSUME NEW i \in Up PROVE Keeps(i, svc[i], svc[i])
    <3>1. i \in Instances /\ InstanceOK(svc[i]) BY DEF Up, TypeInv, InstancesOK
    <3>2. svc[i].job.op = "start" => svc[i].job.session \in Sent
      BY <3>1 DEF InstanceOK, JobOK
    <3>3. iface = Iface("tun", i) => iface' = Iface("tun", i) \/ InMain("revoke", i)'
      BY <3>1
    <3>4. \A op, s : Dead(i, svc[i].queue, op, s) => Dead(i, svc[i].queue, op, s)'
      BY DEF Dead
    <3> QED BY <3>1, <3>2, <3>3, <3>4 DEF Keeps, SameButQueue
  <2> QED BY <1>1, <1>2, <2>1, RunsStep
<1> QED BY <1>3, <1>5, <1>6, <1>7 DEF CalmInv

(* A start intent keeps the invariant.                                     *)
LEMMA ClientStartCalm ==
  ASSUME TypeInv, CalmInv, NEW c \in {"xray", "singBox"}, ClientStart(c)
  PROVE  CalmInv'
<1>1. PICK s \in Sessions :
        /\ s = Cardinality(Sent) + 1 /\ s \notin Sent /\ SendIntent("start", s)
        /\ core' = [core EXCEPT ![s] = c] /\ TypeInv'
        /\ phase' = phase /\ svc' = svc /\ iface' = iface /\ live' = live
        /\ notices' = notices /\ odd' = odd
  <2>1. PICK s \in Sessions : s = Cardinality(Sent) + 1 BY ClientStartType
  <2> QED BY <2>1, ClientStartType DEF ClientStart
<1>2. s \in 0 .. MaxStarts BY Bounds DEF Sessions
<1>3. /\ \A o, i : InMain(o, i) => InMain(o, i)'
      /\ InMain("start", record)'
      /\ StartsOf(main') \subseteq StartsOf(main) \cup {s}
      /\ Distinct(main) => Distinct(main')
  BY <1>1, <1>2, Sends
<1>4. \A x \in Sent : core'[x] = core[x] BY <1>1 DEF TypeInv, TypeOK, Sent
<1>5. Distinct(main') BY <1>3 DEF CalmInv, OrderOK
<1>6. ErrorOK' BY <1>3 DEF ErrorOK, Handled, Asked
<1> QED BY <1>1, <1>3, <1>4, <1>5, <1>6, StillCalm

(* A stop intent keeps the invariant.                                      *)
LEMMA ClientStopCalm ==
  ASSUME TypeInv, CalmInv, ClientStop
  PROVE  CalmInv'
<1>1. /\ SendIntent("stop", 0) /\ core' = core
      /\ phase' = phase /\ svc' = svc /\ iface' = iface /\ live' = live
      /\ notices' = notices /\ odd' = odd
  BY DEF ClientStop
<1>2. 0 \in 0 .. MaxStarts /\ TypeInv' BY Bounds, ClientStopType
<1>3. /\ \A o, i : InMain(o, i) => InMain(o, i)'
      /\ InMain("stop", record)'
      /\ StartsOf(main') = StartsOf(main)
      /\ Distinct(main) => Distinct(main')
  BY <1>1, <1>2, Sends
<1>4. Distinct(main') BY <1>3 DEF CalmInv, OrderOK
<1>5. ErrorOK' BY <1>3 DEF ErrorOK, Handled, Asked
<1> QED BY <1>1, <1>3, <1>4, <1>5, StillCalm

(* A revocation keeps the invariant.                                       *)
LEMMA RevokeCalm ==
  ASSUME TypeInv, CalmInv, Revoke
  PROVE  CalmInv'
<1>1. /\ core' = core /\ iface' = NoIface /\ main' = Append(main, Message("revoke", iface.by, 0))
      /\ phase' = phase /\ svc' = svc /\ live' = live /\ record' = record /\ wanted' = wanted
      /\ notices' = notices /\ odd' = odd
  BY DEF Revoke
<1>2. /\ iface.by \in Instances
      /\ \A o, i : InMain(o, i)' <=> InMain(o, i) \/ (o = "revoke" /\ i = iface.by)
  BY RevokeType
<1>3. PICK x \in Messages : x = Message("revoke", iface.by, 0) /\ x.op = "revoke"
  <2>1. 0 \in 0 .. MaxStarts BY Bounds
  <2>2. PICK k \in Instances : k = iface.by BY <1>2
  <2>3. Message("revoke", k, 0) \in Messages BY <2>1 DEF Message, Messages
  <2> QED BY <2>2, <2>3 DEF Message
<1>4. StartsOf(main') = StartsOf(main) /\ (Distinct(main) => Distinct(main'))
  BY <1>1, <1>3, SessionsTyped, Appended
<1>5. Distinct(main') BY <1>4 DEF CalmInv, OrderOK
<1>6. \A i \in Instances : iface = Iface("tun", i) => InMain("revoke", i)'
  BY <1>2 DEF Iface
<1>7. ErrorOK'
  <2>1. ErrorOK BY DEF CalmInv
  <2>2. PICK k : k = record OBVIOUS
  <2>3. Handled(k, svc[k]) => Handled(k, svc[k])'
    BY <1>1, <1>2 DEF Handled, Asked
  <2> QED BY <1>1, <2>1, <2>2, <2>3 DEF ErrorOK, Handled, Asked, InMain
<1> QED BY <1>1, <1>2, <1>4, <1>5, <1>6, <1>7, StillCalm

(* The end of an instance that nobody wants keeps the invariant.           *)
LEMMA BringDownCalm ==
  ASSUME TypeInv, CalmInv, BringDown
  PROVE  CalmInv'
<1>1. /\ core' = core /\ iface' = iface /\ main' = Append(main, Message("destroy", record, 0))
      /\ phase' = phase /\ svc' = svc /\ live' = live /\ record # 0 /\ record' = 0
      /\ notices' = notices
  BY DEF BringDown, sent
<1>2. \A o, i : InMain(o, i)' <=> InMain(o, i) \/ (o = "destroy" /\ i = record)
  BY BringDownType
<1>3. PICK x \in Messages : x = Message("destroy", record, 0) /\ x.op = "destroy"
  <2>1. 0 \in 0 .. MaxStarts BY Bounds
  <2>2. PICK k \in Instances : k = record BY <1>1, MainTyped DEF TypeInv
  <2>3. Message("destroy", k, 0) \in Messages BY <2>1 DEF Message, Messages
  <2> QED BY <2>2, <2>3 DEF Message
<1>4. StartsOf(main') = StartsOf(main) /\ (Distinct(main) => Distinct(main'))
  BY <1>1, <1>3, SessionsTyped, Appended
<1>5. Distinct(main') BY <1>4 DEF CalmInv, OrderOK
<1>6. ErrorOK' BY <1>1 DEF ErrorOK
<1> QED BY <1>1, <1>2, <1>4, <1>5, <1>6, StillCalm

-----------------------------------------------------------------------------
(* A step that adds a task to the queues, at most.                         *)
LEMMA QueuedCalm ==
  ASSUME TypeInv, CalmInv, phase' = phase, live' = live, iface' = iface, core' = core,
         record' = record, odd' = odd, notices' \subseteq notices,
         Distinct(main'), StartsOf(main') \subseteq StartsOf(main),
         \A j \in Instances : \E d :
           /\ d = svc'[j] /\ SameButQueue(svc[j], d) /\ (svc[j].expected => d.expected)
           /\ j \in Up =>
                /\ Distinct(d.queue) /\ Keeps(j, svc[j], d)
                /\ ReportsOf(d.queue) \subseteq ReportsOf(svc[j].queue) \cup Noticed
                /\ \A s \in StartsOf(d.queue) : \/ s \in StartsOf(svc[j].queue)
                                                \/ s \in StartsOf(main) \ StartsOf(main')
           /\ j = record => (Handled(j, svc[j]) => Handled(j, d)')
  PROVE  CalmInv'
<1>1. PhaseOK /\ OrderOK /\ LiveOK /\ RunsOK /\ ErrorOK BY DEF CalmInv
<1>2. \A j \in Instances : SameButQueue(svc[j], svc'[j]) OBVIOUS
<1>3. Up' = Up BY <1>2 DEF Up, SameButQueue
<1>4. \A j \in Instances : Owned(svc'[j]) = Owned(svc[j]) BY <1>2 DEF SameButQueue, Owned
<1>5. PhaseOK'
  <2>1. \A j \in Instances : Gone(j)' => AtRest(svc'[j])
    BY <1>1, <1>2, <1>4 DEF PhaseOK, AtRest, Gone, SameButQueue
  <2>2. \A j \in Up : InPhase(svc'[j], phase')
    <3>1. ASSUME NEW j \in Up PROVE InPhase(svc'[j], phase)
      <4>1. j \in Instances /\ InPhase(svc[j], phase) BY <1>1 DEF PhaseOK, Up
      <4>2. svc[j].expected => svc'[j].expected BY <4>1
      <4> QED BY <1>2, <1>4, <4>1, <4>2 DEF InPhase, SameButQueue
    <3> QED BY <3>1
  <2>3. iface # NoIface => svc'[iface.by].state = "up"
    <3>1. iface # NoIface => iface.by \in Instances
      BY MainTyped DEF TypeInv, IfaceOK
    <3> QED BY <1>1, <1>2, <3>1 DEF PhaseOK, SameButQueue
  <2> QED BY <1>3, <2>1, <2>2, <2>3 DEF PhaseOK, AtRest, InPhase, Owned
<1>6. Noticed' \subseteq Noticed BY DEF Noticed
<1>7. OrderOK'
  <2>1. ASSUME NEW j \in Up PROVE InOrder(svc[j])'
    <3>1. InOrder(svc[j]) BY <1>1 DEF OrderOK
    <3>2. j \in Instances BY DEF Up
    <3>3. PICK d :
            /\ d = svc'[j] /\ SameButQueue(svc[j], d) /\ Distinct(d.queue)
            /\ ReportsOf(d.queue) \subseteq ReportsOf(svc[j].queue) \cup Noticed
            /\ \A s \in StartsOf(d.queue) : \/ s \in StartsOf(svc[j].queue)
                                            \/ s \in StartsOf(main) \ StartsOf(main')
      BY <3>2
    <3>4. Owned(d) = Owned(svc[j]) BY <3>3 DEF SameButQueue, Owned
    <3>5. Used(d)' \subseteq Used(svc[j]) BY <1>6, <3>3, <3>4 DEF Used
    <3>6. /\ d.at = svc[j].at /\ d.job = svc[j].job BY <3>3 DEF SameButQueue
    <3>7. InOrder(d)' BY <3>1, <3>3, <3>5, <3>6 DEF InOrder
    <3> QED BY <3>3, <3>7 DEF InOrder, Used
  <2> QED BY <1>1, <1>3, <1>6, <2>1 DEF OrderOK
<1>8. LiveOK'
  <2>1. \A s \in Noticed : s \notin live BY <1>1 DEF LiveOK, Noticed
  <2>2. ASSUME NEW j \in Up PROVE \A s \in ReportsOf(svc'[j].queue) : s \notin live
    <3>1. j \in Instances BY DEF Up
    <3>2. ReportsOf(svc'[j].queue) \subseteq ReportsOf(svc[j].queue) \cup Noticed
      BY <3>1
    <3> QED BY <1>1, <2>1, <3>2 DEF LiveOK
  <2>3. \A s \in live : \E j \in Up : s \in Owned(svc'[j]) BY <1>1, <1>4 DEF LiveOK, Up
  <2> QED BY <1>1, <1>3, <2>2, <2>3 DEF LiveOK, Owned
<1>9. RunsOK'
  <2>1. \A j \in Up : \E d : d = svc'[j] /\ Keeps(j, svc[j], d) BY DEF Up
  <2> QED BY <1>1, <1>3, <2>1, RunsStep
<1>10. ErrorOK'
  <2>1. CASE record = 0 BY <2>1 DEF ErrorOK
  <2>2. CASE record # 0
    <3>1. record \in Instances BY <2>2, MainTyped DEF TypeInv
    <3>2. PICK k \in Instances : k = record BY <3>1
    <3>3. PICK d : d = svc'[k] /\ (Handled(k, svc[k]) => Handled(k, d)') BY <3>2
    <3>4. phase = "error" /\ "unprotected" \notin odd => Handled(k, svc[k])
      BY <1>1, <2>2, <3>2 DEF ErrorOK
    <3>5. phase' = "error" /\ "unprotected" \notin odd' => Handled(k, d)'
      BY <3>3, <3>4
    <3> QED BY <3>2, <3>3, <3>5 DEF ErrorOK, Handled, Asked, InMain
  <2> QED BY <2>1, <2>2
<1> QED BY <1>5, <1>7, <1>8, <1>9, <1>10 DEF CalmInv

(* A change of the preference keeps the invariant.                         *)
LEMMA ToggleCalm ==
  ASSUME TypeInv, CalmInv, ToggleKillswitch
  PROVE  CalmInv'
<1>1. /\ svc' = [i \in Instances |-> Dispatched(svc[i], Task(IF pref THEN "off" ELSE "on", 0))]
      /\ phase' = phase /\ main' = main /\ record' = record /\ wanted' = wanted
      /\ iface' = iface /\ live' = live /\ notices' = notices
      /\ core' = core /\ odd' = odd
  BY DEF ToggleKillswitch, system
<1>2. PICK t \in Tasks : t = Task(IF pref THEN "off" ELSE "on", 0) /\ t.op \in {"on", "off"}
  <2>1. 0 \in 0 .. MaxStarts BY Bounds
  <2>2. CASE pref BY <2>1, <2>2, TaskTyped
  <2>3. CASE ~pref BY <2>1, <2>3, TaskTyped
  <2> QED BY <2>2, <2>3
<1>3. \A j \in Instances : svc'[j] = Dispatched(svc[j], t) BY <1>1, <1>2
<1>4. ASSUME NEW j \in Instances
      PROVE  \E d :
        /\ d = svc'[j] /\ SameButQueue(svc[j], d) /\ (svc[j].expected => d.expected)
        /\ j \in Up =>
             /\ Distinct(d.queue) /\ Keeps(j, svc[j], d)
             /\ ReportsOf(d.queue) \subseteq ReportsOf(svc[j].queue) \cup Noticed
             /\ \A s \in StartsOf(d.queue) : \/ s \in StartsOf(svc[j].queue)
                                             \/ s \in StartsOf(main) \ StartsOf(main')
        /\ j = record => (Handled(j, svc[j]) => Handled(j, d)')
  <2>1. svc[j] \in ServiceSet /\ svc[j].queue \in Seq(Tasks) BY SessionsTyped
  <2>2. PICK d : /\ d = svc'[j] /\ SameButQueue(svc[j], d) /\ d.expected = svc[j].expected
                 /\ svc[j].state = "up" => d.queue = Append(svc[j].queue, t)
                 /\ svc[j].state # "up" => d = svc[j]
    BY <1>3, <2>1, DispatchFacts
  <2>3. CASE svc[j].state # "up"
    <3>1. Handled(j, svc[j]) => Handled(j, d)'
      BY <1>1, <2>2, <2>3 DEF Handled, Asked, InMain
    <3> QED BY <2>2, <2>3, <3>1 DEF Up
  <2>4. CASE svc[j].state = "up"
    <3>1. j \in Up BY <2>4 DEF Up
    <3>2. Distinct(svc[j].queue) BY <3>1 DEF CalmInv, OrderOK, InOrder
    <3>3. /\ \A op : Has(d.queue, op) <=> Has(svc[j].queue, op) \/ t.op = op
          /\ \A op, s : HasOf(svc[j].queue, op, s) => HasOf(d.queue, op, s)
          /\ StartsOf(d.queue) = StartsOf(svc[j].queue)
          /\ ReportsOf(d.queue) = ReportsOf(svc[j].queue) /\ Distinct(d.queue)
      <4>1. PICK q \in Seq(Tasks) : q = svc[j].queue BY <2>1
      <4>2. t.op # "start" /\ t.op \notin Reports BY <1>2 DEF Reports
      <4>3. d.queue = Append(q, t) /\ Distinct(q) BY <2>2, <2>4, <3>2, <4>1
      <4> QED BY <4>1, <4>2, <4>3, Appended
    <3>4. Keeps(j, svc[j], d)
      BY <1>1, <2>2, <3>3 DEF Keeps, Dead, InMain
    <3>5. Handled(j, svc[j]) => Handled(j, d)'
      BY <1>1, <2>2, <3>3 DEF Handled, Asked, InMain, SameButQueue
    <3> QED BY <2>2, <3>3, <3>4, <3>5
  <2> QED BY <2>3, <2>4
<1>5. Distinct(main') BY <1>1 DEF CalmInv, OrderOK
<1> QED BY <1>1, <1>4, <1>5, QueuedCalm

(* A report of the end of a core keeps the invariant.                      *)
LEMMA ReportCalm ==
  ASSUME TypeInv, CalmInv, NEW n \in notices, ReportCore(n) \/ ReportDisconnected(n)
  PROVE  CalmInv'
<1>1. /\ phase' = phase /\ main' = main /\ record' = record /\ wanted' = wanted
      /\ iface' = iface /\ live' = live /\ notices' = notices \ {n}
      /\ core' = core /\ odd' = odd
      /\ \A j \in Instances \ {n.to} : svc'[j] = svc[j]
      /\ n \in NoticeSet /\ n.op \in Reports /\ n.to \in Instances
  BY ReportStep
<1>2. PICK t \in Tasks :
        /\ t.op = n.op /\ t.session = n.session
        /\ \/ svc'[n.to] = Dispatched(svc[n.to], t)
           \/ n.op = "closed" /\ svc'[n.to] = svc[n.to]
  BY ReportStep
<1>3. \A op, i, s : Notice(op, i, s) \in notices =>
        \/ Notice(op, i, s) \in notices'
        \/ n.op = op /\ n.to = i /\ n.session = s
  <2>1. \A op, i, s : Notice(op, i, s) = n => n.op = op /\ n.to = i /\ n.session = s
    BY DEF Notice
  <2> QED BY <1>1, <2>1
<1>4. n.session \in Noticed BY DEF Noticed
<1>5. ASSUME NEW j \in Instances
      PROVE  \E d :
        /\ d = svc'[j] /\ SameButQueue(svc[j], d) /\ (svc[j].expected => d.expected)
        /\ j \in Up =>
             /\ Distinct(d.queue) /\ Keeps(j, svc[j], d)
             /\ ReportsOf(d.queue) \subseteq ReportsOf(svc[j].queue) \cup Noticed
             /\ \A s \in StartsOf(d.queue) : \/ s \in StartsOf(svc[j].queue)
                                             \/ s \in StartsOf(main) \ StartsOf(main')
        /\ j = record => (Handled(j, svc[j]) => Handled(j, d)')
  <2>1. svc[j] \in ServiceSet /\ svc[j].queue \in Seq(Tasks) BY SessionsTyped
  <2>2. ASSUME j \in Up PROVE Distinct(svc[j].queue)
    BY <2>2 DEF CalmInv, OrderOK, InOrder
  <2>3. CASE svc'[j] = svc[j] /\ (j \notin Up \/ j # n.to \/ n.op = "closed")
    <3>1. SameButQueue(svc[j], svc[j]) BY DEF SameButQueue
    <3>2. j \in Up => Keeps(j, svc[j], svc[j])
      <4>1. ASSUME j \in Up, NEW op \in {"exit", "stopped"}, NEW s,
                   Dead(j, svc[j].queue, op, s)
            PROVE  Dead(j, svc[j].queue, op, s)'
        <5>1. Notice(op, j, s) \in notices => Notice(op, j, s) \in notices'
          BY <1>3, <2>3, <4>1
        <5>2. (Dead(j, svc[j].queue, op, s))' <=>
                Notice(op, j, s) \in notices' \/ HasOf(svc[j].queue, op, s)
          BY <2>3 DEF Dead, HasOf
        <5> QED BY <4>1, <5>1, <5>2 DEF Dead
      <4> QED
        BY <1>1, <2>3, <3>1, <4>1 DEF Keeps, InMain, Stopping, Dead
    <3>3. Handled(j, svc[j]) => Handled(j, svc[j])'
      BY <1>1, <2>3 DEF Handled, Asked, InMain, Has
    <3> QED
      BY <2>2, <2>3, <3>1, <3>2, <3>3 DEF Keeps, Dead, Stopping, Handled, Asked, Has,
        HasOf
  <2>4. CASE j = n.to /\ j \in Up /\ svc'[j] = Dispatched(svc[j], t)
    <3>1. PICK d : /\ d = svc'[j] /\ SameButQueue(svc[j], d) /\ d.expected = svc[j].expected
                   /\ d.queue = Append(svc[j].queue, t)
      BY <2>1, <2>4, DispatchFacts DEF Up
    <3>2. PICK q \in Seq(Tasks) : q = svc[j].queue BY <2>1
    <3>3. t.op # "start" /\ t.op \in Reports BY <1>1, <1>2 DEF Reports
    <3>4. d.queue = Append(q, t) /\ Distinct(q) BY <2>2, <2>4, <3>1, <3>2
    <3>5. /\ \A op : Has(d.queue, op) <=> Has(q, op) \/ t.op = op
          /\ \A op, s : HasOf(d.queue, op, s)
               <=> HasOf(q, op, s) \/ (t.op = op /\ t.session = s)
          /\ StartsOf(d.queue) = StartsOf(q)
          /\ ReportsOf(d.queue) \subseteq ReportsOf(q) \cup {t.session}
          /\ Distinct(d.queue)
      BY <3>3, <3>4, Appended
    <3>6. \A op, s : Dead(j, q, op, s) => Dead(j, d.queue, op, s)'
      BY <1>2, <1>3, <3>5 DEF Dead
    <3>7. Keeps(j, svc[j], d)
      <4>1. \A op, s : Dead(j, svc[j].queue, op, s) => Dead(j, d.queue, op, s)'
        BY <3>2, <3>6
      <4> QED BY <1>1, <3>1, <3>2, <3>5, <4>1 DEF Keeps, InMain
    <3>8. Handled(j, svc[j]) => Handled(j, d)'
      BY <1>1, <3>1, <3>2, <3>5 DEF Handled, Asked, InMain, SameButQueue
    <3>9. ReportsOf(d.queue) \subseteq ReportsOf(svc[j].queue) \cup Noticed
      BY <1>2, <1>4, <3>2, <3>5
    <3> QED BY <3>1, <3>2, <3>5, <3>7, <3>8, <3>9
  <2>5. CASE j = n.to /\ j \notin Up /\ svc'[j] = Dispatched(svc[j], t)
    <3>1. svc'[j] = svc[j] BY <2>1, <2>5, DispatchFacts DEF Up
    <3> QED BY <2>3, <2>5, <3>1
  <2>6. CASE j # n.to BY <1>1, <2>3, <2>6
  <2> QED BY <1>2, <2>3, <2>4, <2>5, <2>6
<1>6. Distinct(main') BY <1>1 DEF CalmInv, OrderOK
<1> QED BY <1>1, <1>5, <1>6, QueuedCalm

(* The end of a core keeps the invariant: its report is on its way.        *)
LEMMA CoreDiesCalm ==
  ASSUME TypeInv, CalmInv, NEW i \in Instances, NEW s \in Sessions, CoreDies(i, s)
  PROVE  CalmInv'
<1>1. PhaseOK /\ OrderOK /\ LiveOK /\ RunsOK /\ ErrorOK BY DEF CalmInv
<1>2. /\ s \in Owned(svc[i]) /\ s \in live /\ live' = live \ {s}
      /\ phase' = phase /\ svc' = svc /\ main' = main /\ record' = record
      /\ wanted' = wanted /\ iface' = iface /\ core' = core /\ odd' = odd
      /\ core[s] \in {"xray", "singBox"}
      /\ core[s] = "xray" => Notice("exit", i, s) \in notices'
      /\ core[s] = "singBox" => Notice("stopped", i, s) \in notices'
      /\ \A n \in notices' : n \in notices \/ n.session = s
      /\ notices \subseteq notices'
  BY CoreDiesStep
<1>3. svc[i] \in ServiceSet /\ InstanceOK(svc[i])
  BY InstanceTyped DEF TypeInv, InstancesOK
<1>4. i \in Up
  <2>1. Owned(svc[i]) # {} BY <1>2
  <2>2. ~Gone(i) BY <1>1, <2>1 DEF PhaseOK, AtRest
  <2>3. svc[i] # Fresh BY <2>1 DEF Fresh, Owned
  <2>4. svc[i].state # "none" BY <1>3, <2>3 DEF InstanceOK, JobOK
  <2> QED BY <1>3, <2>2, <2>4 DEF Up, Gone, ServiceSet
<1>5. \A j \in Up : j = i BY <1>4 DEF TypeInv, OneUp
<1>6. Up' = Up BY <1>2 DEF Up
<1>7. PhaseOK' BY <1>1, <1>2, <1>6 DEF PhaseOK, Gone
<1>8. OrderOK'
  <2>1. Noticed' \subseteq Noticed \cup {s} BY <1>2 DEF Noticed
  <2>2. s \in Used(svc[i]) BY <1>2 DEF Used
  <2>3. Used(svc[i])' \subseteq Used(svc[i]) BY <1>2, <2>1, <2>2 DEF Used
  <2>4. InOrder(svc[i]) BY <1>1, <1>4 DEF OrderOK
  <2>5. InOrder(svc[i])' BY <1>2, <2>3, <2>4 DEF InOrder
  <2>6. \A x \in StartsOf(main) : x \notin Noticed'
    BY <1>1, <2>1, <2>2, <2>4 DEF OrderOK, InOrder
  <2> QED BY <1>1, <1>2, <1>5, <1>6, <2>5, <2>6 DEF OrderOK
<1>9. LiveOK' BY <1>1, <1>2, <1>6 DEF LiveOK
<1>10. RunsOK'
  <2>1. ASSUME NEW j \in Up PROVE Keeps(j, svc[j], svc[j])
    <3>1. j = i BY <1>5
    <3>2. \A op, x : Dead(i, svc[i].queue, op, x) => Dead(i, svc[i].queue, op, x)'
      BY <1>2 DEF Dead
    <3>3. svc[i].process \in live =>
            svc[i].process \in live' \/ Dead(i, svc[i].queue, "exit", svc[i].process)'
      <4>1. ASSUME svc[i].process = s PROVE Notice("exit", i, s) \in notices'
        <5>1. s # 0 BY Bounds DEF Sessions
        <5> QED BY <1>2, <1>3, <4>1, <5>1 DEF InstanceOK, CoresOK
      <4> QED BY <1>2, <4>1 DEF Dead
    <3>4. svc[i].server \in live =>
            svc[i].server \in live' \/ Dead(i, svc[i].queue, "stopped", svc[i].server)'
      <4>1. ASSUME svc[i].server = s PROVE Notice("stopped", i, s) \in notices'
        <5>1. s # 0 BY Bounds DEF Sessions
        <5> QED BY <1>2, <1>3, <4>1, <5>1 DEF InstanceOK, CoresOK
      <4> QED BY <1>2, <4>1 DEF Dead
    <3> QED BY <1>2, <3>1, <3>2, <3>3, <3>4 DEF Keeps, SameButQueue, InMain
  <2> QED BY <1>1, <1>2, <1>6, <2>1, RunsStep
<1>11. ErrorOK' BY <1>1, <1>2 DEF ErrorOK, Handled, Asked, InMain
<1> QED BY <1>7, <1>8, <1>9, <1>10, <1>11 DEF CalmInv

-----------------------------------------------------------------------------
(* What waits for the main thread when the first message has been handled. *)
LEMMA Handles1 ==
  ASSUME TypeInv, main # <<>>, main' = Tail(main)
  PROVE  /\ \A o, i : InMain(o, i) <=> InMain(o, i)' \/ (main[1].op = o /\ main[1].to = i)
         /\ StartsOf(main') \subseteq StartsOf(main)
         /\ Distinct(main) => /\ Distinct(main')
                              /\ main[1].op = "start" => main[1].session \notin StartsOf(main')
         /\ main[1].op = "start" => /\ main[1].session \in Sessions
                                    /\ main[1].session \in StartsOf(main)
<1>1. PICK q \in Seq(Messages) : q = main BY SessionsTyped
<1>2. Head(q) = main[1] /\ q # <<>> BY <1>1, TailAt
<1>3. \A o, i : InMain(o, i) <=> InQueue(q, o, i) BY <1>1 DEF InMain, InQueue
<1>4. \A o, i : InMain(o, i)' <=> InQueue(Tail(q), o, i)
  BY <1>1 DEF InMain, InQueue
<1>5. \A o, i : InQueue(q, o, i)
                  <=> InQueue(Tail(q), o, i) \/ (Head(q).op = o /\ Head(q).to = i)
  BY <1>2, MessageRemoved
<1>6. main[1].op = "start" => main[1].session \in Sessions
  <2>1. 1 \in DOMAIN main BY <1>1, <1>2, TailAt
  <2>2. main[1].op = "start" => main[1].session \in Sent
    BY <2>1 DEF TypeInv, MainOK, MessageOK
  <2> QED BY <2>2, SessionsTyped
<1>7. /\ StartsOf(Tail(q)) \subseteq StartsOf(q)
      /\ Distinct(q) => /\ Distinct(Tail(q))
                        /\ Head(q).op = "start" => Head(q).session \notin StartsOf(Tail(q))
      /\ Head(q).op = "start" /\ Head(q).session \in Sessions
           => Head(q).session \in StartsOf(q)
  BY <1>2, Removed
<1> QED BY <1>1, <1>2, <1>3, <1>4, <1>5, <1>6, <1>7

(* onStartCommand keeps the invariant.                                     *)
LEMMA StartCommandCalm ==
  ASSUME TypeInv, CalmInv, OnStartCommand
  PROVE  CalmInv'
<1>1. PICK i \in Instances, t \in Tasks :
        /\ i = main[1].to /\ main[1].op \in {"start", "stop"} /\ Created(i)
        /\ main # <<>> /\ main' = Tail(main)
        /\ t.op = main[1].op /\ t.session = main[1].session
        /\ \A j \in Instances \ {i} : svc'[j] = svc[j]
        /\ svc'[i] = Dispatched(svc[i], t)
        /\ phase' = phase /\ record' = record /\ wanted' = wanted
        /\ iface' = iface /\ live' = live /\ notices' = notices
        /\ core' = core /\ odd' = odd
  BY StartCommandStep
<1>2. /\ \A o, j : InMain(o, j) <=> InMain(o, j)' \/ (main[1].op = o /\ main[1].to = j)
      /\ StartsOf(main') \subseteq StartsOf(main)
      /\ Distinct(main) => /\ Distinct(main')
                           /\ main[1].op = "start" => main[1].session \notin StartsOf(main')
      /\ main[1].op = "start" => /\ main[1].session \in Sessions
                                 /\ main[1].session \in StartsOf(main)
  BY <1>1, Handles1
<1>3. Distinct(main) BY DEF CalmInv, OrderOK
<1>4. i = record => svc[i].state = "up"
  <2>1. svc[i] \in ServiceSet /\ i # 0 BY Bounds, SessionsTyped DEF Instances
  <2>2. i = record => ~Gone(i) BY <2>1 DEF TypeInv, MainOK, RecordOK
  <2> QED BY <1>1, <2>1, <2>2 DEF Gone, Created, ServiceSet
<1>5. ASSUME NEW j \in Instances
      PROVE  \E d :
        /\ d = svc'[j] /\ SameButQueue(svc[j], d) /\ (svc[j].expected => d.expected)
        /\ j \in Up =>
             /\ Distinct(d.queue) /\ Keeps(j, svc[j], d)
             /\ ReportsOf(d.queue) \subseteq ReportsOf(svc[j].queue) \cup Noticed
             /\ \A s \in StartsOf(d.queue) : \/ s \in StartsOf(svc[j].queue)
                                             \/ s \in StartsOf(main) \ StartsOf(main')
        /\ j = record => (Handled(j, svc[j]) => Handled(j, d)')
  <2>1. svc[j] \in ServiceSet /\ svc[j].queue \in Seq(Tasks) BY SessionsTyped
  <2>2. ASSUME j \in Up
        PROVE  Distinct(svc[j].queue) /\ \A s \in StartsOf(main) : s \notin StartsOf(svc[j].queue)
    BY <2>2 DEF CalmInv, OrderOK, InOrder
  <2>3. InMain("revoke", j) => InMain("revoke", j)' BY <1>1, <1>2
  <2>4. CASE svc'[j] = svc[j] /\ (j # i \/ svc[i].state # "up")
    <3>1. PICK d : d = svc'[j] /\ d = svc[j] BY <2>4
    <3>2. SameButQueue(svc[j], d) BY <3>1 DEF SameButQueue
    <3>3. Keeps(j, svc[j], d)
      BY <1>1, <2>3, <3>1, <3>2 DEF Keeps, Dead
    <3>4. j = record => (Handled(j, svc[j]) => Handled(j, d)')
      BY <1>1, <1>2, <1>4, <2>4, <3>1 DEF Handled, Asked
    <3> QED BY <2>2, <3>1, <3>2, <3>3, <3>4
  <2>5. CASE j = i /\ svc[i].state = "up"
    <3>1. PICK d : /\ d = svc'[j] /\ SameButQueue(svc[j], d) /\ d.expected = svc[j].expected
                   /\ d.queue = Append(svc[j].queue, t)
      BY <1>1, <2>1, <2>5, DispatchFacts
    <3>2. PICK q \in Seq(Tasks) : q = svc[j].queue BY <2>1
    <3>3. t.op \notin Reports BY <1>1 DEF Reports
    <3>4. j \in Up BY <2>5 DEF Up
    <3>5. t.op = "start" => ~HasOf(q, "start", t.session)
      BY <1>1, <1>2, <2>2, <3>2, <3>4 DEF StartsOf
    <3>6. d.queue = Append(q, t) /\ Distinct(q) BY <2>2, <3>1, <3>2, <3>4
    <3>7. /\ \A op : Has(d.queue, op) <=> Has(q, op) \/ t.op = op
          /\ \A op, s : HasOf(d.queue, op, s)
               <=> HasOf(q, op, s) \/ (t.op = op /\ t.session = s)
          /\ t.op # "start" => StartsOf(d.queue) = StartsOf(q)
          /\ StartsOf(d.queue) \subseteq StartsOf(q) \cup {t.session}
          /\ ReportsOf(d.queue) = ReportsOf(q)
          /\ Distinct(d.queue)
      BY <3>3, <3>5, <3>6, Appended
    <3>8. \A s \in StartsOf(d.queue) : \/ s \in StartsOf(svc[j].queue)
                                       \/ s \in StartsOf(main) \ StartsOf(main')
      BY <1>1, <1>2, <1>3, <3>2, <3>7
    <3>9. Keeps(j, svc[j], d)
      BY <1>1, <2>3, <3>1, <3>2, <3>7 DEF Keeps, Dead
    <3>10. Handled(j, svc[j]) => Handled(j, d)'
      BY <1>1, <1>2, <3>1, <3>2, <3>7 DEF Handled, Asked, SameButQueue
    <3> QED BY <3>1, <3>2, <3>7, <3>8, <3>9, <3>10
  <2>6. CASE j = i /\ svc[i].state # "up"
    <3>1. svc'[j] = svc[j] BY <1>1, <2>1, <2>6, DispatchFacts
    <3> QED BY <2>4, <2>6, <3>1
  <2> QED BY <1>1, <2>4, <2>5, <2>6
<1> QED BY <1>1, <1>2, <1>3, <1>5, QueuedCalm

(* onRevoke keeps the invariant: the stop it dispatches is in the queue.   *)
LEMMA OnRevokeCalm ==
  ASSUME TypeInv, CalmInv, OnRevoke
  PROVE  CalmInv'
<1>1. PICK i \in Instances, t \in Tasks :
        /\ i = main[1].to /\ main[1].op = "revoke" /\ Created(i)
        /\ main # <<>> /\ main' = Tail(main) /\ t.op = "stop"
        /\ \A j \in Instances \ {i} : svc'[j] = svc[j]
        /\ SameButQueue(svc[i], svc'[i]) /\ svc'[i].expected
        /\ svc[i].state = "up" => svc'[i].queue = Append(svc[i].queue, t)
        /\ svc[i].state # "up" => svc'[i].queue = svc[i].queue
        /\ phase' = phase /\ record' = record /\ wanted' = wanted
        /\ iface' = iface /\ live' = live /\ notices' = notices
        /\ core' = core /\ odd' = odd
  BY RevokeStep
<1>2. /\ \A o, j : InMain(o, j) <=> InMain(o, j)' \/ (main[1].op = o /\ main[1].to = j)
      /\ StartsOf(main') \subseteq StartsOf(main)
      /\ Distinct(main) => Distinct(main')
  BY <1>1, Handles1
<1>3. Distinct(main) BY DEF CalmInv, OrderOK
<1>4. i = record => svc[i].state = "up"
  <2>1. svc[i] \in ServiceSet /\ i # 0 BY Bounds, SessionsTyped DEF Instances
  <2>2. i = record => ~Gone(i) BY <2>1 DEF TypeInv, MainOK, RecordOK
  <2> QED BY <1>1, <2>1, <2>2 DEF Gone, Created, ServiceSet
<1>5. ASSUME NEW j \in Instances
      PROVE  \E d :
        /\ d = svc'[j] /\ SameButQueue(svc[j], d) /\ (svc[j].expected => d.expected)
        /\ j \in Up =>
             /\ Distinct(d.queue) /\ Keeps(j, svc[j], d)
             /\ ReportsOf(d.queue) \subseteq ReportsOf(svc[j].queue) \cup Noticed
             /\ \A s \in StartsOf(d.queue) : \/ s \in StartsOf(svc[j].queue)
                                             \/ s \in StartsOf(main) \ StartsOf(main')
        /\ j = record => (Handled(j, svc[j]) => Handled(j, d)')
  <2>1. svc[j] \in ServiceSet /\ svc[j].queue \in Seq(Tasks) BY SessionsTyped
  <2>2. ASSUME j \in Up PROVE Distinct(svc[j].queue)
    BY <2>2 DEF CalmInv, OrderOK, InOrder
  <2>3. CASE j # i
    <3>1. PICK d : d = svc'[j] /\ d = svc[j] BY <1>1, <2>3
    <3>2. SameButQueue(svc[j], d) BY <3>1 DEF SameButQueue
    <3>3. Keeps(j, svc[j], d)
      BY <1>1, <1>2, <2>3, <3>1, <3>2 DEF Keeps, Dead
    <3>4. Handled(j, svc[j]) => Handled(j, d)'
      BY <1>1, <1>2, <3>1 DEF Handled, Asked
    <3> QED BY <2>2, <3>1, <3>2, <3>3, <3>4
  <2>4. CASE j = i /\ svc[i].state = "up"
    <3>1. PICK d : /\ d = svc'[j] /\ SameButQueue(svc[j], d) /\ d.expected
                   /\ d.queue = Append(svc[j].queue, t)
      BY <1>1, <2>4
    <3>2. PICK q \in Seq(Tasks) : q = svc[j].queue BY <2>1
    <3>3. t.op \notin Reports /\ t.op # "start" BY <1>1 DEF Reports
    <3>4. j \in Up BY <2>4 DEF Up
    <3>5. d.queue = Append(q, t) /\ Distinct(q) BY <2>2, <3>1, <3>2, <3>4
    <3>6. /\ \A op : Has(d.queue, op) <=> Has(q, op) \/ t.op = op
          /\ \A op, s : HasOf(d.queue, op, s)
               <=> HasOf(q, op, s) \/ (t.op = op /\ t.session = s)
          /\ StartsOf(d.queue) = StartsOf(q)
          /\ ReportsOf(d.queue) = ReportsOf(q)
          /\ Distinct(d.queue)
      BY <3>3, <3>5, Appended
    <3>7. Stopping(d) BY <1>1, <3>1, <3>6 DEF Stopping
    <3>8. Keeps(j, svc[j], d)
      BY <1>1, <3>1, <3>2, <3>6, <3>7 DEF Keeps, Dead, Stopping
    <3>9. Handled(j, svc[j]) => Handled(j, d)'
      BY <1>1, <3>6 DEF Handled, Asked
    <3> QED BY <3>1, <3>2, <3>6, <3>8, <3>9
  <2>5. CASE j = i /\ svc[i].state # "up"
    <3>1. PICK d : d = svc'[j] /\ SameButQueue(svc[j], d) /\ d.expected BY <1>1, <2>5
    <3>2. j \notin Up BY <2>5 DEF Up
    <3> QED BY <1>4, <2>5, <3>1, <3>2
  <2> QED BY <2>3, <2>4, <2>5
<1> QED BY <1>1, <1>2, <1>3, <1>5, QueuedCalm

(* onCreate keeps the invariant: there was no other instance up.           *)
LEMMA CreateCalm ==
  ASSUME TypeInv, TypeInv', CalmInv, OnCreate
  PROVE  CalmInv'
<1>1. PICK i \in Instances :
        /\ i = main[1].to /\ main[1].op = "create" /\ main # <<>> /\ main' = Tail(main)
        /\ svc[i] = Fresh
        /\ \A j \in Instances \ {i} : svc'[j] = svc[j]
        /\ svc'[i].state = "up" /\ svc'[i].queue = <<>>
        /\ svc'[i].job = NoTask /\ svc'[i].at = "begin"
        /\ svc'[i].server = 0 /\ svc'[i].process = 0 /\ ~svc'[i].bridge /\ ~svc'[i].hole
        /\ phase' = phase /\ record' = record /\ wanted' = wanted
        /\ iface' = iface /\ live' = live /\ notices' = notices
        /\ core' = core /\ odd' = odd
  BY CreateStep
<1>2. /\ \A o, j : InMain(o, j) <=> InMain(o, j)' \/ (main[1].op = o /\ main[1].to = j)
      /\ StartsOf(main') \subseteq StartsOf(main)
      /\ Distinct(main) => Distinct(main')
  BY <1>1, Handles1
<1>3. PhaseOK /\ OrderOK /\ LiveOK /\ RunsOK /\ ErrorOK BY DEF CalmInv
<1>4. i \in Up' /\ i \notin Up /\ \A j \in Up : j \in Up' BY <1>1 DEF Up, Fresh
<1>5. \A j \in Up' : j = i BY <1>4 DEF TypeInv, OneUp
<1>6. Up = {} BY <1>4, <1>5
<1>7. live = {} BY <1>3, <1>6 DEF LiveOK
<1>8. iface = NoIface
  <2>1. iface # NoIface => iface.by \in Instances BY MainTyped DEF TypeInv, IfaceOK
  <2> QED BY <1>3, <1>6, <2>1 DEF PhaseOK, Up
<1>9. phase # "connected" BY <1>3, <1>6 DEF RunsOK
<1>10. Owned(svc'[i]) = {} BY <1>1 DEF Owned
<1>11. PhaseOK'
  <2>1. \A j \in Instances : Gone(j)' => AtRest(svc'[j])
    BY <1>1, <1>3 DEF PhaseOK, Gone
  <2>2. InPhase(svc'[i], phase') BY <1>1, <1>10 DEF InPhase, NoTask, Task
  <2> QED BY <1>1, <1>5, <1>8, <2>1, <2>2 DEF PhaseOK, AtRest, InPhase, Owned
<1>12. OrderOK'
  <2>1. StartsOf(svc'[i].queue) = {} /\ ReportsOf(svc'[i].queue) = {} /\ Distinct(svc'[i].queue)
    BY <1>1 DEF StartsOf, ReportsOf, HasOf, Distinct
  <2>2. Noticed' = Noticed BY <1>1 DEF Noticed
  <2>3. (Used(svc[i]))' = Noticed BY <1>10, <2>1, <2>2 DEF Used
  <2>4. \A s \in StartsOf(main') : s \notin Noticed BY <1>2, <1>3 DEF OrderOK
  <2>5. InOrder(svc[i])' BY <1>1, <2>1, <2>3, <2>4 DEF InOrder
  <2> QED BY <1>2, <1>3, <1>5, <2>2, <2>4, <2>5 DEF OrderOK
<1>13. LiveOK' BY <1>1, <1>7 DEF LiveOK
<1>14. RunsOK'
  <2>1. OnItsWay(i, svc[i])' BY <1>1 DEF OnItsWay
  <2> QED BY <1>1, <1>5, <1>9, <2>1 DEF RunsOK
<1>15. ErrorOK'
  <2>1. PICK k : k = record OBVIOUS
  <2>2. record # 0 => record \in Instances BY MainTyped DEF TypeInv
  <2>3. Asked(i, Fresh) => InMain("start", i) \/ InMain("stop", i)
    BY DEF Asked, Has, Fresh
  <2>4. CASE k = i
    <3>1. phase = "error" /\ "unprotected" \notin odd => Handled(i, Fresh)
      BY <1>1, <1>3, <2>1, <2>4, Bounds DEF ErrorOK, Instances
    <3>2. Handled(i, Fresh) => ~wanted \/ InMain("start", i)' \/ InMain("stop", i)'
      BY <1>1, <1>2, <2>3 DEF Handled, Fresh
    <3> QED BY <1>1, <2>1, <2>4, <3>1, <3>2 DEF ErrorOK, Handled, Asked, InMain
  <2>5. CASE k # i
    <3>1. k # 0 => svc'[k] = svc[k] BY <1>1, <2>1, <2>2, <2>5
    <3>2. InMain("start", k) => InMain("start", k)' BY <1>1, <1>2
    <3>3. InMain("stop", k) => InMain("stop", k)' BY <1>1, <1>2
    <3> QED
      BY <1>1, <1>3, <2>1, <3>1, <3>2, <3>3 DEF ErrorOK, Handled, Asked, InMain, Has
  <2> QED BY <2>4, <2>5
<1> QED BY <1>11, <1>12, <1>13, <1>14, <1>15 DEF CalmInv

(* onDestroy keeps the invariant, unless it ran under a start or under the *)
(* handling of a failure.                                                  *)
LEMMA DestroyCalm ==
  ASSUME TypeInv, CalmInv, OnDestroy, "destroyed" \notin odd'
  PROVE  CalmInv'
<1>1. PICK i \in Instances :
        /\ i = main[1].to /\ main[1].op = "destroy" /\ Created(i)
        /\ main # <<>> /\ main' = Tail(main)
        /\ StopActiveRuntime(i) /\ iface' = Closing({"tun", "hole"}, i)
        /\ \A j \in Instances \ {i} : svc'[j] = svc[j]
        /\ svc'[i].state = "gone" /\ svc'[i].at = svc[i].at
        /\ ~svc'[i].hole /\ svc'[i].server = 0 /\ svc'[i].process = 0
        /\ phase' = phase /\ record' = record /\ wanted' = wanted /\ core' = core
        /\ odd \subseteq odd' /\ odd' \subseteq odd \cup {"dropped", "destroyed"}
        /\ phase \in {"connecting", "connected"} \/ svc[i].at \in {"reset", "handle"}
             => "destroyed" \in odd'
  BY DestroyStep
<1>2. /\ \A o, j : InMain(o, j) <=> InMain(o, j)' \/ (main[1].op = o /\ main[1].to = j)
      /\ StartsOf(main') \subseteq StartsOf(main)
      /\ Distinct(main) => Distinct(main')
  BY <1>1, Handles1
<1>3. PhaseOK /\ OrderOK /\ LiveOK /\ RunsOK /\ ErrorOK BY DEF CalmInv
<1>4. phase \in {"error", "disconnected"} /\ svc[i].at \notin {"reset", "handle"}
  BY <1>1 DEF TypeInv, TypeOK
<1>5. Owned(svc[i]) = {} /\ svc[i].at \notin Startup \cup {"handle"}
  <2>1. svc[i] \in ServiceSet BY SessionsTyped
  <2>2. CASE Gone(i) BY <1>3, <2>2 DEF PhaseOK, AtRest
  <2>3. CASE ~Gone(i)
    <3>1. i \in Up BY <1>1, <2>1, <2>3 DEF Up, Gone, Created, ServiceSet
    <3> QED BY <1>3, <1>4, <3>1 DEF PhaseOK, InPhase, Startup
  <2> QED BY <2>2, <2>3
<1>6. live' = live /\ notices' = notices
  <2>1. /\ live' \subseteq live /\ notices \subseteq notices'
        /\ \A s \in live : s \notin Owned(svc[i]) => s \in live'
        /\ \A n \in notices' : n \in notices \/ n.session \in Owned(svc[i])
    BY <1>1, StopTyped DEF TypeInv
  <2> QED BY <1>5, <2>1
<1>7. /\ \A j \in Up' : j \in Up /\ j # i /\ svc'[j] = svc[j]
      /\ \A j \in Up : j # i => j \in Up'
  BY <1>1 DEF Up
<1>8. \A j \in Instances : j # i => (iface.by = j => iface' = iface)
  BY <1>1 DEF Closing
<1>9. PhaseOK'
  <2>1. AtRest(svc'[i]) BY <1>1, <1>5 DEF AtRest, Owned
  <2>2. \A j \in Instances : Gone(j)' => AtRest(svc'[j])
    BY <1>1, <1>3, <2>1 DEF PhaseOK, Gone
  <2>3. \A j \in Up' : InPhase(svc'[j], phase') BY <1>1, <1>3, <1>7 DEF PhaseOK
  <2>4. iface' # NoIface => svc'[iface'.by].state = "up"
    <3>1. iface # NoIface => iface.by \in Instances /\ iface.kind \in {"tun", "hole"}
      BY MainTyped DEF TypeInv, IfaceOK
    <3>2. CASE iface' # NoIface
      <4>1. iface # NoIface /\ iface' = iface /\ iface.by # i
        BY <1>1, <3>1, <3>2 DEF Closing
      <4> QED BY <1>1, <1>3, <3>1, <4>1 DEF PhaseOK
    <3> QED BY <3>2
  <2> QED BY <2>2, <2>3, <2>4 DEF PhaseOK, AtRest, InPhase, Owned
<1>10. OrderOK'
  <2>1. Noticed' = Noticed BY <1>6 DEF Noticed
  <2>2. ASSUME NEW j \in Up' PROVE InOrder(svc[j])'
    <3>1. PICK d : d = svc'[j] /\ d = svc[j] BY <1>7
    <3>2. InOrder(d) BY <1>3, <1>7, <3>1 DEF OrderOK
    <3>3. Used(d)' = Used(d) BY <2>1 DEF Used
    <3>4. InOrder(d)' BY <1>2, <3>2, <3>3 DEF InOrder
    <3> QED BY <3>1, <3>4 DEF InOrder, Used
  <2> QED BY <1>2, <1>3, <2>1, <2>2 DEF OrderOK
<1>11. LiveOK'
  <2>1. ASSUME NEW s \in live PROVE \E j \in Up' : s \in Owned(svc'[j])
    <3>1. PICK j \in Up : s \in Owned(svc[j]) BY <1>3 DEF LiveOK
    <3>2. j # i BY <1>5, <3>1
    <3> QED BY <1>7, <3>1, <3>2
  <2> QED BY <1>3, <1>6, <1>7, <2>1 DEF LiveOK, Owned
<1>12. RunsOK'
  <2>1. ASSUME NEW j \in Up' PROVE OnItsWay(j, svc[j])'
    <3>1. PICK d : d = svc'[j] /\ d = svc[j] BY <1>7
    <3>2. j \in Instances /\ j # i /\ j \in Up BY <1>7 DEF Up
    <3>3. d \in ServiceSet /\ InstanceOK(d) /\ OnItsWay(j, d)
      BY <1>3, <3>1, <3>2, SessionsTyped DEF TypeInv, InstancesOK, RunsOK
    <3>4. SameButQueue(d, d) BY DEF SameButQueue
    <3>5. iface = Iface("tun", j) => iface' = Iface("tun", j)
      BY <1>8, <3>2 DEF Iface
    <3>6. InMain("revoke", j) => InMain("revoke", j)' BY <1>1, <1>2
    <3>7. Keeps(j, d, d) BY <1>1, <1>6, <3>4, <3>5, <3>6 DEF Keeps, Dead
    <3>8. OnItsWay(j, d)' BY <3>3, <3>7, RunsKept
    <3> QED BY <3>1, <3>8 DEF OnItsWay, Shown, Runs, TunOpen, Alive, Dead, Stopping
  <2> QED BY <1>1, <1>4, <2>1 DEF RunsOK
<1>13. ErrorOK'
  <2>1. CASE record = 0 BY <1>1, <2>1 DEF ErrorOK
  <2>2. CASE record # 0
    <3>1. PICK k \in Instances : k = record BY <2>2, MainTyped DEF TypeInv
    <3>2. InMain("destroy", i)
      <4>1. 1 \in DOMAIN main BY <1>1, SessionsTyped, TailAt
      <4> QED BY <1>1, <4>1 DEF InMain
    <3>3. k # i BY <2>2, <3>1, <3>2 DEF TypeInv, MainOK, RecordOK
    <3>4. PICK d : d = svc'[k] /\ d = svc[k] BY <1>1, <3>3
    <3>5. Handled(k, d) => Handled(k, d)' BY <1>1, <1>2 DEF Handled, Asked
    <3>6. phase = "error" /\ "unprotected" \notin odd => Handled(k, d)
      BY <1>3, <2>2, <3>1, <3>4 DEF ErrorOK
    <3>7. phase' = "error" /\ "unprotected" \notin odd' => Handled(k, d)'
      BY <1>1, <3>5, <3>6
    <3> QED BY <1>1, <3>1, <3>4, <3>7 DEF ErrorOK, Handled, Asked, InMain
  <2> QED BY <2>1, <2>2
<1> QED BY <1>9, <1>10, <1>11, <1>12, <1>13 DEF CalmInv

-----------------------------------------------------------------------------
(* The executor of the instance that is up: s becomes n.                   *)
Becomes(i, s, n) ==
  /\ s = svc[i] /\ n = svc'[i] /\ s \in ServiceSet /\ n \in ServiceSet
  /\ s.queue \in Seq(Tasks) /\ InstanceOK(s) /\ InstanceOK(n)
  /\ Effect(i, s, n) \/ Failed(i, s, n)
  /\ i \in Up /\ Up' = Up /\ \A j \in Up : j = i
  /\ main' = main /\ record' = record /\ core' = core
  /\ odd \subseteq odd' /\ n.state = s.state

(* A step of an executor that is not gone is one of the tasks above.       *)
LEMMA ExecutorUp ==
  ASSUME TypeInv, NEW i \in Instances, Executor(i), ~Gone(i)
  PROVE  \E s, n : Becomes(i, s, n)
<1>1. TypeOK /\ IfaceOK /\ InstancesOK BY DEF TypeInv
<1>2. PICK s \in ServiceSet : s = svc[i] /\ InstanceOK(s)
  BY <1>1, InstanceTyped DEF InstancesOK
<1>3. PICK n \in ServiceSet : n = svc'[i] BY <1>1, ExecutorFrame
<1>4. /\ main' = main /\ record' = record /\ core' = core
      /\ \A j \in Instances \ {i} : svc'[j] = svc[j]
      /\ svc'[i].state = svc[i].state /\ odd \subseteq odd'
  BY <1>1, ExecutorFrame
<1>5. Up' = Up
  <2>1. \A j \in Instances : svc'[j].state = svc[j].state BY <1>4
  <2> QED BY <2>1 DEF Up
<1>6. Effect(i, s, n) \/ Failed(i, s, n)
  <2>1. Effect(i, svc[i], svc'[i]) \/ Failed(i, svc[i], svc'[i])
    BY <1>1, Effects, Failures
  <2> QED BY <1>2, <1>3, <2>1
<1>7. s.queue \in Seq(Tasks) BY <1>2 DEF ServiceSet
<1>8. InstanceOK(n) BY <1>1, <1>3, ExecutorInstance
<1>9. Becomes(i, s, n)
  BY <1>2, <1>3, <1>4, <1>5, <1>6, <1>7, <1>8, ActsAlone DEF Becomes
<1> QED BY <1>9

(* What a task takes from the queue.                                       *)
LEMMA QueueShrinks ==
  ASSUME TypeInv, NEW i \in Instances, NEW s, NEW n, Becomes(i, s, n)
  PROVE  \/ n.queue = s.queue
         \/ s.queue # <<>> /\ n.queue = Tail(s.queue) /\ s.job = NoTask /\ s.at = "begin"
<1>1. Effect(i, s, n) \/ Failed(i, s, n) BY DEF Becomes
<1>2. s.job = NoTask => s.at = "begin" BY DEF Becomes, InstanceOK, JobOK
<1>3. Failed(i, s, n) =>
        n.queue = s.queue \/ (s.queue # <<>> /\ n.queue = Tail(s.queue) /\ s.job = NoTask)
  BY DEF Failed, Failing, LibboxReported, Begins, Becomes
<1> QED
  BY <1>1, <1>2, <1>3 DEF Effect, Starting, Resets, Blocks, Stops, Launches, Bridges, Ends, Switched,
    Ignores, Takes

(* A task owns what it owned, or what it has launched, and reports nothing *)
(* else.                                                                   *)
LEMMA CoresShrink ==
  ASSUME TypeInv, NEW i \in Instances, NEW s, NEW n, Becomes(i, s, n)
  PROVE  /\ Owned(n) \subseteq Owned(s) \cup (IF s.at = "core" THEN {s.job.session} ELSE {})
         /\ \A x \in notices' : x \in notices \/ x.session \in Owned(s)
<1>1. s \in ServiceSet /\ s = svc[i] /\ CoresOK(s) BY DEF Becomes, InstanceOK
<1>2. CASE Starting(i, s, n) \/ Stops(i, s, n) \/ Failed(i, s, n)
  <2>1. StopActiveRuntime(i) /\ n.server = 0 /\ n.process = 0
    BY <1>2 DEF Starting, Stops, Failed
  <2> QED BY <1>1, <2>1, StopTyped DEF TypeInv, Owned
<1>3. CASE Launches(i, s, n)
  <2>1. s.server = 0 /\ s.process = 0
    BY <1>1, <1>3, OwnedTyped DEF Launches, CoresOK
  <2> QED BY <1>3, <2>1 DEF Launches, Owned
<1>4. CASE \/ Resets(i, s, n) \/ Bridges(i, s, n) \/ Ends(i, s, n) \/ Blocks(i, s, n)
           \/ Switched(i, s, n) \/ Ignores(i, s, n)
  <2>1. notices' = notices /\ n.server = s.server /\ (n.process = s.process \/ n.process = 0)
    BY <1>4 DEF Resets, Bridges, Ends, Blocks, Switched, Ignores, SameCores
  <2> QED BY <2>1 DEF Owned
<1> QED BY <1>2, <1>3, <1>4 DEF Becomes, Effect

(* The sessions that wait have not run after a task either.                *)
LEMMA OrderExecutor ==
  ASSUME TypeInv, CalmInv, NEW i \in Instances, Executor(i)
  PROVE  OrderOK'
<1>1. PhaseOK /\ OrderOK BY DEF CalmInv
<1>2. CASE Gone(i)
  <2>1. notices' = notices BY <1>1, <1>2, GoneEnds
  <2>2. /\ main' = main /\ \A j \in Instances \ {i} : svc'[j] = svc[j]
        /\ svc'[i].state = svc[i].state
    BY ExecutorFrame DEF TypeInv
  <2>3. i \notin Up /\ i \notin Up' BY <1>2, <2>2 DEF Gone, Up
  <2>4. \A j \in Up' : j \in Up /\ svc'[j] = svc[j] BY <2>2, <2>3 DEF Up
  <2>5. Noticed' = Noticed BY <2>1 DEF Noticed
  <2> QED BY <1>1, <2>2, <2>4, <2>5 DEF OrderOK, InOrder, Used
<1>3. CASE ~Gone(i)
  <2>1. PICK s, n : Becomes(i, s, n) BY <1>3, ExecutorUp
  <2>2. InOrder(s) /\ n = svc'[i] /\ Up' = Up /\ main' = main /\ \A j \in Up : j = i
    BY <1>1, <2>1 DEF OrderOK, Becomes
  <2>3. /\ StartsOf(n.queue) \subseteq StartsOf(s.queue)
        /\ ReportsOf(n.queue) \subseteq ReportsOf(s.queue)
        /\ Distinct(n.queue)
    <3>1. CASE n.queue = s.queue BY <2>2, <3>1 DEF InOrder
    <3>2. CASE s.queue # <<>> /\ n.queue = Tail(s.queue)
      <4>1. PICK q \in Seq(Tasks) : q = s.queue BY <2>1 DEF Becomes
      <4> QED BY <2>2, <3>2, <4>1, Removed DEF InOrder
    <3> QED BY <2>1, <3>1, <3>2, QueueShrinks
  <2>4. Noticed' \subseteq Noticed \cup Owned(s)
    <3>1. \A x \in notices' : x \in notices \/ x.session \in Owned(s)
      BY <2>1, CoresShrink
    <3> QED BY <3>1 DEF Noticed
  <2>5. Used(n)' \subseteq Used(s) \cup (IF s.at = "core" THEN {s.job.session} ELSE {})
    <3>1. Owned(n) \subseteq Owned(s) \cup (IF s.at = "core" THEN {s.job.session} ELSE {})
      BY <2>1, CoresShrink
    <3> QED BY <2>3, <2>4, <3>1 DEF Used
  <2>7. n.at \in {"reset", "core"} => /\ n.job.session \notin StartsOf(main)
                                     /\ n.job.session \notin StartsOf(n.queue)
                                     /\ n.job.session \notin Used(n)'
    <3> SUFFICES ASSUME n.at \in {"reset", "core"}
                 PROVE  /\ n.job.session \notin StartsOf(main)
                        /\ n.job.session \notin StartsOf(n.queue)
                        /\ n.job.session \notin Used(n)'
      OBVIOUS
    <3>1. PICK q \in Seq(Tasks) : q = s.queue BY <2>1 DEF Becomes
    <3>2. Starting(i, s, n) \/ Resets(i, s, n)
      <4>1. Effect(i, s, n) \/ Failed(i, s, n) BY <2>1 DEF Becomes
      <4>2. s.job = NoTask => s.at = "begin" BY <2>1 DEF Becomes, InstanceOK, JobOK
      <4> QED
        BY <4>1, <4>2 DEF Effect, Stops, Launches, Bridges, Ends, Blocks, Switched, Ignores,
          Failed, SameTask, Takes
    <3>3. CASE Starting(i, s, n)
      <4>1. /\ q # <<>> /\ n.queue = Tail(q) /\ n.job = Head(q) /\ Head(q).op = "start"
            /\ s.job = NoTask
        BY <3>1, <3>3 DEF Starting, Takes
      <4>2. s.at = "begin" BY <2>1, <4>1 DEF Becomes, InstanceOK, JobOK
      <4>3. Head(q).session \in Sessions
        <5>1. 1 \in DOMAIN q /\ Head(q) = q[1] BY <4>1, Rest
        <5>2. QueueOK(q) BY <2>1, <3>1 DEF Becomes, InstanceOK
        <5> QED BY <4>1, <5>1, <5>2, SessionsTyped DEF QueueOK
      <4>4. Distinct(q) BY <2>2, <3>1 DEF InOrder
      <4>5. Head(q).session \in StartsOf(q) /\ Head(q).session \notin StartsOf(Tail(q))
        BY <4>1, <4>3, <4>4, Removed
      <4> QED BY <2>2, <2>5, <3>1, <4>1, <4>2, <4>5 DEF InOrder
    <3>4. CASE Resets(i, s, n)
      <4>1. /\ s.at = "reset" /\ n.job = s.job /\ n.queue = s.queue BY <3>4 DEF Resets
      <4> QED BY <2>2, <2>5, <4>1 DEF InOrder
    <3> QED BY <3>2, <3>3, <3>4
  <2>8. InOrder(n)'
    <3>1. \A x \in StartsOf(main) : x \notin StartsOf(n.queue) /\ x \notin Used(n)'
      BY <2>2, <2>3, <2>5 DEF InOrder
    <3>2. \A x \in StartsOf(n.queue) : x \notin Used(n)'
      BY <2>2, <2>3, <2>5 DEF InOrder
    <3> QED BY <2>2, <2>3, <2>7, <3>1, <3>2 DEF InOrder
  <2>9. \A x \in StartsOf(main) : x \notin Noticed' BY <2>2, <2>4 DEF InOrder, Used
  <2>10. InOrder(svc[i])' BY <2>2, <2>8 DEF InOrder, Used
  <2> QED BY <1>1, <2>2, <2>9, <2>10 DEF OrderOK
<1> QED BY <1>2, <1>3
(* The cores that run after a task of the executor.                        *)
LEMMA LiveExecutor ==
  ASSUME TypeInv, CalmInv, NEW i \in Instances, Executor(i)
  PROVE  LiveOK'
<1>1. PhaseOK /\ OrderOK /\ LiveOK BY DEF CalmInv
<1>2. CASE Gone(i)
  <2>1. notices' = notices /\ live' = live BY <1>1, <1>2, GoneEnds
  <2>2. /\ \A j \in Instances \ {i} : svc'[j] = svc[j]
        /\ svc'[i].state = svc[i].state
    BY ExecutorFrame DEF TypeInv
  <2>3. i \notin Up /\ i \notin Up' BY <1>2, <2>2 DEF Gone, Up
  <2>4. \A j \in Instances : (j \in Up' <=> j \in Up) /\ (j \in Up => svc'[j] = svc[j])
    BY <2>2, <2>3 DEF Up
  <2>5. \A j : (j \in Up => j \in Instances) /\ (j \in Up' => j \in Instances) BY DEF Up
  <2>6. \A x \in live' : \E j \in Up' : x \in Owned(svc'[j])
    BY <1>1, <2>1, <2>4, <2>5 DEF LiveOK
  <2>7. \A j \in Up' : \A x \in ReportsOf(svc'[j].queue) : x \notin live'
    BY <1>1, <2>1, <2>4, <2>5 DEF LiveOK
  <2> QED BY <1>1, <2>1, <2>6, <2>7 DEF LiveOK, Owned, ReportsOf
<1>3. CASE ~Gone(i)
  <2>1. PICK s, n : Becomes(i, s, n) BY <1>3, ExecutorUp
  <2>2. /\ s = svc[i] /\ n = svc'[i] /\ i \in Up /\ Up' = Up /\ \A j \in Up : j = i
        /\ s \in ServiceSet /\ n \in ServiceSet /\ CoresOK(s) /\ JobOK(s) /\ InOrder(s)
    BY <1>1, <2>1 DEF OrderOK, Becomes, InstanceOK
  <2>3. live \subseteq Owned(s) BY <1>1, <2>2 DEF LiveOK
  <2>4. ReportsOf(n.queue) \subseteq ReportsOf(s.queue)
    <3>1. CASE n.queue = s.queue BY <3>1
    <3>2. CASE s.queue # <<>> /\ n.queue = Tail(s.queue)
      <4>1. PICK q \in Seq(Tasks) : q = s.queue BY <2>1 DEF Becomes
      <4> QED BY <3>2, <4>1, Removed
    <3> QED BY <2>1, <3>1, <3>2, QueueShrinks
  <2>5. SUFFICES /\ live' \subseteq Owned(n)
                 /\ \A x \in notices' : x.session \notin live'
                 /\ \A x \in ReportsOf(n.queue) : x \notin live'
    <3>1. SUFFICES ASSUME live' \subseteq Owned(n),
                          \A x \in notices' : x.session \notin live',
                          \A x \in ReportsOf(n.queue) : x \notin live'
                   PROVE  LiveOK'
      OBVIOUS
    <3>2. \A x \in live' : \E j \in Up' : x \in Owned(svc'[j]) BY <2>2, <3>1
    <3>3. \A j \in Up' : \A x \in ReportsOf(svc'[j].queue) : x \notin live'
      BY <2>2, <3>1
    <3> QED BY <3>1, <3>2, <3>3 DEF LiveOK, Owned, ReportsOf
  <2>6. CASE Starting(i, s, n) \/ Stops(i, s, n) \/ Failed(i, s, n)
    <3>1. StopActiveRuntime(i) BY <2>6 DEF Starting, Stops, Failed
    <3>2. live' \subseteq live /\ \A x \in Owned(s) : x \notin live'
      BY <2>2, <3>1, StopTyped DEF TypeInv
    <3>3. live' = {} BY <2>3, <3>2
    <3> QED BY <3>3
  <2>7. CASE Launches(i, s, n)
    <3>1. /\ s.at = "core" /\ live' = live \cup {s.job.session} /\ notices' = notices
          /\ n.process = s.job.session \/ n.server = s.job.session
      BY <2>7 DEF Launches
    <3>2. live = {} BY <2>2, <2>3, <3>1 DEF CoresOK
    <3>3. s.job.session \notin Used(s) BY <2>2, <3>1 DEF InOrder
    <3>4. s.job.session # 0
      <4>1. s.job.session \in Sessions BY <2>2, <3>1, SessionsTyped
      <4> QED BY <4>1, Bounds DEF Sessions
    <3>5. s.job.session \in Owned(n) BY <3>1, <3>4 DEF Owned
    <3>6. \A x \in notices : x.session # s.job.session BY <3>3 DEF Used, Noticed
    <3>7. \A x \in ReportsOf(n.queue) : x # s.job.session BY <2>4, <3>3 DEF Used
    <3> QED BY <3>1, <3>2, <3>5, <3>6, <3>7
  <2>8. CASE \/ Resets(i, s, n) \/ Bridges(i, s, n) \/ Ends(i, s, n) \/ Blocks(i, s, n)
             \/ Switched(i, s, n)
    <3>1. /\ live' = live /\ notices' = notices
          /\ n.server = s.server /\ n.process = s.process
      BY <2>8 DEF Resets, Bridges, Ends, Blocks, Switched, SameCores
    <3> QED BY <1>1, <2>2, <2>3, <2>4, <3>1 DEF LiveOK, Owned
  <2>9. CASE Ignores(i, s, n)
    <3>1. live' = live /\ notices' = notices /\ n.server = s.server
      BY <2>9 DEF Ignores
    <3>2. CASE n.process = s.process
      BY <1>1, <2>2, <2>3, <2>4, <3>1, <3>2 DEF LiveOK, Owned
    <3>3. CASE Takes(s, n, "exit") /\ s.process = Head(s.queue).session /\ n.process = 0
      <4>1. PICK q \in Seq(Tasks) : q = s.queue BY <2>1 DEF Becomes
      <4>2. q # <<>> /\ Head(q).op = "exit" /\ Head(q).session = s.process
        BY <3>3, <4>1 DEF Takes
      <4>3. CASE s.process = 0
        BY <1>1, <2>2, <2>3, <2>4, <3>1, <3>3, <4>3 DEF LiveOK, Owned
      <4>4. CASE s.process # 0
        <5>1. s.process \in Sessions BY <2>2, <4>4, OwnedTyped
        <5>2. s.process \in ReportsOf(q) BY <4>2, <5>1, Removed DEF Reports
        <5>3. s.process \notin live BY <1>1, <2>2, <4>1, <5>2 DEF LiveOK
        <5> QED BY <1>1, <2>2, <2>3, <2>4, <3>1, <5>3 DEF LiveOK, Owned
      <4> QED BY <4>3, <4>4
    <3> QED BY <2>9, <3>2, <3>3 DEF Ignores
  <2> QED BY <2>1, <2>6, <2>7, <2>8, <2>9 DEF Becomes, Effect
<1> QED BY <1>2, <1>3
(* A task that ends nothing leaves what runs as it is.                     *)
LEMMA ShownStays ==
  ASSUME NEW i, NEW s, NEW n, main' = main, live' = live, notices' = notices,
         n.expected = s.expected, s.bridge => n.bridge,
         ~s.expected => n.server = s.server /\ n.process = s.process,
         Has(s.queue, "stop") => Has(n.queue, "stop"),
         ~s.expected /\ s.process # 0 /\ HasOf(s.queue, "exit", s.process)
           => HasOf(n.queue, "exit", s.process),
         ~s.expected /\ s.server # 0 /\ HasOf(s.queue, "stopped", s.server)
           => HasOf(n.queue, "stopped", s.server),
         iface = Iface("tun", i) => iface' = Iface("tun", i)
  PROVE  /\ Runs(i, s) => Runs(i, n)'
         /\ TunOpen(i, s) => TunOpen(i, n)'
         /\ Shown(i, s) => Shown(i, n)'
<1>1. Stopping(s) => Stopping(n) BY DEF Stopping
<1>2. ASSUME ~s.expected, Alive(i, s) PROVE Alive(i, n)' /\ Owned(n) = Owned(s)
  <2>1. Owned(n) = Owned(s) BY <1>2 DEF Owned
  <2>2. n.process # 0 => n.process \in live' \/ Dead(i, n.queue, "exit", n.process)'
    BY <1>2 DEF Alive, Dead
  <2>3. n.server # 0 => n.server \in live' \/ Dead(i, n.queue, "stopped", n.server)'
    BY <1>2 DEF Alive, Dead
  <2> QED BY <2>1, <2>2, <2>3 DEF Alive
<1>3. Runs(i, s) => Runs(i, n)' BY <1>1, <1>2 DEF Runs
<1>4. TunOpen(i, s) => TunOpen(i, n)' BY <1>1 DEF TunOpen, InMain
<1> QED BY <1>3, <1>4 DEF Shown

(* A task leaves what is shown running, or says that it does not.          *)
LEMMA RunsExecutor ==
  ASSUME TypeInv, CalmInv, NEW i \in Instances, Executor(i)
  PROVE  RunsOK'
<1>1. PhaseOK /\ OrderOK /\ LiveOK /\ RunsOK BY DEF CalmInv
<1>2. CASE Gone(i)
  <2>1. /\ notices' = notices /\ live' = live /\ phase' = phase /\ iface' = iface
    BY <1>1, <1>2, GoneEnds
  <2>2. /\ \A j \in Instances \ {i} : svc'[j] = svc[j]
        /\ svc'[i].state = svc[i].state /\ main' = main /\ core' = core
    BY ExecutorFrame DEF TypeInv
  <2>3. i \notin Up /\ i \notin Up' BY <1>2, <2>2 DEF Gone, Up
  <2>4. \A j \in Up' : j \in Up /\ svc'[j] = svc[j] BY <2>2, <2>3 DEF Up
  <2>5. Up \subseteq Up' BY <2>2, <2>3 DEF Up
  <2>6. ASSUME NEW j \in Up PROVE Keeps(j, svc[j], svc[j])
    <3>1. \A op, x : Dead(j, svc[j].queue, op, x) => Dead(j, svc[j].queue, op, x)'
      BY <2>1, <2>4, <2>5 DEF Dead
    <3> QED BY <2>1, <2>2, <3>1 DEF Keeps, SameButQueue, InMain
  <2> QED BY <1>1, <2>1, <2>4, <2>5, <2>6, RunsStep
<1>3. CASE ~Gone(i)
  <2>1. PICK s, n : Becomes(i, s, n) BY <1>3, ExecutorUp
  <2>2. /\ s = svc[i] /\ n = svc'[i] /\ i \in Up /\ Up' = Up /\ \A j \in Up : j = i
        /\ s \in ServiceSet /\ n \in ServiceSet /\ CoresOK(s) /\ JobOK(s)
        /\ JobOK(n) /\ main' = main /\ core' = core
    BY <2>1 DEF Becomes, InstanceOK
  <2>3. /\ InPhase(s, phase) /\ OnItsWay(i, s)
        /\ phase = "connected" => Shown(i, s) \/ s.at = "reset"
    <3>1. InPhase(s, phase) BY <1>1, <2>2 DEF PhaseOK
    <3>2. OnItsWay(i, s) BY <1>1, <2>2 DEF RunsOK
    <3>3. phase = "connected" => Shown(i, s) \/ s.at = "reset" BY <1>1, <2>2 DEF RunsOK
    <3> QED BY <3>1, <3>2, <3>3
  <2>4. SUFFICES /\ OnItsWay(i, n)'
                 /\ phase' = "connected" => Shown(i, n)' \/ n.at = "reset"
    <3>1. SUFFICES ASSUME OnItsWay(i, n)', phase' = "connected" => Shown(i, n)' \/ n.at = "reset"
                   PROVE  RunsOK'
      OBVIOUS
    <3>2. OnItsWay(i, svc[i])'
      BY <2>2, <3>1 DEF OnItsWay, Shown, Runs, TunOpen, Alive, Dead, Stopping
    <3>3. phase' = "connected" => Shown(i, svc[i])' \/ svc'[i].at = "reset"
      BY <2>2, <3>1 DEF Shown, Runs, TunOpen, Alive, Dead, Stopping
    <3> QED BY <2>2, <3>2, <3>3 DEF RunsOK
  <2>5. CASE Starting(i, s, n)
    BY <2>5 DEF Starting, OnItsWay
  <2>6. CASE Stops(i, s, n)
    BY <2>6 DEF Stops, OnItsWay
  <2>7. CASE Failed(i, s, n)
    BY <2>7 DEF Failed, OnItsWay
  <2>8. CASE Launches(i, s, n)
    <3>1. /\ s.at = "core" /\ n.at = "bridge" /\ n.job = s.job /\ n.queue = s.queue
          /\ n.expected = s.expected /\ phase' = phase
          /\ live' = live \cup {s.job.session}
          /\ \/ /\ core[s.job.session] = "xray" /\ n.process = s.job.session
                /\ n.server = s.server
             \/ /\ iface' = Iface("tun", i) /\ n.server = s.job.session
                /\ n.process = s.process
      BY <2>8 DEF Launches
    <3>2. s.server = 0 /\ s.process = 0
      BY <2>2, <3>1, OwnedTyped DEF CoresOK
    <3>3. phase = "connecting" BY <2>2, <2>3, <3>1 DEF InPhase
    <3>4. s.job.session # 0
      <4>1. s.job.session \in Sessions BY <2>2, <3>1, SessionsTyped
      <4> QED BY <4>1, Bounds DEF Sessions
    <3>5. Owned(n) # {} BY <3>1, <3>4 DEF Owned
    <3>6. Alive(i, n)' BY <3>1, <3>2 DEF Alive
    <3>7. Runs(i, n)'
      <4>1. ~s.expected \/ Stopping(s) BY <2>3, <3>1 DEF OnItsWay
      <4> QED BY <3>1, <3>5, <3>6, <4>1 DEF Runs, Stopping
    <3>8. core[n.job.session] = "singBox" => TunOpen(i, n)' BY <3>1 DEF TunOpen
    <3> QED BY <2>2, <3>1, <3>3, <3>7, <3>8 DEF OnItsWay
  <2>9. CASE Bridges(i, s, n)
    <3>1. /\ s.at = "bridge" /\ n.at = "mark" /\ n.job = s.job /\ n.queue = s.queue
          /\ n.expected = s.expected /\ phase' = phase /\ live' = live
          /\ notices' = notices /\ n.server = s.server /\ n.process = s.process /\ n.bridge
          /\ iface' = Iface("tun", i) \/ (core[s.job.session] = "singBox" /\ iface' = iface)
      BY <2>9 DEF Bridges
    <3>2. phase = "connecting" BY <2>3, <3>1 DEF InPhase
    <3>3. /\ Runs(i, s) => Runs(i, n)'
          /\ TunOpen(i, s) => TunOpen(i, n)'
      BY <2>2, <3>1, ShownStays
    <3>4. Runs(i, n)' BY <2>3, <3>1, <3>3 DEF OnItsWay
    <3>5. TunOpen(i, n)' BY <2>3, <3>1, <3>3 DEF OnItsWay, TunOpen
    <3>6. Shown(i, n)' BY <3>1, <3>4, <3>5 DEF Shown
    <3> QED BY <3>1, <3>2, <3>6 DEF OnItsWay
  <2>10. CASE Ends(i, s, n)
    <3>1. /\ n.at = "begin" /\ n.queue = s.queue /\ iface' = iface /\ live' = live
          /\ n.expected = s.expected /\ notices' = notices /\ n.server = s.server
          /\ n.process = s.process /\ n.bridge = s.bridge
          /\ s.at = "mark" \/ (phase' = phase /\ s.at = "stopSelf")
      BY <2>10 DEF Ends, SameCores
    <3>2. Shown(i, s) => Shown(i, n)' BY <2>2, <3>1, ShownStays
    <3>3. phase' = "connected" => Shown(i, s) BY <2>3, <3>1 DEF OnItsWay
    <3> QED BY <3>1, <3>2, <3>3 DEF OnItsWay
  <2>11. CASE Switched(i, s, n)
    <3>1. /\ phase' = phase /\ live' = live /\ notices' = notices
          /\ n.at = s.at /\ n.expected = s.expected /\ n.server = s.server
          /\ n.process = s.process /\ n.bridge = s.bridge
          /\ s.job = NoTask /\ s.queue # <<>> /\ n.queue = Tail(s.queue)
          /\ Head(s.queue).op \in {"on", "off"}
          /\ iface' = iface \/ iface' = Closing({"hole"}, i)
      BY <2>11 DEF Switched, SameTask, SameCores, Takes
    <3>2. PICK q \in Seq(Tasks) : q = s.queue BY <2>1 DEF Becomes
    <3>3. /\ Has(q, "stop") => Has(n.queue, "stop")
          /\ \A x : HasOf(q, "exit", x) => HasOf(n.queue, "exit", x)
          /\ \A x : HasOf(q, "stopped", x) => HasOf(n.queue, "stopped", x)
      BY <3>1, <3>2, Removed
    <3>4. iface = Iface("tun", i) => iface' = Iface("tun", i)
      BY <3>1 DEF Closing, Iface
    <3>5. Shown(i, s) => Shown(i, n)' BY <2>2, <3>1, <3>2, <3>3, <3>4, ShownStays
    <3>6. s.at = "begin" /\ n.at = "begin" BY <2>2, <3>1 DEF JobOK
    <3> QED BY <2>3, <3>1, <3>5, <3>6 DEF OnItsWay
  <2>12. CASE Ignores(i, s, n)
    <3>1. /\ phase' = phase /\ live' = live /\ notices' = notices /\ iface' = iface
          /\ n.at = s.at /\ n.expected = s.expected /\ n.server = s.server
          /\ n.bridge = s.bridge
          /\ s.job = NoTask /\ s.queue # <<>> /\ n.queue = Tail(s.queue)
          /\ Head(s.queue).op \in Reports
          /\ ~s.expected => /\ n.process = s.process
                            /\ \/ Head(s.queue).op = "closed"
                               \/ /\ Head(s.queue).op = "exit"
                                  /\ Head(s.queue).session # s.process
      BY <2>12 DEF Ignores, SameTask, Takes, Reports
    <3>2. PICK q \in Seq(Tasks) : q = s.queue BY <2>1 DEF Becomes
    <3>3. /\ Has(q, "stop") => Has(n.queue, "stop")
          /\ ~s.expected => \A x : HasOf(q, "stopped", x) => HasOf(n.queue, "stopped", x)
          /\ ~s.expected /\ HasOf(q, "exit", s.process) => HasOf(n.queue, "exit", s.process)
      BY <3>1, <3>2, Removed DEF Reports
    <3>4. Shown(i, s) => Shown(i, n)' BY <2>2, <3>1, <3>2, <3>3, ShownStays
    <3>5. s.at = "begin" /\ n.at = "begin" BY <2>2, <3>1 DEF JobOK
    <3> QED BY <2>3, <3>1, <3>4, <3>5 DEF OnItsWay
  <2>13. CASE Resets(i, s, n)
    <3>1. /\ phase' = "connecting" /\ s.at = "reset" /\ n.at = "core"
          /\ n.expected = s.expected /\ n.queue = s.queue
      BY <2>13 DEF Resets
    <3> QED BY <2>3, <3>1 DEF OnItsWay, Stopping
  <2>14. CASE Blocks(i, s, n)
    <3>1. phase' = phase /\ s.at = "handle" /\ n.at = "begin" BY <2>14 DEF Blocks
    <3> QED BY <2>3, <3>1 DEF InPhase, OnItsWay
  <2> QED
    BY <2>1, <2>5, <2>6, <2>7, <2>8, <2>9, <2>10, <2>11, <2>12, <2>13, <2>14
    DEF Becomes, Effect
<1> QED BY <1>2, <1>3
(* The error that a task leaves has been handled, or will be asked about.  *)
LEMMA ErrorExecutor ==
  ASSUME TypeInv, CalmInv, NEW i \in Instances, Executor(i)
  PROVE  ErrorOK'
<1>1. PhaseOK /\ ErrorOK BY DEF CalmInv
<1>2. /\ \A j \in Instances \ {i} : svc'[j] = svc[j]
      /\ record' = record /\ main' = main /\ (wanted' => wanted) /\ odd \subseteq odd'
      /\ svc'[i].state = svc[i].state
  BY ExecutorFrame DEF TypeInv
<1>3. SUFFICES ASSUME phase' = "error", "unprotected" \notin odd', record # 0
               PROVE  Handled(record, svc[record])'
  BY <1>2 DEF ErrorOK
<1>4. record \in Instances /\ ~Gone(record)
  BY <1>3, MainTyped DEF TypeInv, MainOK, RecordOK
<1>5. CASE Gone(i)
  <2>1. phase' = phase /\ record # i BY <1>1, <1>4, <1>5, GoneEnds
  <2>2. PICK d : d = svc'[record] /\ d = svc[record] BY <1>2, <1>4, <2>1
  <2>3. Handled(record, d) BY <1>1, <1>2, <1>3, <2>1, <2>2 DEF ErrorOK
  <2>4. Handled(record, d)' BY <1>2, <2>3 DEF Handled, Asked, InMain
  <2> QED BY <1>2, <2>2, <2>4 DEF Handled, Asked, InMain
<1>6. CASE ~Gone(i) /\ record # i
  <2>1. record \notin Up BY <1>6, ActsAlone
  <2>2. svc[record].state \in {"none", "up", "gone"} BY <1>4, SessionsTyped DEF ServiceSet
  <2>3. ~Created(record) BY <1>4, <2>1, <2>2 DEF Up, Gone, Created
  <2>4. InMain("start", record) \/ InMain("stop", record)
    BY <1>3, <2>3 DEF TypeInv, MainOK, RecordOK
  <2> QED BY <1>2, <2>4 DEF Handled, Asked, InMain
<1>7. CASE ~Gone(i) /\ record = i
  <2>1. PICK s, n : Becomes(i, s, n) BY <1>7, ExecutorUp
  <2>2. /\ s = svc[i] /\ n = svc'[i] /\ i \in Up /\ JobOK(s)
        /\ s.queue \in Seq(Tasks)
    BY <2>1 DEF Becomes, InstanceOK
  <2>3. InPhase(s, phase) BY <1>1, <2>2 DEF PhaseOK
  <2>4. phase = "error" => Handled(i, s) BY <1>1, <1>2, <1>3, <1>7, <2>2 DEF ErrorOK
  <2>5. SUFFICES n.hole \/ ~wanted' \/ Has(n.queue, "start") \/ Has(n.queue, "stop")
                 \/ InMain("start", i) \/ InMain("stop", i) \/ n.at \in {"reset", "handle"}
    <3>1. SUFFICES ASSUME n.hole \/ ~wanted' \/ Has(n.queue, "start") \/ Has(n.queue, "stop")
                          \/ InMain("start", i) \/ InMain("stop", i)
                          \/ n.at \in {"reset", "handle"}
                   PROVE  Handled(record, svc[record])'
      OBVIOUS
    <3> QED BY <1>2, <1>7, <2>2, <3>1 DEF Handled, Asked, InMain
  <2>6. ASSUME StopSelf(i) PROVE ~wanted'
    BY <1>7, <2>6 DEF StopSelf
  <2>7. CASE Starting(i, s, n) \/ Stops(i, s, n)
    BY <1>3, <2>7 DEF Starting, Stops
  <2>8. CASE Launches(i, s, n) \/ Bridges(i, s, n)
    <3>1. s.at \in {"core", "bridge"} /\ phase' = phase BY <2>8 DEF Launches, Bridges
    <3>2. phase = "connecting" BY <2>3, <3>1 DEF InPhase
    <3> QED BY <1>3, <3>1, <3>2
  <2>9. CASE Ends(i, s, n)
    BY <1>3, <2>6, <2>9 DEF Ends
  <2>10. CASE Failed(i, s, n) BY <2>10 DEF Failed
  <2>12. CASE Resets(i, s, n) BY <1>3, <2>12 DEF Resets
  <2>13. CASE Blocks(i, s, n)
    BY <1>3, <2>6, <2>13 DEF Blocks
  <2>11. CASE Switched(i, s, n) \/ Ignores(i, s, n)
    <3>1. /\ s.queue # <<>> /\ n.queue = Tail(s.queue) /\ phase' = phase
          /\ Head(s.queue).op \notin {"start", "stop"}
          /\ n.hole = s.hole \/ (s.hole /\ Owned(s) = {} /\ ~s.bridge => StopSelf(i))
      BY <2>11 DEF Switched, Ignores, Takes, SameBlock
    <3>2. PICK q \in Seq(Tasks) : q = s.queue BY <2>2
    <3>3. /\ Has(q, "start") => Has(n.queue, "start")
          /\ Has(q, "stop") => Has(n.queue, "stop")
      BY <3>1, <3>2, Removed
    <3>4. Handled(i, s) /\ Owned(s) = {} /\ ~s.bridge
      BY <1>3, <2>3, <2>4, <3>1 DEF InPhase
    <3>5. s.hole => n.hole \/ ~wanted' BY <2>6, <3>1, <3>4
    <3>6. n.at = s.at BY <2>11 DEF Switched, Ignores, SameTask
    <3> QED BY <1>2, <3>2, <3>3, <3>4, <3>5, <3>6 DEF Handled, Asked
  <2> QED BY <2>1, <2>7, <2>8, <2>9, <2>10, <2>11, <2>12, <2>13 DEF Becomes, Effect
<1> QED BY <1>5, <1>6, <1>7

(* The executors keep the invariant.                                       *)
LEMMA ExecutorCalm ==
  ASSUME TypeInv, CalmInv, NEW i \in Instances, Executor(i)
  PROVE  CalmInv'
<1>1. PhaseOK' BY PhaseExecutor DEF CalmInv
<1> QED BY <1>1, OrderExecutor, LiveExecutor, RunsExecutor, ErrorExecutor DEF CalmInv

-----------------------------------------------------------------------------
(* The invariant.                                                          *)
LEMMA OddGrows ==
  ASSUME TypeInv, [Next]_vars
  PROVE  odd \subseteq odd'
<1>1. CASE UNCHANGED vars BY <1>1 DEF vars
<1>2. CASE Client
  BY <1>2 DEF Client, ClientStart, ClientStop, Revoke, ToggleKillswitch
<1>3. CASE OnCreate \/ OnStartCommand \/ OnRevoke
  BY <1>3 DEF OnCreate, OnStartCommand, OnRevoke
<1>4. CASE OnDestroy BY <1>4, DestroyStep
<1>5. CASE BringDown BY <1>5 DEF BringDown
<1>6. CASE \E i \in Instances : Executor(i) BY <1>6, ExecutorFrame DEF TypeInv
<1>7. CASE \E i \in Instances, s \in Sessions : CoreDies(i, s) BY <1>7 DEF CoreDies
<1>8. CASE \E n \in notices : ReportCore(n) \/ ReportDisconnected(n)
  BY <1>8 DEF ReportCore, ReportDisconnected
<1> QED BY <1>1, <1>2, <1>3, <1>4, <1>5, <1>6, <1>7, <1>8 DEF Next, Main

(* Every step keeps the invariant while no instance is destroyed under a   *)
(* start or under the handling of a failure.                               *)
LEMMA CalmStep ==
  ASSUME TypeInv, TypeInv', CalmInv, [Next]_vars, Undisturbed'
  PROVE  CalmInv'
<1>1. CASE UNCHANGED vars
  <2>1. /\ phase' = phase /\ svc' = svc /\ main' = main /\ record' = record
        /\ wanted' = wanted /\ iface' = iface /\ live' = live /\ notices' = notices
        /\ core' = core /\ odd' = odd
    BY <1>1 DEF vars, system, sent
  <2>2. ErrorOK' BY <2>1 DEF CalmInv, ErrorOK, Handled, Asked, InMain
  <2>3. \A i : InMain("revoke", i)' <=> InMain("revoke", i) BY <2>1 DEF InMain
  <2>4. Distinct(main') BY <2>1 DEF CalmInv, OrderOK
  <2> QED BY <2>1, <2>2, <2>3, <2>4, StillCalm
<1>2. CASE Client
  BY <1>2, ClientStartCalm, ClientStopCalm, RevokeCalm, ToggleCalm DEF Client
<1>3. CASE OnCreate BY <1>3, CreateCalm
<1>4. CASE OnStartCommand BY <1>4, StartCommandCalm
<1>5. CASE OnRevoke BY <1>5, OnRevokeCalm
<1>6. CASE OnDestroy BY <1>6, DestroyCalm DEF Undisturbed
<1>7. CASE BringDown BY <1>7, BringDownCalm
<1>8. CASE \E i \in Instances : Executor(i) BY <1>8, ExecutorCalm
<1>9. CASE \E i \in Instances, s \in Sessions : CoreDies(i, s) BY <1>9, CoreDiesCalm
<1>10. CASE \E n \in notices : ReportCore(n) \/ ReportDisconnected(n)
  BY <1>10, ReportCalm
<1> QED
  BY <1>1, <1>2, <1>3, <1>4, <1>5, <1>6, <1>7, <1>8, <1>9, <1>10 DEF Next, Main

(* The whole invariant is inductive ...                                    *)
LEMMA InvStep ==
  ASSUME AndroidInv, [Next]_vars
  PROVE  AndroidInv'
<1>1. TypeInv /\ PrefOK BY DEF AndroidInv
<1>2. TypeInv' BY <1>1, TypeStep
<1>3. PrefOK' BY <1>1, PrefStep
<1>4. Undisturbed' => Undisturbed BY <1>1, OddGrows DEF Undisturbed
<1>5. Undisturbed' => CalmInv' BY <1>1, <1>2, <1>4, CalmStep DEF AndroidInv
<1> QED BY <1>2, <1>3, <1>5 DEF AndroidInv

(* ... it holds at first ...                                               *)
LEMMA InvInit ==
  ASSUME Init
  PROVE  AndroidInv
<1>1. /\ main = <<>> /\ record = 0 /\ wanted = FALSE /\ made = 0 /\ pref \in BOOLEAN
      /\ iface = NoIface /\ live = {} /\ notices = {} /\ stops = 0 /\ toggles = 0
      /\ odd = {} /\ phase = "disconnected"
      /\ core = [s \in Sessions |-> "none"] /\ svc = [i \in Instances |-> Fresh]
  BY DEF Init
<1>2. \A i \in Instances : svc[i] = Fresh /\ i \in Nat /\ i > 0
  BY <1>1, Bounds DEF Instances
<1>3. MaxStarts \in Nat /\ MaxStarts + MaxStops \in Nat BY Bounds
<1>4. NoTask \in Tasks BY <1>3 DEF NoTask, Task, Tasks
<1>5. Fresh \in ServiceSet BY <1>3, <1>4 DEF Fresh, ServiceSet
<1>6. TypeOK
  <2>1. svc \in [Instances -> ServiceSet] BY <1>1, <1>5
  <2>2. \A i \in Instances :
          /\ svc[i].server = 0 \/ svc[i].process = 0
          /\ svc[i].job = NoTask <=> svc[i].at = "begin"
          /\ svc[i].state = "none" <=>
               i > made \/ Message("create", i, 0) \in {main[n] : n \in DOMAIN main}
    BY <1>1, <1>2 DEF Fresh
  <2>3. core \in [Sessions -> {"none", "xray", "singBox"}] BY <1>1
  <2>4. main \in Seq(Messages) BY <1>1
  <2>5. /\ record \in 0 .. made /\ made \in 0 .. (MaxStarts + MaxStops)
        /\ stops \in 0 .. MaxStops /\ toggles \in 0 .. MaxToggles
    BY <1>1, <1>3, Bounds
  <2>6. iface.kind \in {"none", "tun", "hole"} /\ iface.by \in 0 .. made
    BY <1>1 DEF NoIface, Iface
  <2> QED BY <1>1, <2>1, <2>2, <2>3, <2>4, <2>5, <2>6 DEF TypeOK, ServiceSet
<1>7. Up = {} BY <1>2 DEF Up, Fresh
<1>8. MainOK /\ OneUp
  BY <1>1, <1>2, <1>7 DEF MainOK, OneAfterAnother, RecordOK, OneUp, Created, Fresh
<1>9. Sent = {} BY <1>1 DEF Sent
<1>10. SentOK
  <2>1. Cardinality({}) = 0 BY FS_EmptySet
  <2> QED BY <1>1, <1>9, <2>1 DEF SentOK
<1>11. \A i \in Instances : InstanceOK(svc[i]) /\ AtRest(svc[i])
  BY <1>2 DEF InstanceOK, QueueOK, JobOK, CoresOK, AtRest, Owned, Fresh, NoTask, Task, Startup
<1>12. TypeInv
  BY <1>1, <1>6, <1>8, <1>10, <1>11
  DEF TypeInv, InstancesOK, NoticesOK, IfaceOK, NoIface, Iface
<1>13. PrefOK BY <1>7 DEF PrefOK
<1>14. PhaseOK BY <1>1, <1>7, <1>11 DEF PhaseOK
<1>15. OrderOK BY <1>1, <1>7 DEF OrderOK, Distinct, StartsOf, HasOf
<1>16. LiveOK BY <1>1, <1>7 DEF LiveOK
<1>17. RunsOK /\ ErrorOK BY <1>1, <1>7 DEF RunsOK, ErrorOK
<1> QED BY <1>12, <1>13, <1>14, <1>15, <1>16, <1>17 DEF AndroidInv, CalmInv

(* ... and so it always holds.                                             *)
LEMMA AndroidInvariant == Spec => []AndroidInv
<1>1. Init => AndroidInv BY InvInit
<1>2. AndroidInv /\ [Next]_vars => AndroidInv' BY InvStep
<1> QED BY <1>1, <1>2, PTL DEF Spec

-----------------------------------------------------------------------------
(* Once everything has been handled, a phase that EntropyVpnRuntimeStore    *)
(* shows as connected is a core that runs, with its bridge and its tun;    *)
(* and in every state a core that runs belongs to the instance that is up, *)
(* so that its stopActiveRuntime will end it.                              *)
THEOREM WhatIsShownRuns == Spec => []ShownIsOwned
<1>1. AndroidInv => ShownIsOwned
  <2> SUFFICES ASSUME AndroidInv PROVE ShownIsOwned
    OBVIOUS
  <2>1. TypeInv /\ TypeOK BY DEF AndroidInv, TypeInv
  <2>2. \A i \in Up : i \in Instances /\ svc[i] \in ServiceSet /\ CoresOK(svc[i])
    BY <2>1, InstanceTyped DEF TypeInv, InstancesOK, InstanceOK, Up
  <2>3. ConnectedHasCore
    <3> SUFFICES ASSUME Undisturbed, Settled, phase = "connected"
                 PROVE  \E i \in Up : /\ Owned(svc[i]) \cap live # {}
                                      /\ svc[i].bridge
                                      /\ iface = Iface("tun", i)
      BY DEF ConnectedHasCore
    <3>1. PICK i \in Up : Shown(i, svc[i])
      <4>1. PICK i \in Up : Shown(i, svc[i]) \/ svc[i].at = "reset"
        BY DEF AndroidInv, CalmInv, RunsOK
      <4>2. JobOK(svc[i]) BY <2>1 DEF TypeInv, InstancesOK, InstanceOK, Up
      <4>3. svc[i].job = NoTask BY DEF Settled
      <4>4. svc[i].at = "begin" BY <4>2, <4>3 DEF JobOK
      <4> QED BY <4>1, <4>4
    <3>2. svc[i].queue = <<>> /\ main = <<>> BY <3>1 DEF Settled
    <3>3. ~Stopping(svc[i]) /\ ~InMain("revoke", i)
      BY <3>2 DEF Stopping, Has, InMain
    <3>4. svc[i].bridge /\ iface = Iface("tun", i)
      BY <3>1, <3>3 DEF Shown, TunOpen
    <3>5. Owned(svc[i]) # {} /\ Alive(i, svc[i]) BY <3>1, <3>3 DEF Shown, Runs
    <3>6. ASSUME NEW op \in {"exit", "stopped"}, NEW s
          PROVE  ~Dead(i, svc[i].queue, op, s)
      <4>1. ~HasOf(svc[i].queue, op, s) BY <3>2 DEF HasOf
      <4>2. Notice(op, i, s) \notin notices
        <5>1. Notice(op, i, s).op = op /\ Notice(op, i, s).to = i BY DEF Notice
        <5> QED BY <3>1, <3>6, <5>1 DEF Settled
      <4> QED BY <4>1, <4>2 DEF Dead
    <3>7. /\ svc[i].process # 0 => svc[i].process \in live
          /\ svc[i].server # 0 => svc[i].server \in live
      BY <3>5, <3>6 DEF Alive
    <3>8. Owned(svc[i]) \cap live # {} BY <3>5, <3>7 DEF Owned
    <3> QED BY <3>1, <3>4, <3>8
  <2>4. NothingOrphaned
    <3> SUFFICES ASSUME Undisturbed
                 PROVE  /\ \A s \in live : \E i \in Up : s \in Owned(svc[i])
                        /\ Cardinality(live) <= 1
                        /\ iface # NoIface => svc[iface.by].state = "up"
      BY DEF NothingOrphaned
    <3>1. PhaseOK /\ LiveOK BY DEF AndroidInv, CalmInv
    <3>2. \A s \in live : \E i \in Up : s \in Owned(svc[i]) BY <3>1 DEF LiveOK
    <3>3. \A s, t \in live : s = t
      <4>1. TAKE s, t \in live
      <4>2. PICK i \in Up : s \in Owned(svc[i]) BY <3>2
      <4>3. PICK j \in Up : t \in Owned(svc[j]) BY <3>2
      <4>4. i = j BY <2>1 DEF TypeInv, OneUp
      <4> QED BY <2>2, <4>2, <4>3, <4>4 DEF CoresOK, Owned
    <3>4. Cardinality(live) <= 1
      <4>1. CASE live = {} BY <4>1, FS_EmptySet
      <4>2. CASE live # {}
        <5>1. PICK s : s \in live BY <4>2
        <5>2. live = {s} BY <3>3, <5>1
        <5> QED BY <5>2, FS_Singleton
      <4> QED BY <4>1, <4>2
    <3> QED BY <3>1, <3>2, <3>4 DEF PhaseOK
  <2> QED BY <2>1, <2>3, <2>4 DEF ShownIsOwned
<1> QED BY <1>1, AndroidInvariant, PTL

(* Once everything has been handled, an error has been followed by a       *)
(* blackhole or by stopSelf, and there is a blackhole only after an error   *)
(* and while the stored preference asks for it: handleFailure and           *)
(* applyKillswitchPreference agree in every order of their tasks.          *)
THEOREM KillswitchIsKept == Spec => []KillswitchKept
<1>1. AndroidInv => KillswitchKept
  <2> SUFFICES ASSUME AndroidInv PROVE KillswitchKept
    OBVIOUS
  <2>1. TypeInv /\ TypeOK BY DEF AndroidInv, TypeInv
  <2>2. ErrorBlocksOrStops
    <3> SUFFICES ASSUME Undisturbed, Settled, phase = "error", "unprotected" \notin odd,
                        NEW i \in Up, record = i
                 PROVE  svc[i].hole \/ ~wanted
      BY DEF ErrorBlocksOrStops
    <3>1. i # 0 BY Bounds DEF Up, Instances
    <3>2. Handled(i, svc[i]) BY <3>1 DEF AndroidInv, CalmInv, ErrorOK
    <3>3. ~Asked(i, svc[i]) BY DEF Settled, Asked, InMain, Has
    <3>4. svc[i].at = "begin"
      <4>1. JobOK(svc[i]) BY <2>1 DEF TypeInv, InstancesOK, InstanceOK, Up
      <4>2. svc[i].job = NoTask BY DEF Settled
      <4> QED BY <4>1, <4>2 DEF JobOK
    <3> QED BY <3>2, <3>3, <3>4 DEF Handled
  <2>3. KillswitchFollowsPreference
    <3> SUFFICES ASSUME Undisturbed, Settled, NEW i \in Up
                 PROVE  /\ svc[i].hole => pref /\ phase = "error"
                        /\ svc[i].active = pref \/ "unprotected" \in odd
      BY DEF KillswitchFollowsPreference
    <3>1. InPhase(svc[i], phase) BY DEF AndroidInv, CalmInv, PhaseOK
    <3>2. Follows(svc[i], pref, "unprotected" \in odd) BY DEF AndroidInv, PrefOK
    <3>3. Switches(svc[i]) = {} BY DEF Settled, Switches
    <3>4. /\ svc[i].active => pref
          /\ pref => svc[i].active \/ "unprotected" \in odd
      BY <3>2, <3>3 DEF Follows
    <3>5. svc[i].active \in BOOLEAN /\ pref \in BOOLEAN
      BY <2>1, InstanceTyped DEF TypeOK, ServiceSet, Up
    <3>6. svc[i].hole => pref /\ phase = "error" BY <3>1, <3>4 DEF InPhase
    <3> QED BY <3>4, <3>5, <3>6
  <2> QED BY <2>2, <2>3 DEF KillswitchKept
<1> QED BY <1>1, AndroidInvariant, PTL

(* Only an executor puts the connection in error.                          *)
LEMMA ErrorsAreTasks ==
  ASSUME Next, phase' # phase
  PROVE  \E i \in Instances : Executor(i)
BY DEF Next, Client, Main, ClientStart, ClientStop, Revoke, ToggleKillswitch, OnCreate,
  OnStartCommand, OnRevoke, OnDestroy, BringDown, CoreDies, ReportCore, ReportDisconnected

(* handleFailure puts a connection in error only when its own core has      *)
(* ended: a late xray-exit-waiter finds another session, and a report of   *)
(* libbox that ends another session is the order "stale".                  *)
THEOREM OnlyTheDeadFail == Spec => OnlyDeadSessionsFail
<1>1. AndroidInv /\ [Next]_vars =>
        [phase = "connected" /\ phase' = "error" /\ odd' \cap {"stale", "destroyed"} = {} =>
           \E i \in Instances : Owned(svc[i]) # {} /\ Owned(svc[i]) \cap live = {}]_vars
  <2> SUFFICES ASSUME AndroidInv, Next, phase = "connected", phase' = "error",
                      "stale" \notin odd', "destroyed" \notin odd'
               PROVE  \E i \in Instances : /\ Owned(svc[i]) # {}
                                           /\ Owned(svc[i]) \cap live = {}
    OBVIOUS
  <2>1. TypeInv /\ TypeOK BY DEF AndroidInv, TypeInv
  <2>2. CalmInv BY <2>1, OddGrows DEF AndroidInv, Undisturbed
  <2>3. PICK i \in Instances : Executor(i) BY ErrorsAreTasks
  <2>4. ~Gone(i) BY <2>1, <2>2, <2>3, GoneEnds DEF CalmInv
  <2>5. PICK s, n : Becomes(i, s, n) BY <2>1, <2>3, <2>4, ExecutorUp
  <2>6. /\ s = svc[i] /\ i \in Up /\ s \in ServiceSet /\ s.queue \in Seq(Tasks)
        /\ QueueOK(s.queue) /\ JobOK(s) /\ CoresOK(s) /\ \A j \in Up : j = i
    BY <2>5 DEF Becomes, InstanceOK
  <2>7. Failing(i, s, n)
    <3>1. Failed(i, s, n)
      BY <2>5 DEF Becomes, Effect, Starting, Resets, Blocks, Stops, Launches, Bridges, Ends,
        Switched, Ignores
    <3> QED BY <3>1 DEF Failed
  <2>8. InPhase(s, phase) /\ Shown(i, s)
    <3>1. InPhase(s, phase) BY <2>2, <2>6 DEF CalmInv, PhaseOK
    <3>2. Shown(i, s) \/ s.at = "reset" BY <2>2, <2>6 DEF CalmInv, RunsOK
    <3>3. s.at # "reset"
      BY <2>6, <2>7 DEF Failing, LibboxReported, Begins, JobOK
    <3> QED BY <3>1, <3>2, <3>3
  <2>9. ~s.expected => Owned(s) # {} BY <2>8 DEF Shown, Runs, Stopping
  <2>10. PICK q \in Seq(Tasks) : q = s.queue BY <2>6
  <2>11. ASSUME q # <<>>, Head(q).op \in Reports
         PROVE  Head(q).session \notin live /\ Head(q).session # 0
    <3>1. Head(q).session \in Sent BY <2>6, <2>10, <2>11, Rest DEF QueueOK
    <3>2. Head(q).session \in Sessions BY <3>1 DEF Sent
    <3>3. Head(q).session \in ReportsOf(q) BY <2>11, <3>2, Removed
    <3>4. Head(q).session \notin live BY <2>2, <2>6, <2>10, <3>3 DEF CalmInv, LiveOK
    <3> QED BY <3>2, <3>4, Bounds DEF Sessions
  <2>12. CASE StartFails(i) /\ s.at \in {"core", "bridge"}
    BY <2>6, <2>8, <2>12 DEF JobOK, InPhase
  <2>13. CASE Begins(i, "exit") /\ s.process = Session(i)
    <3>1. q # <<>> /\ Head(q).op \in Reports /\ s.process = Head(q).session
      BY <2>6, <2>10, <2>13 DEF Begins, Session, Reports
    <3>2. s.process \notin live /\ s.process # 0 BY <2>11, <3>1
    <3>3. Owned(s) = {s.process} BY <2>6, <3>2 DEF CoresOK, Owned
    <3> QED BY <2>6, <3>2, <3>3
  <2>14. CASE /\ LibboxReported(i)
              /\ odd' = odd \cup (IF Owned(s) \subseteq {Session(i)} THEN {} ELSE {"stale"})
    <3>1. Owned(s) \subseteq {Session(i)} BY <2>14
    <3>2. q # <<>> /\ Head(q).op \in Reports /\ Session(i) = Head(q).session
      BY <2>6, <2>10, <2>14 DEF LibboxReported, Begins, Session, Reports
    <3>3. Session(i) \notin live BY <2>11, <3>2
    <3>4. Owned(s) # {}
      <4>1. ~s.expected \/ s.server # 0 BY <2>6, <2>14 DEF LibboxReported
      <4> QED BY <2>9, <4>1 DEF Owned
    <3> QED BY <2>6, <3>1, <3>3, <3>4
  <2> QED BY <2>7, <2>12, <2>13, <2>14 DEF Failing
<1> QED BY <1>1, AndroidInvariant, PTL DEF Spec, OnlyDeadSessionsFail
=============================================================================
