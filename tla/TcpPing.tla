-------------------------------- MODULE TcpPing --------------------------------
(***************************************************************************)
(* entropy_measure_tcp_pings of src/native/share_link_parser.cpp: worker   *)
(* threads take the targets by an atomic counter, connect to each target's *)
(* addresses in turn until its deadline and store the result in the slot   *)
(* of the target; the caller joins the workers and lists what answered.    *)
(***************************************************************************)
EXTENDS FiniteSets, SequencesExt, Lists

CONSTANTS MaxConcurrent,   (* the bound the caller gives *)
          Requests         (* sequences of targets: [key, valid, addresses] *)

VARIABLES asked,      (* the targets of the request *)
          next_index, (* the shared counter *)
          results,    (* per target: "none" before it is measured; a failure is *)
                      (* "late" when the name took all the time there was *)
          worker,     (* per worker: what it does, at which target and address *)
          pings       (* the reply, a sequence of keys *)

pingVars == <<asked, next_index, results, worker, pings>>

(* The answers of an address: "open", "refused", or "silent" until the     *)
(* deadline.  No addresses: the name does not resolve.                     *)
Answers == {"open", "refused", "silent"}

(* A request is a list of targets, each known by its key: the place of its *)
(* profile in the subscription, with the text that identifies the profile. *)
ASSUME TcpPingAssumption ==
    /\ MaxConcurrent \in Nat
    /\ \A request \in Requests :
          /\ request \in Seq(Range(request))
          /\ \A i \in DOMAIN request :
                /\ request[i].valid \in BOOLEAN /\ request[i].addresses \in Seq(Answers)
                /\ \A j \in DOMAIN request : request[i].key = request[j].key => i = j

(* Targets without a host or with a port out of range are dropped.         *)
tcp_ping_targets_from_json(request) ==
    Picked(request, {i \in DOMAIN request : request[i].valid})

(* At most 64 workers, at least one, no more than targets.                 *)
WorkerCount(targets) ==
    LET asking == IF MaxConcurrent = 0 THEN 1
                  ELSE IF MaxConcurrent > 64 THEN 64 ELSE MaxConcurrent
    IN  IF Len(targets) < asking THEN Len(targets) ELSE asking

PingIdle == /\ asked = <<>> /\ next_index = 1 /\ results = <<>>
            /\ worker = <<>> /\ pings = <<>>

PingInit ==
    \E request \in Requests :
        LET targets == tcp_ping_targets_from_json(request)
        IN  /\ asked = targets
            /\ next_index = 1
            /\ results = [i \in DOMAIN targets |-> "none"]
            /\ worker = [w \in 1..WorkerCount(targets) |-> [do |-> "take", at |-> 1, address |-> 1,
                                                            expired |-> FALSE]]
            /\ pings = <<>>

(* Mutant: the counter is read and written back in two steps. *)
BugTakeTarget(w) ==
    /\ worker[w].do = "take"
    /\ IF next_index > Len(asked)
       THEN worker' = [worker EXCEPT ![w].do = "ended"] /\ UNCHANGED next_index
       ELSE /\ \E late \in BOOLEAN :
                  worker' = [worker EXCEPT ![w] = [do |-> "connect", at |-> next_index,
                                                   address |-> 1, expired |-> late]]
            /\ next_index' \in {next_index, next_index + 1}
    /\ UNCHANGED <<asked, results, pings>>

(* fetch_add: the worker gets its own target, or ends.  The target's time  *)
(* runs from before its name is resolved, and may be over after that.      *)
TakeTarget(w) ==
    /\ worker[w].do = "take"
    /\ next_index' = next_index + 1
    /\ \E late \in BOOLEAN :
          worker' = [worker EXCEPT ![w] =
            IF next_index > Len(asked) THEN [@ EXCEPT !.do = "ended"]
            ELSE [do |-> "connect", at |-> next_index, address |-> 1, expired |-> late]]
    /\ UNCHANGED <<asked, results, pings>>

(* tcp_connect_latency_ms, one address, if there is time left: an open one *)
(* gives the latency; a refused one is passed over, and takes time; a      *)
(* silent one takes all that is left, so that none after it is tried.      *)
TryAddress(w) ==
    LET me == worker[w]
        target == asked[me.at]
        finish(ok) == /\ results' = [results EXCEPT ![me.at] = ok]
                      /\ worker' = [worker EXCEPT ![w].do = "take"]
        pass(expired) == /\ worker' = [worker EXCEPT ![w].address = @ + 1,
                                                     ![w].expired = expired]
                         /\ UNCHANGED results
    IN  /\ me.do = "connect"
        /\ IF me.address > Len(target.addresses) THEN finish("failed")
           ELSE IF me.expired THEN finish(IF me.address = 1 THEN "late" ELSE "failed")
           ELSE CASE target.addresses[me.address] = "open" -> finish("ok")
                  [] target.addresses[me.address] = "silent" -> pass(TRUE)
                  [] target.addresses[me.address] = "refused" ->
                        \E late \in BOOLEAN : pass(late)
        /\ UNCHANGED <<asked, next_index, pings>>

Joined == \A w \in DOMAIN worker : worker[w].do = "ended"

(* After the join: the results that are ok, in the order of the targets.   *)
Reply ==
    /\ worker # <<>>
    /\ Joined
    /\ LET answered == Picked(asked, {i \in DOMAIN asked : results[i] = "ok"})
       IN  pings' = [i \in DOMAIN answered |-> answered[i].key]
    /\ worker' = <<>>
    /\ UNCHANGED <<asked, next_index, results>>

PingNext == \/ \E w \in DOMAIN worker : TakeTarget(w) \/ TryAddress(w)
            \/ Reply

(***************************************************************************)
(* Properties.                                                             *)
(***************************************************************************)

(* A target is measured by one worker only, and what it found is still     *)
(* there when the reply is written: an answer for each target that is      *)
(* open at its first address, unless resolving its name took all its time; *)
(* none for a target with no open address before a silent one; and in the  *)
(* order of the targets.                                                   *)
PingsAreTheirTargets ==
    LET open(t) == \E i \in DOMAIN t.addresses :
                      /\ t.addresses[i] = "open"
                      /\ \A j \in 1..(i - 1) : t.addresses[j] = "refused"
        first(t) == t.addresses # <<>> /\ t.addresses[1] = "open"
    IN  /\ \A v, w \in DOMAIN worker :
              v # w /\ worker[v].do = "connect" /\ worker[w].do = "connect"
              => worker[v].at # worker[w].at
        /\ worker = <<>> /\ asked # <<>> =>
              /\ \A i \in DOMAIN asked :
                    /\ first(asked[i]) /\ results[i] # "late" => Contains(pings, asked[i].key)
                    /\ Contains(pings, asked[i].key) => open(asked[i])
              /\ \A i, j \in DOMAIN pings : i < j =>
                    SelectInSeq(asked, LAMBDA t : t.key = pings[i])
                    < SelectInSeq(asked, LAMBDA t : t.key = pings[j])

=============================================================================
