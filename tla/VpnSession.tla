----------------------------- MODULE VpnSession -----------------------------
(***************************************************************************)
(* A connection as the app sees it on Windows: the VpnController of        *)
(* lib/services/vpn_controller.dart on the Dart thread, the CoreRuntime-   *)
(* Service that turns its calls into calls of the native runtime, and the  *)
(* native runtime on the other side of the method channel.                 *)
(*                                                                         *)
(* Dart code runs without interruption between two awaits: an action of    *)
(* the Dart thread is what one user input, timer or message makes run, to  *)
(* the next await of every call it resumes.  Calls wait in a queue for the *)
(* one worker thread of the runtime; its replies and the exit events of    *)
(* the watcher threads reach the Dart thread in the order they were sent.  *)
(* The runtime is the one of module WindowsRuntime, reduced to its current *)
(* session and the cores that run.                                         *)
(*                                                                         *)
(* Bounds: MaxConnects calls of connect that reach the runtime and         *)
(* MaxDisconnects calls of disconnect.                                     *)
(***************************************************************************)
EXTENDS Integers, Sequences, FiniteSets

CONSTANTS MaxConnects, MaxDisconnects

ASSUME MaxConnectsAssumption == MaxConnects \in Nat
ASSUME MaxDisconnectsAssumption == MaxDisconnects \in Nat

Connects    == 1 .. MaxConnects
Disconnects == 1 .. MaxDisconnects

VARIABLES
  (* VpnController *)
  phase,      \* _phase
  cancelled,  \* _connectCancelled
  pending,    \* _pendingConnect: the call of connect, 0 for null
  conn,       \* where each call of connect waits
  disc,       \* where each call of disconnect waits
  waits,      \* the pendingConnect each call of disconnect has read
  quit,       \* shutdownForExit: not called, waiting for stop, done;
              \* "relaunched" when the elevated copy has replaced the app
  (* method channel and event channel *)
  calls,      \* calls the worker has not begun
  posts,      \* replies and exit events the Dart thread has not handled
  (* native runtime; the session of a start is the number of its connect *)
  job, step,  \* the call the worker runs, and its next step
  state_,     \* the current session, 0 for nullptr
  live,       \* the cores that run
  watch,      \* the watcher thread of each session
  (* history *)
  odd         \* which of the orders named below have happened

controller == <<phase, cancelled, pending, conn, disc, waits, quit>>
native     == <<job, step, state_, live, watch>>
vars       == <<controller, calls, posts, native, odd>>

Phases == {"disconnected", "connecting", "connected", "disconnecting", "error"}
Busy   == {"connecting", "disconnecting"}

CallOf(op, by, id) == [op |-> op, by |-> by, id |-> id]
CallSet ==
  {CallOf(op, "connect", c) : op \in {"start", "stop"}, c \in Connects}
  \cup {CallOf("stop", "disconnect", d) : d \in Disconnects}
  \cup {CallOf("stop", "quit", 0)}
NoJob == CallOf("none", "none", 0)

Reply(call, result) == [type |-> "reply", call |-> call, result |-> result]
ExitEvent(s)        == [type |-> "exit", session |-> s]

Results  == {"ok", "failed", "exitRequested"}
Messages == {Reply(call, result) : call \in CallSet, result \in Results}
            \cup {ExitEvent(s) : s \in Connects}

(* "early":   a session's exit event was handled before the answer to its   *)
(*            own start.                                                    *)
(* "late":    it was handled after a newer connect had begun.               *)
(* "overlap": connect was called while an older connect was still waiting.  *)
(* "twice":   disconnect was called while an older one was still waiting.   *)
(* "quit":    the app was told to quit while a connect had not sent start.  *)
Orders == {"early", "late", "overlap", "twice", "quit"}

Steps == {"idle", "stop", "launch", "commit"}

TypeOK ==
  /\ phase \in Phases /\ cancelled \in BOOLEAN
  /\ pending \in 0 .. MaxConnects
  /\ conn \in [Connects -> {"no", "stopping", "preparing", "starting", "ended"}]
  /\ disc \in [Disconnects -> {"no", "stopping", "waiting", "ended"}]
  /\ waits \in [Disconnects -> 0 .. MaxConnects]
  /\ quit \in {"no", "stopping", "done", "relaunched"}
  /\ calls \in Seq(CallSet) /\ posts \in Seq(Messages)
  /\ job \in CallSet \cup {NoJob} /\ step \in Steps
  /\ step = "idle" <=> job = NoJob
  /\ step \in {"launch", "commit"} => job.op = "start"
  /\ state_ \in 0 .. MaxConnects
  /\ live \subseteq Connects
  /\ watch \in [Connects -> {"none", "watching", "handling", "done"}]
  /\ odd \subseteq Orders

Init ==
  /\ phase = "disconnected" /\ cancelled = FALSE /\ pending = 0
  /\ conn = [c \in Connects |-> "no"]
  /\ disc = [d \in Disconnects |-> "no"]
  /\ waits = [d \in Disconnects |-> 0]
  /\ quit = "no"
  /\ calls = <<>> /\ posts = <<>>
  /\ job = NoJob /\ step = "idle" /\ state_ = 0 /\ live = {}
  /\ watch = [c \in Connects |-> "none"]
  /\ odd = {}

-----------------------------------------------------------------------------
(* Calls of connect that are still waiting, and those of them whose start is *)
(* not yet in the worker's queue.                                            *)
InFlight  == {c \in Connects : conn[c] \in {"stopping", "preparing", "starting"}}
Unstarted == {c \in Connects : conn[c] \in {"stopping", "preparing"}}
Begun     == {c \in Connects : conn[c] # "no"}

(* Calls of disconnect that are still waiting. *)
Leaving   == {d \in Disconnects : disc[d] \in {"stopping", "waiting"}}

Gone == quit \in {"done", "relaunched"}

Note(order, happened) == odd' = odd \cup (IF happened THEN {order} ELSE {})

Send(op, by, id) == calls' = Append(calls, CallOf(op, by, id))

(* toggleConnection of a controller that is not connected: connect up to the *)
(* first await of the runtime's start, which is its call of stop.            *)
Connect ==
  /\ quit = "no" /\ phase \notin Busy \cup {"connected"}
  /\ \E c \in Connects \ Begun :
       /\ \A e \in Connects \ Begun : c <= e
       /\ conn' = [conn EXCEPT ![c] = "stopping"]
       /\ pending' = c
       /\ Send("stop", "connect", c)
  /\ phase' = "connecting" /\ cancelled' = FALSE
  /\ Note("overlap", InFlight # {})
  /\ UNCHANGED <<disc, waits, quit, posts, native>>

(* connect without a configuration to connect to. *)
ConnectWithoutSource ==
  /\ quit = "no" /\ phase \notin Busy \cup {"connected"}
  /\ phase' = "error"
  /\ UNCHANGED <<cancelled, pending, conn, disc, waits, quit, calls, posts,
                 native, odd>>

(* Mutant: the connect in flight would not be told that it is cancelled. *)
BugDisconnectNoCancel ==
  /\ quit = "no" /\ phase = "connected"
  /\ \E d \in Disconnects :
       /\ disc[d] = "no" /\ \A e \in Disconnects : disc[e] = "no" => d <= e
       /\ disc' = [disc EXCEPT ![d] = "stopping"]
       /\ waits' = [waits EXCEPT ![d] = pending]
       /\ Send("stop", "disconnect", d)
  /\ phase' = "disconnecting"
  /\ Note("twice", Leaving # {})
  /\ UNCHANGED <<cancelled, pending, conn, quit, posts, native>>

(* toggleConnection of a controller that is connected: disconnect up to its  *)
(* call of stop.                                                             *)
Disconnect ==
  /\ quit = "no" /\ phase = "connected"
  /\ \E d \in Disconnects :
       /\ disc[d] = "no" /\ \A e \in Disconnects : disc[e] = "no" => d <= e
       /\ disc' = [disc EXCEPT ![d] = "stopping"]
       /\ waits' = [waits EXCEPT ![d] = pending]
       /\ Send("stop", "disconnect", d)
  /\ cancelled' = (cancelled \/ pending # 0)
  /\ phase' = "disconnecting"
  /\ Note("twice", Leaving # {})
  /\ UNCHANGED <<pending, conn, quit, posts, native>>

(* shutdownForExit, called once; the user has no window after it. *)
Quit ==
  /\ quit = "no"
  /\ quit' = "stopping"
  /\ Send("stop", "quit", 0)
  /\ Note("quit", Unstarted # {})
  /\ UNCHANGED <<phase, cancelled, pending, conn, disc, waits, posts, native>>

(* The timer of _setTransientError: an error is shown for three seconds.     *)
(* (shutdownForExit cancels a timer that runs; an exit event may still set   *)
(* another one.)                                                             *)
TransientErrorEnds ==
  /\ ~Gone /\ phase = "error"
  /\ phase' = "disconnected"
  /\ UNCHANGED <<cancelled, pending, conn, disc, waits, quit, calls, posts,
                 native, odd>>

-----------------------------------------------------------------------------
(* The end of connect c: its outcome, unless a disconnect owns the outcome,  *)
(* then the finally block and the disconnects that were waiting for c.       *)
Waiting(c) == {d \in Disconnects : disc[d] = "waiting" /\ waits[d] = c}

(* Mutant: a disconnect would not be woken by the end of the connect. *)
BugConnectEndsNoWake(c, outcome) ==
  /\ conn' = [conn EXCEPT ![c] = "ended"]
  /\ pending' = IF pending = c THEN 0 ELSE pending
  /\ phase' = IF cancelled THEN phase ELSE outcome
  /\ UNCHANGED <<cancelled, disc, waits, quit>>

ConnectEnds(c, outcome) ==
  /\ conn' = [conn EXCEPT ![c] = "ended"]
  /\ pending' = IF pending = c THEN 0 ELSE pending
  /\ disc' = [d \in Disconnects |-> IF d \in Waiting(c) THEN "ended" ELSE disc[d]]
  /\ phase' = IF Waiting(c) # {} THEN "disconnected"
              ELSE IF cancelled THEN phase ELSE outcome
  /\ UNCHANGED <<cancelled, waits, quit>>

(* Expanding the split-tunnel list, finding the core and building the        *)
(* configuration, then the call of start.                                    *)
SendStart ==
  \E c \in Connects :
    /\ ~Gone /\ conn[c] = "preparing"
    /\ conn' = [conn EXCEPT ![c] = "starting"]
    /\ Send("start", "connect", c)
    /\ UNCHANGED <<phase, cancelled, pending, disc, waits, quit, posts, native, odd>>

(* Any of them may throw. *)
PrepareThrows ==
  \E c \in Connects :
    /\ ~Gone /\ conn[c] = "preparing"
    /\ ConnectEnds(c, "error")
    /\ UNCHANGED <<calls, posts, native, odd>>

-----------------------------------------------------------------------------
(* A message reaches the Dart thread. *)
Arrives(type) == ~Gone /\ posts # <<>> /\ Head(posts).type = type
Answered      == Head(posts).call
Returns(op, by) == Arrives("reply") /\ Answered.op = op /\ Answered.by = by

(* The first await of the runtime's start ends. *)
StopForConnectReturns ==
  /\ Returns("stop", "connect")
  /\ conn' = [conn EXCEPT ![Answered.id] = "preparing"]
  /\ posts' = Tail(posts)
  /\ UNCHANGED <<phase, cancelled, pending, disc, waits, quit, calls, native, odd>>

(* The answer to start ... *)
StartReturns ==
  /\ Returns("start", "connect")
  /\ \/ Head(posts).result = "ok" /\ ConnectEnds(Answered.id, "connected")
     \/ Head(posts).result = "failed" /\ ConnectEnds(Answered.id, "error")
  /\ posts' = Tail(posts)
  /\ UNCHANGED <<calls, native, odd>>

(* ... or the word that an elevated copy of the app has been launched, which *)
(* this one makes room for at once.                                          *)
RelaunchedElevated ==
  /\ Returns("start", "connect") /\ Head(posts).result = "exitRequested"
  /\ quit' = "relaunched" /\ posts' = <<>>
  /\ UNCHANGED <<phase, cancelled, pending, conn, disc, waits, calls, native, odd>>

(* disconnect goes on to wait for the connect it has cancelled, if any. *)
StopForDisconnectReturns ==
  /\ Returns("stop", "disconnect")
  /\ LET d == Answered.id
     IN IF waits[d] \in InFlight
        THEN disc' = [disc EXCEPT ![d] = "waiting"] /\ UNCHANGED phase
        ELSE disc' = [disc EXCEPT ![d] = "ended"] /\ phase' = "disconnected"
  /\ posts' = Tail(posts)
  /\ UNCHANGED <<cancelled, pending, conn, waits, quit, calls, native, odd>>

(* shutdownForExit ends, and the app with it. *)
StopForQuitReturns ==
  /\ Returns("stop", "quit")
  /\ quit' = "done" /\ phase' = "disconnected"
  /\ posts' = <<>>
  /\ UNCHANGED <<cancelled, pending, conn, disc, waits, calls, native, odd>>

(* _handleUnexpectedExit: the event does not say which session has ended. *)
UnexpectedExit ==
  /\ Arrives("exit")
  /\ phase' = IF phase \in {"connected", "connecting"} THEN "error" ELSE phase
  /\ posts' = Tail(posts)
  /\ LET s == Head(posts).session
     IN odd' = odd \cup (IF conn[s] # "ended" THEN {"early"} ELSE {})
                   \cup (IF \E c \in Begun : c > s THEN {"late"} ELSE {})
  /\ UNCHANGED <<cancelled, pending, conn, disc, waits, quit, calls, native>>

-----------------------------------------------------------------------------
(* The native runtime.  Nobody reads what it posts once the app has ended. *)
Post(message) == posts' = IF Gone THEN posts ELSE Append(posts, message)

(* Mutant: calls that are in the queue would be run in any order. *)
BugWorkerBegins ==
  /\ step = "idle" /\ calls # <<>>
  /\ \E i \in DOMAIN calls :
       /\ job' = calls[i]
       /\ calls' = SubSeq(calls, 1, i - 1) \o SubSeq(calls, i + 1, Len(calls))
  /\ step' = "stop"
  /\ UNCHANGED <<controller, posts, state_, live, watch, odd>>

(* The worker takes the calls in order, also those that are still in the     *)
(* queue when the app ends.                                                  *)
WorkerBegins ==
  /\ step = "idle" /\ calls # <<>>
  /\ job' = Head(calls) /\ calls' = Tail(calls)
  /\ step' = "stop"
  /\ UNCHANGED <<controller, posts, state_, live, watch, odd>>

WorkerAnswers(result) ==
  /\ Post(Reply(job, result))
  /\ job' = NoJob /\ step' = "idle"

(* StopInternal, the whole of stop and the first part of start. *)
WorkerStops ==
  /\ step = "stop"
  /\ live' = live \ {state_}
  /\ IF job.op = "stop"
     THEN WorkerAnswers("ok") /\ state_' = 0
     ELSE step' = "launch" /\ state_' = job.id /\ UNCHANGED <<posts, job>>
  /\ UNCHANGED <<controller, calls, watch, odd>>

WorkerLaunches ==
  /\ step = "launch"
  /\ live' = live \cup {job.id}
  /\ watch' = [watch EXCEPT ![job.id] = "watching"]
  /\ step' = "commit"
  /\ UNCHANGED <<controller, calls, posts, job, state_, odd>>

(* Mutant: a start that fails would leave the core it has launched. *)
BugStartFails ==
  /\ step \in {"launch", "commit"}
  /\ state_' = IF state_ = job.id THEN 0 ELSE state_
  /\ \E result \in {"failed"} \cup (IF step = "launch" THEN {"exitRequested"} ELSE {}) :
       WorkerAnswers(result)
  /\ UNCHANGED <<controller, calls, live, watch, odd>>

(* The failure branch of Start, before or after the core was launched. *)
StartFails ==
  /\ step \in {"launch", "commit"}
  /\ live' = live \ {job.id}
  /\ state_' = IF state_ = job.id THEN 0 ELSE state_
  /\ \E result \in {"failed"} \cup (IF step = "launch" THEN {"exitRequested"} ELSE {}) :
       WorkerAnswers(result)
  /\ UNCHANGED <<controller, calls, watch, odd>>

(* Start answers ok whether or not the session is still the current one. *)
StartSucceeds ==
  /\ step = "commit"
  /\ WorkerAnswers("ok")
  /\ UNCHANGED <<controller, calls, state_, live, watch, odd>>

CoreDies ==
  /\ \E s \in live : live' = live \ {s}
  /\ UNCHANGED <<controller, calls, posts, job, step, state_, watch, odd>>

(* HandleUnexpectedExit takes the session over if it is still the current    *)
(* one ...                                                                   *)
WatcherWakes ==
  \E s \in Connects \ live :
    /\ watch[s] = "watching"
    /\ watch' = [watch EXCEPT ![s] = IF state_ = s THEN "handling" ELSE "done"]
    /\ state_' = IF state_ = s THEN 0 ELSE state_
    /\ UNCHANGED <<controller, calls, posts, job, step, live, odd>>

(* ... cleans up after it, and sends the exit event. *)
WatcherReports ==
  \E s \in Connects :
    /\ watch[s] = "handling"
    /\ watch' = [watch EXCEPT ![s] = "done"]
    /\ Post(ExitEvent(s))
    /\ UNCHANGED <<controller, calls, job, step, state_, live, odd>>

-----------------------------------------------------------------------------
User   == Connect \/ ConnectWithoutSource \/ Disconnect \/ Quit
Handle == \/ StopForConnectReturns \/ StartReturns \/ RelaunchedElevated
          \/ StopForDisconnectReturns \/ StopForQuitReturns \/ UnexpectedExit
Worker == WorkerBegins \/ WorkerStops \/ WorkerLaunches \/ StartFails \/ StartSucceeds

Next ==
  \/ User \/ TransientErrorEnds \/ SendStart \/ PrepareThrows
  \/ Handle \/ Worker \/ CoreDies \/ WatcherWakes \/ WatcherReports

Spec == Init /\ [][Next]_vars

(* The event loop, the worker and the watchers go on when they can; nobody   *)
(* has to press a button and no core has to die.                             *)
LiveSpec == /\ Spec
            /\ WF_vars(Handle) /\ WF_vars(Worker)
            /\ WF_vars(SendStart \/ PrepareThrows)
            /\ WF_vars(WatcherWakes) /\ WF_vars(WatcherReports)

-----------------------------------------------------------------------------
AtRest ==
  /\ InFlight = {} /\ phase \notin Busy
  /\ calls = <<>> /\ posts = <<>> /\ step = "idle"
  /\ \A c \in Connects : /\ watch[c] # "handling"
                         /\ watch[c] = "watching" => c \in live \/ state_ # c

(* The app does not say "connected" over a dead core.  Once everything that  *)
(* was sent has arrived, connected means that the core runs; only an exit    *)
(* event that overtakes the answer to its own start can undo it, because the *)
(* answer then writes "connected" last (connect, _handleUnexpectedExit).     *)
ConnectedHasCore ==
  AtRest /\ quit = "no" /\ "early" \notin odd => (phase = "connected" => live # {})

(* The app does not hide a core that runs: once everything that was sent has *)
(* arrived, a core runs only while the app says so.  Two orders of steps     *)
(* undo it, and no other: the exit event of an old session arrives during a  *)
(* newer one, which it ends in the app alone; a second connect begins while  *)
(* the first waits, after an exit event has unlocked the button too early.   *)
CoreIsShown ==
  AtRest /\ quit = "no" /\ odd \cap {"late", "overlap"} = {}
    => (live # {} => phase = "connected")

(* In every state of the types the app shows what runs, and nothing else. *)
ShownIsTrue == TypeOK /\ ConnectedHasCore /\ CoreIsShown

(* Quitting stops the core: no core is left when the app ends, nor is one    *)
(* started afterwards by what is still in the worker's queue, also if the    *)
(* quit came while a start was waiting in the queue or running.  A connect   *)
(* that had not sent its start yet is the exception: its start comes after   *)
(* the stop (shutdownForExit).                                               *)
QuitLeavesNoCore == quit = "done" /\ "quit" \notin odd => live = {}

(* "disconnect now owns the outcome": from the moment a disconnect has       *)
(* cancelled a connect until it ends, no other call, reply or event writes   *)
(* the phase, however the cancelled connect and older ones end.  Only a      *)
(* second disconnect that overlaps the first can do so (disconnect, connect, *)
(* _handleUnexpectedExit).                                                   *)
DisconnectOwnsOutcome ==
  [][\A d \in Leaving :
       waits[d] # 0 /\ "twice" \notin odd /\ ~Gone =>
         \/ phase' = "disconnecting"
         \/ phase' = "disconnected" /\ (disc'[d] = "ended" \/ quit' = "done")]_vars

(* The button comes back: connecting and disconnecting both end, whatever    *)
(* fails and in whatever order the answers and the events arrive.            *)
BusyEnds == phase \in Busy ~> (phase \notin Busy \/ Gone)
=============================================================================
