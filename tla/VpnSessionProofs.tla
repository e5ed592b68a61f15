-------------------------- MODULE VpnSessionProofs --------------------------
(***************************************************************************)
(* Proofs about module VpnSession, for any number of calls: the type       *)
(* invariant, that a disconnect owns the outcome of the connect it has     *)
(* cancelled, that quitting leaves no core behind, and that what the app   *)
(* shows once everything has arrived is what runs.                         *)
(*                                                                         *)
(* All need to know where each call of the method channel is: in the       *)
(* worker's queue, with the worker, or answered and on its way back; that  *)
(* it is in one place only; and that its caller waits for it.              *)
(***************************************************************************)
EXTENDS VpnSession, TLAPS

(* The caller of call x is waiting for the answer to x. *)
Awaited(x) ==
  /\ x.by = "connect" /\ x.op = "stop"  => conn[x.id] = "stopping"
  /\ x.by = "connect" /\ x.op = "start" => conn[x.id] = "starting"
  /\ x.by = "disconnect" => disc[x.id] = "stopping"
  /\ x.by = "quit" => quit # "no"

Answers == {i \in DOMAIN posts : posts[i].type = "reply"}

(* Every call on its way is awaited ... *)
OnWay == {calls[i] : i \in DOMAIN calls} \cup {job}
         \cup {posts[i].call : i \in Answers}
AllAwaited == \A x \in OnWay : Awaited(x)

(* ... and is in one place only. *)
OnePlace ==
  /\ \A i, j \in DOMAIN calls : i # j => calls[i] # calls[j]
  /\ \A i \in DOMAIN calls : calls[i] # job
  /\ \A i \in DOMAIN calls : \A j \in Answers : calls[i] # posts[j].call
  /\ \A j \in Answers : posts[j].call # job
  /\ \A i, j \in Answers : i # j => posts[i].call # posts[j].call

(* A session has a watcher only once its start has launched the core, so a   *)
(* start that is about to launch is still the current session.               *)
Unwatched(x) == x.op = "start" => watch[x.id] = "none"
SessionInv ==
  /\ \A c \in Connects :
       conn[c] \in {"no", "stopping", "preparing"} => watch[c] = "none"
  /\ \A i \in DOMAIN calls : Unwatched(calls[i])
  /\ step \in {"stop", "launch"} => Unwatched(job)
  /\ step = "launch" => state_ = job.id
  /\ \A c \in live : watch[c] # "none"
  /\ live \subseteq {state_}

(* Unless the quit came before a connect had sent its start, no start is     *)
(* behind the stop of the quit.                                              *)
QuitInv ==
  quit \in {"stopping", "done"} /\ "quit" \notin odd =>
    /\ Unstarted = {}
    /\ \A i, j \in DOMAIN calls :
         calls[i].by = "quit" /\ i < j => calls[j].op # "start"
    /\ job.by = "quit" => \A i \in DOMAIN calls : calls[i].op # "start"
    /\ quit = "done" \/ (\E i \in Answers : posts[i].call.by = "quit") =>
         /\ \A i \in DOMAIN calls : calls[i].op # "start"
         /\ job.op # "start"
         /\ live = {}

(* A disconnect that has cancelled a connect is the only one under way, and  *)
(* holds the phase and the flag.                                             *)
OwnInv ==
  "twice" \notin odd =>
    /\ \A d, e \in Leaving : d = e
    /\ ~Gone => \A d \in Leaving : waits[d] # 0 => phase = "disconnecting" /\ cancelled

IInv == TypeOK /\ AllAwaited /\ OnePlace /\ SessionInv /\ QuitInv /\ OwnInv

-----------------------------------------------------------------------------
(* Sequences as queues: what is where after Append and after Tail. *)
LEMMA AppendAt ==
  ASSUME NEW S, NEW s \in Seq(S), NEW x \in S
  PROVE  /\ Append(s, x) \in Seq(S)
         /\ Len(s) \in Nat /\ DOMAIN s = 1 .. Len(s)
         /\ DOMAIN Append(s, x) = 1 .. (Len(s) + 1)
         /\ \A i \in DOMAIN s : Append(s, x)[i] = s[i]
         /\ Append(s, x)[Len(s) + 1] = x
  OBVIOUS

LEMMA TailAt ==
  ASSUME NEW S, NEW s \in Seq(S), s # <<>>
  PROVE  /\ Tail(s) \in Seq(S) /\ Head(s) \in S
         /\ Len(s) \in Nat \ {0} /\ DOMAIN s = 1 .. Len(s)
         /\ DOMAIN Tail(s) = 1 .. (Len(s) - 1)
         /\ \A i \in DOMAIN Tail(s) : Tail(s)[i] = s[i + 1]
         /\ Head(s) = s[1]
  OBVIOUS

(* What a call can be ... *)
LEMMA CallCases ==
  \A x \in CallSet :
    /\ x = CallOf(x.op, x.by, x.id)
    /\ \/ x.by = "connect" /\ x.op \in {"start", "stop"} /\ x.id \in Connects
       \/ x.by = "disconnect" /\ x.op = "stop" /\ x.id \in Disconnects
       \/ x.by = "quit" /\ x.op = "stop" /\ x.id = 0
  BY DEF CallSet, CallOf

(* ... and what a message can be. *)
LEMMA MessageCases ==
  \A m \in Messages :
    \/ m.type = "reply" /\ m.call \in CallSet /\ m.result \in Results
    \/ m.type = "exit" /\ m.session \in Connects
  BY DEF Messages, Reply, ExitEvent

LEMMA NewMessages ==
  /\ \A x \in CallSet, r \in Results : Reply(x, r) \in Messages
  /\ \A s \in Connects : ExitEvent(s) \in Messages
  /\ \A c \in Connects : /\ CallOf("stop", "connect", c) \in CallSet
                          /\ CallOf("start", "connect", c) \in CallSet
  /\ \A d \in Disconnects : CallOf("stop", "disconnect", d) \in CallSet
  /\ CallOf("stop", "quit", 0) \in CallSet
  /\ NoJob \notin CallSet
<1>1. \A x \in CallSet, r \in Results : Reply(x, r) \in Messages
  BY DEF Messages
<1>2. \A s \in Connects : ExitEvent(s) \in Messages
  BY DEF Messages
<1>3. \A op \in {"start", "stop"}, c \in Connects : CallOf(op, "connect", c) \in CallSet
  BY DEF CallSet
<1>4. \A d \in Disconnects : CallOf("stop", "disconnect", d) \in CallSet
  BY DEF CallSet
<1>5. CallOf("stop", "quit", 0) \in CallSet
  BY DEF CallSet
<1>6. NoJob \notin CallSet
  BY CallCases DEF NoJob, CallOf
<1> QED  BY <1>1, <1>2, <1>3, <1>4, <1>5, <1>6

-----------------------------------------------------------------------------
(* Types. *)
LEMMA TypeStep == TypeOK /\ AllAwaited /\ [Next]_vars => TypeOK'
<1> SUFFICES ASSUME TypeOK, AllAwaited, [Next]_vars PROVE TypeOK'
  OBVIOUS
<1> USE DEF TypeOK
<1>0. 0 \in 0 .. MaxConnects /\ \A c \in Connects : c \in 0 .. MaxConnects
  BY MaxConnectsAssumption DEF Connects
<1>1. CASE Connect
  <2> PICK c \in Connects : /\ conn' = [conn EXCEPT ![c] = "stopping"]
                            /\ pending' = c /\ Send("stop", "connect", c)
    BY <1>1 DEF Connect
  <2>1. calls' \in Seq(CallSet)
    BY NewMessages, AppendAt DEF Send
  <2> QED  BY <1>0, <1>1, <2>1 DEF Connect, Note, Orders, Phases, native
<1>2. CASE Disconnect
  <2> PICK d \in Disconnects : /\ disc' = [disc EXCEPT ![d] = "stopping"]
                               /\ waits' = [waits EXCEPT ![d] = pending]
                               /\ Send("stop", "disconnect", d)
    BY <1>2 DEF Disconnect
  <2>1. calls' \in Seq(CallSet)
    BY NewMessages, AppendAt DEF Send
  <2> QED  BY <1>2, <2>1 DEF Disconnect, Note, Orders, Phases, native
<1>3. CASE Quit
  <2>1. calls' \in Seq(CallSet)
    BY <1>3, NewMessages, AppendAt DEF Quit, Send
  <2> QED  BY <1>3, <2>1 DEF Quit, Note, Orders, native
<1>4. CASE ConnectWithoutSource \/ TransientErrorEnds
  BY <1>4 DEF ConnectWithoutSource, TransientErrorEnds, Phases, native
<1>5. CASE SendStart
  <2> PICK c \in Connects : /\ conn' = [conn EXCEPT ![c] = "starting"]
                            /\ Send("start", "connect", c)
    BY <1>5 DEF SendStart
  <2>1. calls' \in Seq(CallSet)
    BY NewMessages, AppendAt DEF Send
  <2> QED  BY <1>5, <2>1 DEF SendStart, native
<1>6. ASSUME NEW c \in Connects, NEW outcome \in Phases, ConnectEnds(c, outcome)
      PROVE  /\ phase' \in Phases /\ cancelled' \in BOOLEAN /\ pending' \in 0 .. MaxConnects
             /\ conn' \in [Connects -> {"no", "stopping", "preparing", "starting", "ended"}]
             /\ disc' \in [Disconnects -> {"no", "stopping", "waiting", "ended"}]
             /\ waits' = waits /\ quit' = quit
  <2>1. phase' \in Phases /\ UNCHANGED <<cancelled, waits, quit>>
    BY <1>6 DEF ConnectEnds, Phases
  <2>2. disc' \in [Disconnects -> {"no", "stopping", "waiting", "ended"}]
    BY <1>6 DEF ConnectEnds
  <2>3. conn' \in [Connects -> {"no", "stopping", "preparing", "starting", "ended"}]
    BY <1>6 DEF ConnectEnds
  <2>4. pending' \in 0 .. MaxConnects
    BY <1>0, <1>6 DEF ConnectEnds
  <2> QED  BY <2>1, <2>2, <2>3, <2>4
<1>7. CASE PrepareThrows
  BY <1>6, <1>7 DEF PrepareThrows, Phases, native
<1>8. ASSUME posts # <<>>
      PROVE  Tail(posts) \in Seq(Messages) /\ Head(posts) \in Messages
  BY <1>8, TailAt
<1>9. CASE Handle
  <2> Head(posts) \in Messages /\ Tail(posts) \in Seq(Messages) /\ <<>> \in Seq(Messages)
    BY <1>8, <1>9 DEF Handle, StopForConnectReturns, StartReturns,
       RelaunchedElevated, StopForDisconnectReturns, StopForQuitReturns,
       UnexpectedExit, Returns, Arrives
  <2>1. CASE StopForConnectReturns
    <3> Answered.id \in Connects
      BY <2>1, MessageCases, CallCases DEF StopForConnectReturns, Returns, Arrives, Answered
    <3> QED  BY <2>1 DEF StopForConnectReturns, native
  <2>2. CASE StartReturns
    <3> Answered.id \in Connects
      BY <2>2, MessageCases, CallCases DEF StartReturns, Returns, Arrives, Answered
    <3> PICK outcome \in {"connected", "error"} : ConnectEnds(Answered.id, outcome)
      BY <2>2 DEF StartReturns
    <3> outcome \in Phases
      BY DEF Phases
    <3> QED  BY <2>2, <1>6 DEF StartReturns, native
  <2>3. CASE RelaunchedElevated
    BY <2>3 DEF RelaunchedElevated, native
  <2>4. CASE StopForDisconnectReturns
    BY <2>4 DEF StopForDisconnectReturns, native, Phases
  <2>5. CASE StopForQuitReturns
    BY <2>5 DEF StopForQuitReturns, native, Phases
  <2>6. CASE UnexpectedExit
    BY <2>6 DEF UnexpectedExit, native, Phases, Orders
  <2> QED  BY <1>9, <2>1, <2>2, <2>3, <2>4, <2>5, <2>6 DEF Handle
<1>10. CASE WorkerBegins
  <2> Head(calls) \in CallSet /\ Tail(calls) \in Seq(CallSet)
    BY <1>10, TailAt DEF WorkerBegins
  <2> QED  BY <1>10, NewMessages DEF WorkerBegins, controller, Steps
<1>11. ASSUME NEW result \in Results, step # "idle", WorkerAnswers(result)
       PROVE  posts' \in Seq(Messages) /\ job' = NoJob /\ step' = "idle"
  <2> Reply(job, result) \in Messages
    BY <1>11, NewMessages
  <2> QED  BY <1>11, AppendAt DEF WorkerAnswers, Post
<1>12. CASE WorkerStops
  <2>1. CASE job.op = "stop"
    BY <1>0, <1>11, <1>12, <2>1 DEF WorkerStops, controller, Results, Steps
  <2>2. CASE job.op # "stop"
    <3> job.id \in Connects /\ job.op = "start" /\ job # NoJob
      BY <1>12, <2>2, CallCases DEF WorkerStops
    <3> QED  BY <1>12, <2>2 DEF WorkerStops, controller, Steps, Connects
  <2> QED  BY <2>1, <2>2
<1>13. ASSUME step \in {"launch", "commit"}
       PROVE  job \in CallSet /\ job.id \in Connects
  BY <1>13, CallCases
<1>14. CASE WorkerLaunches
  BY <1>13, <1>14 DEF WorkerLaunches, controller, Steps
<1>15. CASE StartFails
  <2> PICK result \in Results : WorkerAnswers(result)
    BY <1>15 DEF StartFails, Results
  <2>1. posts' \in Seq(Messages) /\ job' = NoJob /\ step' = "idle"
    BY <1>11, <1>15 DEF StartFails
  <2> QED  BY <1>0, <1>15, <2>1 DEF StartFails, controller, Steps
<1>16. CASE StartSucceeds
  BY <1>11, <1>16 DEF StartSucceeds, controller, Steps, Results
<1>17. CASE CoreDies
  BY <1>17 DEF CoreDies, controller
<1>18. CASE WatcherWakes
  BY <1>0, <1>18 DEF WatcherWakes, controller
<1>19. CASE WatcherReports
  <2> PICK s \in Connects : /\ watch' = [watch EXCEPT ![s] = "done"]
                            /\ Post(ExitEvent(s))
    BY <1>19 DEF WatcherReports
  <2>1. posts' \in Seq(Messages)
    BY NewMessages, AppendAt DEF Post
  <2> QED  BY <1>19, <2>1 DEF WatcherReports, controller
<1>20. CASE UNCHANGED vars
  BY <1>20 DEF vars, controller, native
<1> QED
  BY <1>1, <1>2, <1>3, <1>4, <1>5, <1>7, <1>9, <1>10, <1>12, <1>14, <1>15,
     <1>16, <1>17, <1>18, <1>19, <1>20 DEF Next, User, Worker

-----------------------------------------------------------------------------
(* How each kind of step moves a call: it is sent, ... *)
LEMMA SendMoves ==
  ASSUME TypeOK, OnePlace, NEW op, NEW by, NEW id,
         CallOf(op, by, id) \in CallSet, CallOf(op, by, id) \notin OnWay,
         Send(op, by, id), UNCHANGED <<posts, job>>
  PROVE  OnePlace' /\ OnWay' = OnWay \cup {CallOf(op, by, id)}
<1> DEFINE x == CallOf(op, by, id)
<1> x \in CallSet /\ x \notin OnWay
  OBVIOUS
<1>1. /\ Len(calls) \in Nat /\ DOMAIN calls = 1 .. Len(calls)
      /\ DOMAIN calls' = 1 .. (Len(calls) + 1)
      /\ \A i \in DOMAIN calls : calls'[i] = calls[i]
      /\ calls'[Len(calls) + 1] = x
  BY AppendAt DEF TypeOK, Send
<1> HIDE DEF x
<1>2. Answers' = Answers /\ posts' = posts /\ job' = job
  BY DEF Answers
<1>3. OnWay' = OnWay \cup {x}
  BY <1>1, <1>2 DEF OnWay
<1>4. \A i \in DOMAIN calls' : i \in DOMAIN calls \/ i = Len(calls) + 1
  BY <1>1
<1>5. /\ \A i \in DOMAIN calls : calls[i] # x
      /\ job # x
      /\ \A i \in Answers : posts[i].call # x
  BY DEF OnWay
<1>6. OnePlace'
  BY <1>1, <1>2, <1>4, <1>5 DEF OnePlace
<1> QED  BY <1>3, <1>6 DEF x

(* ... its answer is handled, ... *)
LEMMA HandleMoves ==
  ASSUME TypeOK, OnePlace, posts # <<>>, posts' = Tail(posts),
         UNCHANGED <<calls, job>>
  PROVE  /\ OnePlace' /\ OnWay' \subseteq OnWay
         /\ Head(posts).type = "reply" =>
              Head(posts).call \in OnWay /\ Head(posts).call \notin OnWay'
<1>1. /\ Len(posts) \in Nat \ {0} /\ DOMAIN posts = 1 .. Len(posts)
      /\ DOMAIN posts' = 1 .. (Len(posts) - 1)
      /\ \A i \in DOMAIN posts' : posts'[i] = posts[i + 1]
      /\ Head(posts) = posts[1]
  BY TailAt DEF TypeOK
<1>2. calls' = calls /\ job' = job
  OBVIOUS
<1>3. \A i \in Answers' : i + 1 \in Answers /\ posts'[i] = posts[i + 1] /\ i + 1 # 1
  BY <1>1 DEF Answers
<1>4. OnWay' \subseteq OnWay
  BY <1>2, <1>3 DEF OnWay
<1>5. \A i, j \in Answers' : i # j => posts'[i].call # posts'[j].call
  <2> TAKE i, j \in Answers'
  <2> HAVE i # j
  <2>1. i + 1 # j + 1
    BY <1>1 DEF Answers
  <2> QED  BY <1>3, <2>1 DEF OnePlace
<1>6. OnePlace'
  <2>1. \A i \in DOMAIN calls' : \A j \in Answers' : calls'[i] # posts'[j].call
    BY <1>2, <1>3 DEF OnePlace
  <2>2. \A j \in Answers' : posts'[j].call # job'
    BY <1>2, <1>3 DEF OnePlace
  <2> QED  BY <1>2, <1>5, <2>1, <2>2 DEF OnePlace
<1>7. ASSUME Head(posts).type = "reply"
      PROVE  Head(posts).call \in OnWay /\ Head(posts).call \notin OnWay'
  <2>1. 1 \in Answers
    BY <1>1, <1>7 DEF Answers
  <2>2. \A i \in DOMAIN calls' : calls'[i] # posts[1].call
    BY <1>2, <2>1 DEF OnePlace
  <2>3. job' # posts[1].call
    BY <1>2, <2>1 DEF OnePlace
  <2>4. \A i \in Answers' : posts'[i].call # posts[1].call
    <3>1. \A i, j \in Answers : i # j => posts[i].call # posts[j].call
      BY DEF OnePlace
    <3> TAKE i \in Answers'
    <3>2. i + 1 \in Answers /\ posts'[i] = posts[i + 1] /\ i + 1 # 1
      BY <1>3
    <3> QED  BY <2>1, <3>1, <3>2
  <2>5. posts[1].call \in OnWay
    BY <2>1 DEF OnWay
  <2> QED  BY <1>1, <2>2, <2>3, <2>4, <2>5 DEF OnWay
<1> QED  BY <1>4, <1>6, <1>7

(* ... it is dropped because the app ends, ... *)
LEMMA DropMoves ==
  ASSUME OnePlace, posts' = <<>>, UNCHANGED <<calls, job>>
  PROVE  OnePlace' /\ OnWay' \subseteq OnWay /\ Answers' = {}
<1>1. Answers' = {}
  BY DEF Answers
<1> QED  BY <1>1 DEF OnePlace, OnWay

(* ... the worker begins it, ... *)
LEMMA BeginMoves ==
  ASSUME TypeOK, OnePlace, WorkerBegins
  PROVE  OnePlace' /\ OnWay' \subseteq OnWay
<1>1. /\ Len(calls) \in Nat \ {0} /\ DOMAIN calls = 1 .. Len(calls)
      /\ DOMAIN calls' = 1 .. (Len(calls) - 1)
      /\ \A i \in DOMAIN calls' : calls'[i] = calls[i + 1]
      /\ job' = calls[1]
  BY TailAt DEF TypeOK, WorkerBegins
<1>2. posts' = posts /\ Answers' = Answers
  BY DEF WorkerBegins, Answers
<1>3. \A i \in DOMAIN calls' : i + 1 \in DOMAIN calls /\ i + 1 # 1
  BY <1>1
<1>4. 1 \in DOMAIN calls
  BY <1>1
<1>5. OnWay' \subseteq OnWay
  BY <1>1, <1>2, <1>3, <1>4 DEF OnWay
<1>6. \A i, j \in DOMAIN calls' : i # j => calls'[i] # calls'[j]
  <2> TAKE i, j \in DOMAIN calls'
  <2> HAVE i # j
  <2>1. i + 1 # j + 1
    BY <1>1
  <2> QED  BY <1>1, <1>3, <2>1 DEF OnePlace
<1>7. OnePlace'
  BY <1>1, <1>2, <1>3, <1>4, <1>6 DEF OnePlace
<1> QED  BY <1>5, <1>7

(* ... and the worker answers it, or drops the answer when the app is gone. *)
LEMMA AnswerMoves ==
  ASSUME TypeOK, OnePlace, NEW result \in Results, step # "idle",
         WorkerAnswers(result), UNCHANGED calls
  PROVE  OnePlace' /\ OnWay' \subseteq OnWay \cup {NoJob}
<1>1. job \in CallSet /\ job' = NoJob /\ calls' = calls
  BY DEF TypeOK, WorkerAnswers
<1>2. \A i \in DOMAIN calls : calls[i] \in CallSet
  BY DEF TypeOK
<1>3. \A i \in Answers : posts[i].call \in CallSet
  <2> TAKE i \in Answers
  <2>1. posts[i] \in Messages /\ posts[i].type = "reply"
    BY DEF TypeOK, Answers
  <2> QED  BY <2>1, MessageCases
<1>4. NoJob \notin CallSet
  BY NewMessages
<1>5. CASE Gone
  <2>1. posts' = posts /\ Answers' = Answers
    BY <1>5 DEF WorkerAnswers, Post, Answers
  <2> QED  BY <1>1, <1>2, <1>3, <1>4, <2>1 DEF OnePlace, OnWay
<1>6. CASE ~Gone
  <2>1. Reply(job, result) \in Messages
    BY <1>1, NewMessages
  <2>2. /\ Len(posts) \in Nat /\ DOMAIN posts = 1 .. Len(posts)
        /\ DOMAIN posts' = 1 .. (Len(posts) + 1)
        /\ \A i \in DOMAIN posts : posts'[i] = posts[i]
        /\ posts'[Len(posts) + 1] = Reply(job, result)
    BY <1>6, <2>1, AppendAt DEF TypeOK, WorkerAnswers, Post
  <2>3. \A i \in Answers' : \/ i \in Answers /\ posts'[i].call = posts[i].call
                            \/ i = Len(posts) + 1 /\ posts'[i].call = job
    BY <2>2 DEF Answers, Reply
  <2>4. OnWay' \subseteq OnWay \cup {NoJob}
    BY <1>1, <2>3 DEF OnWay
  <2>5. \A i \in Answers' : posts'[i].call \in CallSet
    BY <1>1, <1>3, <2>3
  <2>6. \A i, j \in Answers' : i # j => posts'[i].call # posts'[j].call
    BY <2>3 DEF OnePlace
  <2>7. \A i \in DOMAIN calls : \A j \in Answers' : calls[i] # posts'[j].call
    BY <2>3 DEF OnePlace
  <2>8. OnePlace'
    BY <1>1, <1>2, <1>4, <2>5, <2>6, <2>7 DEF OnePlace
  <2> QED  BY <2>4, <2>8
<1> QED  BY <1>5, <1>6

(* An exit event moves no call. *)
LEMMA ExitMoves ==
  ASSUME TypeOK, OnePlace, NEW s \in Connects, Post(ExitEvent(s)),
         UNCHANGED <<calls, job>>
  PROVE  OnePlace' /\ OnWay' = OnWay
<1>1. Answers' = Answers /\ \A i \in Answers : posts'[i] = posts[i]
  <2>1. CASE Gone
    BY <2>1 DEF Post, Answers
  <2>2. CASE ~Gone
    <3>1. ExitEvent(s) \in Messages
      BY NewMessages
    <3>2. /\ Len(posts) \in Nat /\ DOMAIN posts = 1 .. Len(posts)
          /\ DOMAIN posts' = 1 .. (Len(posts) + 1)
          /\ \A i \in DOMAIN posts : posts'[i] = posts[i]
          /\ posts'[Len(posts) + 1] = ExitEvent(s)
      BY <2>2, <3>1, AppendAt DEF TypeOK, Post
    <3>3. ExitEvent(s).type # "reply"
      BY DEF ExitEvent
    <3> QED  BY <3>2, <3>3 DEF Answers
  <2> QED  BY <2>1, <2>2
<1> QED  BY <1>1 DEF OnePlace, OnWay

LEMMA WayTypes == TypeOK => OnWay \subseteq CallSet \cup {NoJob}
<1> SUFFICES ASSUME TypeOK PROVE OnWay \subseteq CallSet \cup {NoJob}
  OBVIOUS
<1>1. \A i \in Answers : posts[i].call \in CallSet
  <2> TAKE i \in Answers
  <2>1. posts[i] \in Messages /\ posts[i].type = "reply"
    BY DEF TypeOK, Answers
  <2> QED  BY <2>1, MessageCases
<1> QED  BY <1>1 DEF TypeOK, OnWay

(* Every call on its way stays awaited and in one place. *)
LEMMA WayStep ==
  TypeOK /\ AllAwaited /\ OnePlace /\ [Next]_vars => AllAwaited' /\ OnePlace'
<1> SUFFICES ASSUME TypeOK, AllAwaited, OnePlace, [Next]_vars
             PROVE  AllAwaited' /\ OnePlace'
  OBVIOUS
<1>0. \A x \in OnWay :
        \/ x = NoJob
        \/ x = CallOf("stop", "connect", x.id) /\ x.id \in Connects /\ conn[x.id] = "stopping"
        \/ x = CallOf("start", "connect", x.id) /\ x.id \in Connects /\ conn[x.id] = "starting"
        \/ x = CallOf("stop", "disconnect", x.id) /\ x.id \in Disconnects /\ disc[x.id] = "stopping"
        \/ x = CallOf("stop", "quit", x.id) /\ x.id = 0 /\ quit # "no"
  BY WayTypes, CallCases DEF AllAwaited, Awaited
<1>a. Awaited(NoJob) /\ Awaited(NoJob)'
  BY DEF Awaited, NoJob, CallOf
<1>k. ASSUME UNCHANGED <<conn, disc, quit>>, OnWay' \subseteq OnWay \cup {NoJob}
      PROVE  AllAwaited'
  BY <1>a, <1>k DEF AllAwaited, Awaited
<1> USE DEF TypeOK
<1>1. CASE Connect
  <2> PICK c \in Connects : /\ conn[c] = "no" /\ conn' = [conn EXCEPT ![c] = "stopping"]
                            /\ Send("stop", "connect", c)
    BY <1>1 DEF Connect, Begun
  <2>1. CallOf("stop", "connect", c) \notin OnWay
    BY <1>0 DEF CallOf, NoJob
  <2>2. OnePlace' /\ OnWay' = OnWay \cup {CallOf("stop", "connect", c)}
    BY <1>1, <2>1, NewMessages, SendMoves DEF Connect, native
  <2>3. AllAwaited'
    BY <1>0, <1>1, <2>2 DEF AllAwaited, Awaited, CallOf, NoJob, Connect
  <2> QED  BY <2>2, <2>3
<1>2. CASE Disconnect
  <2> PICK d \in Disconnects : /\ disc[d] = "no" /\ disc' = [disc EXCEPT ![d] = "stopping"]
                               /\ Send("stop", "disconnect", d)
    BY <1>2 DEF Disconnect
  <2>1. CallOf("stop", "disconnect", d) \notin OnWay
    BY <1>0 DEF CallOf, NoJob
  <2>2. OnePlace' /\ OnWay' = OnWay \cup {CallOf("stop", "disconnect", d)}
    BY <1>2, <2>1, NewMessages, SendMoves DEF Disconnect, native
  <2>3. AllAwaited'
    BY <1>0, <1>2, <2>2 DEF AllAwaited, Awaited, CallOf, NoJob, Disconnect
  <2> QED  BY <2>2, <2>3
<1>3. CASE Quit
  <2>1. CallOf("stop", "quit", 0) \notin OnWay
    BY <1>0, <1>3 DEF CallOf, NoJob, Quit
  <2>2. OnePlace' /\ OnWay' = OnWay \cup {CallOf("stop", "quit", 0)}
    BY <1>3, <2>1, NewMessages, SendMoves DEF Quit, native
  <2>3. AllAwaited'
    BY <1>0, <1>3, <2>2 DEF AllAwaited, Awaited, CallOf, NoJob, Quit
  <2> QED  BY <2>2, <2>3
<1>4. CASE SendStart
  <2> PICK c \in Connects : /\ conn[c] = "preparing" /\ conn' = [conn EXCEPT ![c] = "starting"]
                            /\ Send("start", "connect", c)
    BY <1>4 DEF SendStart
  <2>1. CallOf("start", "connect", c) \notin OnWay
    BY <1>0 DEF CallOf, NoJob
  <2>2. OnePlace' /\ OnWay' = OnWay \cup {CallOf("start", "connect", c)}
    BY <1>4, <2>1, NewMessages, SendMoves DEF SendStart, native
  <2>3. AllAwaited'
    BY <1>0, <1>4, <2>2 DEF AllAwaited, Awaited, CallOf, NoJob, SendStart
  <2> QED  BY <2>2, <2>3
<1>5. ASSUME NEW c \in Connects, NEW outcome, ConnectEnds(c, outcome),
             \A x \in OnWay' : x \in OnWay /\ (x.by = "connect" => x.id # c)
      PROVE  AllAwaited'
  <2>1. quit' = quit /\ conn' = [conn EXCEPT ![c] = "ended"]
        /\ \A d \in Disconnects : disc[d] = "stopping" => disc'[d] = "stopping"
    BY <1>5 DEF ConnectEnds, Waiting
  <2> QED  BY <1>0, <1>5, <2>1 DEF AllAwaited, Awaited, CallOf, NoJob
<1>6. CASE PrepareThrows
  <2> PICK c \in Connects : conn[c] = "preparing" /\ ConnectEnds(c, "error")
    BY <1>6 DEF PrepareThrows
  <2>1. OnWay' = OnWay /\ OnePlace'
    BY <1>6 DEF PrepareThrows, native, OnWay, OnePlace, Answers
  <2>2. \A x \in OnWay : x.by = "connect" => x.id # c
    BY <1>0 DEF CallOf, NoJob
  <2> QED  BY <1>5, <2>1, <2>2
<1>7. CASE StopForConnectReturns
  <2>1. /\ OnePlace' /\ OnWay' \subseteq OnWay
        /\ Answered \in OnWay /\ Answered \notin OnWay'
        /\ Answered.op = "stop" /\ Answered.by = "connect"
    BY <1>7, HandleMoves DEF StopForConnectReturns, Returns, Arrives, native, Answered
  <2> DEFINE c == Answered.id
  <2>2. Answered = CallOf("stop", "connect", c) /\ c \in Connects /\ conn[c] = "stopping"
    BY <1>0, <2>1 DEF CallOf, NoJob
  <2>3. conn' = [conn EXCEPT ![c] = "preparing"] /\ disc' = disc /\ quit' = quit
    BY <1>7 DEF StopForConnectReturns
  <2> HIDE DEF c
  <2>4. AllAwaited'
    BY <1>0, <2>1, <2>2, <2>3 DEF AllAwaited, Awaited, CallOf, NoJob
  <2> QED  BY <2>1, <2>4
<1>8. CASE StartReturns
  <2>1. /\ OnePlace' /\ OnWay' \subseteq OnWay
        /\ Answered \in OnWay /\ Answered \notin OnWay'
        /\ Answered.op = "start" /\ Answered.by = "connect"
    BY <1>8, HandleMoves DEF StartReturns, Returns, Arrives, native, Answered
  <2> DEFINE c == Answered.id
  <2>2. Answered = CallOf("start", "connect", c) /\ c \in Connects /\ conn[c] = "starting"
    BY <1>0, <2>1 DEF CallOf, NoJob
  <2>3. PICK outcome : ConnectEnds(c, outcome)
    BY <1>8 DEF StartReturns
  <2> HIDE DEF c
  <2>4. \A x \in OnWay' : x \in OnWay /\ (x.by = "connect" => x.id # c)
    BY <1>0, <2>1, <2>2 DEF CallOf, NoJob
  <2> QED  BY <1>5, <2>1, <2>2, <2>3, <2>4
<1>9. CASE StopForDisconnectReturns
  <2>1. /\ OnePlace' /\ OnWay' \subseteq OnWay
        /\ Answered \in OnWay /\ Answered \notin OnWay'
        /\ Answered.op = "stop" /\ Answered.by = "disconnect"
    BY <1>9, HandleMoves DEF StopForDisconnectReturns, Returns, Arrives, native, Answered
  <2> DEFINE d == Answered.id
  <2>2. Answered = CallOf("stop", "disconnect", d) /\ d \in Disconnects
    BY <1>0, <2>1 DEF CallOf, NoJob
  <2>3. /\ \A e \in Disconnects : e # d => disc'[e] = disc[e]
        /\ conn' = conn /\ quit' = quit
    BY <1>9 DEF StopForDisconnectReturns
  <2> HIDE DEF d
  <2>4. AllAwaited'
    BY <1>0, <2>1, <2>2, <2>3 DEF AllAwaited, Awaited, CallOf, NoJob
  <2> QED  BY <2>1, <2>4
<1>10. CASE UnexpectedExit
  <2>1. OnePlace' /\ OnWay' \subseteq OnWay
    BY <1>10, HandleMoves DEF UnexpectedExit, Arrives, native
  <2> QED  BY <1>10, <1>k, <2>1 DEF UnexpectedExit
<1>11. CASE RelaunchedElevated \/ StopForQuitReturns
  <2>1. OnePlace' /\ OnWay' \subseteq OnWay
    BY <1>11, DropMoves DEF RelaunchedElevated, StopForQuitReturns, native
  <2>2. conn' = conn /\ disc' = disc /\ quit' # "no"
    BY <1>11 DEF RelaunchedElevated, StopForQuitReturns
  <2>3. AllAwaited'
    BY <2>1, <2>2 DEF AllAwaited, Awaited
  <2> QED  BY <2>1, <2>3
<1>12. CASE WorkerBegins
  <2>1. OnePlace' /\ OnWay' \subseteq OnWay
    BY <1>12, BeginMoves
  <2> QED  BY <1>12, <1>k, <2>1 DEF WorkerBegins, controller
<1>13. ASSUME UNCHANGED <<calls, controller>>, step # "idle", NEW result \in Results,
              WorkerAnswers(result)
       PROVE  AllAwaited' /\ OnePlace'
  <2>1. OnePlace' /\ OnWay' \subseteq OnWay \cup {NoJob}
    BY <1>13, AnswerMoves
  <2> QED  BY <1>13, <1>k, <2>1 DEF controller
<1>14. ASSUME UNCHANGED <<calls, posts, job, conn, disc, quit>>
       PROVE  AllAwaited' /\ OnePlace'
  <2>1. OnWay' = OnWay /\ OnePlace'
    BY <1>14 DEF OnWay, OnePlace, Answers
  <2> QED  BY <1>14, <1>k, <2>1
<1>15. CASE WorkerStops
  <2>1. CASE job.op = "stop"
    BY <1>13, <1>15, <2>1 DEF WorkerStops, Results
  <2>2. CASE job.op # "stop"
    BY <1>14, <1>15, <2>2 DEF WorkerStops, controller
  <2> QED  BY <2>1, <2>2
<1>16. CASE StartFails
  <2> PICK result \in Results : WorkerAnswers(result)
    BY <1>16 DEF StartFails, Results
  <2> QED  BY <1>13, <1>16 DEF StartFails
<1>17. CASE StartSucceeds
  BY <1>13, <1>17 DEF StartSucceeds, Results
<1>18. CASE WatcherReports
  <2> PICK s \in Connects : Post(ExitEvent(s))
    BY <1>18 DEF WatcherReports
  <2>1. OnePlace' /\ OnWay' = OnWay
    BY <1>18, ExitMoves DEF WatcherReports
  <2> QED  BY <1>18, <1>k, <2>1 DEF WatcherReports, controller
<1>19. CASE \/ ConnectWithoutSource \/ TransientErrorEnds \/ WorkerLaunches
            \/ CoreDies \/ WatcherWakes \/ UNCHANGED vars
  BY <1>14, <1>19 DEF ConnectWithoutSource, TransientErrorEnds, WorkerLaunches,
     CoreDies, WatcherWakes, vars, controller, native
<1> QED
  BY <1>1, <1>2, <1>3, <1>4, <1>6, <1>7, <1>8, <1>9, <1>10, <1>11, <1>12, <1>15,
     <1>16, <1>17, <1>18, <1>19 DEF Next, User, Handle, Worker

-----------------------------------------------------------------------------
(* The current session and the cores. *)
LEMMA SessionStep ==
  TypeOK /\ AllAwaited /\ OnePlace /\ SessionInv /\ [Next]_vars => SessionInv'
<1> SUFFICES ASSUME TypeOK, AllAwaited, OnePlace, SessionInv, [Next]_vars
             PROVE  SessionInv'
  OBVIOUS
<1> USE DEF TypeOK
<1>0. job \in OnWay /\ \A i \in DOMAIN calls : calls[i] \in OnWay
  BY DEF OnWay
(* What a step has to keep when it leaves the native side alone. *)
<1>k. ASSUME UNCHANGED <<step, job, state_, live, watch>>,
             \A c \in Connects : conn'[c] \in {"no", "stopping", "preparing"}
                                => conn[c] \in {"no", "stopping", "preparing"},
             \A i \in DOMAIN calls' :
               calls'[i].op = "start" => watch[calls'[i].id] = "none"
      PROVE  SessionInv'
  BY <1>k DEF SessionInv, Unwatched
<1>s. ASSUME NEW op, NEW by, NEW id, CallOf(op, by, id) \in CallSet,
             Send(op, by, id), op = "start" => watch[id] = "none"
      PROVE  \A i \in DOMAIN calls' :
               calls'[i].op = "start" => watch[calls'[i].id] = "none"
  <2>1. /\ Len(calls) \in Nat /\ DOMAIN calls = 1 .. Len(calls)
        /\ DOMAIN calls' = 1 .. (Len(calls) + 1)
        /\ \A i \in DOMAIN calls : calls'[i] = calls[i]
        /\ calls'[Len(calls) + 1] = CallOf(op, by, id)
    BY <1>s, AppendAt DEF Send
  <2>2. \A i \in DOMAIN calls' : i \in DOMAIN calls \/ i = Len(calls) + 1
    BY <2>1
  <2> QED  BY <1>s, <2>1, <2>2 DEF SessionInv, Unwatched, CallOf
<1>q. ASSUME UNCHANGED calls
      PROVE  \A i \in DOMAIN calls' :
               calls'[i].op = "start" => watch[calls'[i].id] = "none"
  BY <1>q DEF SessionInv, Unwatched
<1>1. CASE Connect
  <2> PICK c \in Connects : /\ conn[c] = "no" /\ conn' = [conn EXCEPT ![c] = "stopping"]
                            /\ Send("stop", "connect", c)
    BY <1>1 DEF Connect, Begun
  <2>1. \A i \in DOMAIN calls' :
          calls'[i].op = "start" => watch[calls'[i].id] = "none"
    BY <1>s, NewMessages
  <2> QED  BY <1>1, <1>k, <2>1 DEF Connect, native
<1>2. CASE Disconnect
  <2> PICK d \in Disconnects : Send("stop", "disconnect", d)
    BY <1>2 DEF Disconnect
  <2>1. \A i \in DOMAIN calls' :
          calls'[i].op = "start" => watch[calls'[i].id] = "none"
    BY <1>s, NewMessages
  <2> QED  BY <1>2, <1>k, <2>1 DEF Disconnect, native
<1>3. CASE Quit
  <2>1. \A i \in DOMAIN calls' :
          calls'[i].op = "start" => watch[calls'[i].id] = "none"
    BY <1>3, <1>s, NewMessages DEF Quit
  <2> QED  BY <1>3, <1>k, <2>1 DEF Quit, native
<1>4. CASE SendStart
  <2> PICK c \in Connects : /\ conn[c] = "preparing" /\ conn' = [conn EXCEPT ![c] = "starting"]
                            /\ Send("start", "connect", c)
    BY <1>4 DEF SendStart
  <2>1. watch[c] = "none"
    BY DEF SessionInv
  <2>2. \A i \in DOMAIN calls' :
          calls'[i].op = "start" => watch[calls'[i].id] = "none"
    BY <1>s, <2>1, NewMessages
  <2> QED  BY <1>4, <1>k, <2>2 DEF SendStart, native
<1>5. ASSUME UNCHANGED <<native, calls>>, NEW c \in Connects, NEW outcome,
             ConnectEnds(c, outcome)
      PROVE  SessionInv'
  BY <1>5, <1>k, <1>q DEF native, ConnectEnds
<1>6. CASE PrepareThrows
  BY <1>5, <1>6 DEF PrepareThrows
<1>7. CASE StopForConnectReturns
  <2>1. Answered \in OnWay /\ Answered.op = "stop" /\ Answered.by = "connect"
    BY <1>7, HandleMoves DEF StopForConnectReturns, Returns, Arrives, native, Answered
  <2>2. conn[Answered.id] = "stopping"
    BY <2>1 DEF AllAwaited, Awaited
  <2> QED  BY <1>7, <1>k, <1>q, <2>2 DEF StopForConnectReturns, native
<1>8. CASE StartReturns
  <2>1. Answered \in OnWay /\ Answered.op = "start" /\ Answered.by = "connect"
    BY <1>8, HandleMoves DEF StartReturns, Returns, Arrives, native, Answered
  <2>a. Answered \in CallSet \cup {NoJob}
    BY <2>1, WayTypes
  <2>2. Answered.id \in Connects
    BY <2>1, <2>a, CallCases DEF NoJob, CallOf
  <2> QED  BY <1>5, <1>8, <2>2 DEF StartReturns
<1>9. CASE \/ StopForDisconnectReturns \/ RelaunchedElevated \/ StopForQuitReturns
           \/ UnexpectedExit \/ ConnectWithoutSource \/ TransientErrorEnds
           \/ UNCHANGED vars
  BY <1>9, <1>k, <1>q DEF StopForDisconnectReturns, RelaunchedElevated,
     StopForQuitReturns, UnexpectedExit, ConnectWithoutSource, TransientErrorEnds,
     native, vars, controller
<1>10. CASE WorkerBegins
  <2>1. /\ DOMAIN calls = 1 .. Len(calls) /\ Len(calls) \in Nat \ {0}
        /\ DOMAIN calls' = 1 .. (Len(calls) - 1)
        /\ \A i \in DOMAIN calls' : calls'[i] = calls[i + 1]
        /\ job' = calls[1]
    BY <1>10, TailAt DEF WorkerBegins
  <2>2. 1 \in DOMAIN calls /\ \A i \in DOMAIN calls' : i + 1 \in DOMAIN calls
    BY <2>1
  <2>3. watch' = watch /\ live' = live /\ state_' = state_ /\ step' = "stop" /\ conn' = conn
    BY <1>10 DEF WorkerBegins, controller
  <2>4. \A i \in DOMAIN calls' :
          calls'[i].op = "start" => watch'[calls'[i].id] = "none"
    BY <2>1, <2>2, <2>3 DEF SessionInv, Unwatched
  <2>5. job'.op = "start" => watch'[job'.id] = "none"
    BY <2>1, <2>2, <2>3 DEF SessionInv, Unwatched
  <2> QED  BY <2>3, <2>4, <2>5 DEF SessionInv, Unwatched
<1>11. CASE WorkerStops
  <2>1. live' = {} /\ watch' = watch /\ conn' = conn /\ calls' = calls
    BY <1>11 DEF WorkerStops, SessionInv, controller
  <2>2. \/ step' = "idle"
        \/ step' = "launch" /\ state_' = job.id /\ job' = job
    BY <1>11 DEF WorkerStops, WorkerAnswers
  <2>3. step = "stop"
    BY <1>11 DEF WorkerStops
  <2> QED  BY <2>1, <2>2, <2>3 DEF SessionInv, Unwatched
<1>12. CASE WorkerLaunches
  <2>1. job = CallOf("start", "connect", job.id) /\ job.id \in Connects
    BY <1>12, CallCases DEF WorkerLaunches
  <2>2. conn[job.id] = "starting"
    BY <1>0, <2>1 DEF AllAwaited, Awaited, CallOf
  <2>3. \A i \in DOMAIN calls : calls[i].op = "start" => calls[i].id # job.id
    <3> TAKE i \in DOMAIN calls
    <3> HAVE calls[i].op = "start"
    <3>1. calls[i] = CallOf("start", "connect", calls[i].id)
      BY CallCases
    <3> QED  BY <2>1, <3>1 DEF OnePlace
  <2>4. watch' = [watch EXCEPT ![job.id] = "watching"] /\ step' = "commit"
        /\ live' = live \cup {job.id} /\ state_ = job.id
        /\ UNCHANGED <<conn, calls, job, state_>>
    BY <1>12 DEF WorkerLaunches, controller, SessionInv
  <2>5. \A c \in Connects : conn'[c] \in {"no", "stopping", "preparing"} => watch'[c] = "none"
    BY <2>2, <2>4 DEF SessionInv
  <2>6. \A i \in DOMAIN calls' :
          calls'[i].op = "start" => watch'[calls'[i].id] = "none"
    <3> TAKE i \in DOMAIN calls'
    <3>1. calls[i].op = "start" => calls[i].id \in Connects /\ calls[i].id # job.id
      BY <2>3, <2>4, CallCases
    <3>2. calls[i].op = "start" => watch[calls[i].id] = "none"
      BY <2>4 DEF SessionInv, Unwatched
    <3> QED  BY <2>4, <3>1, <3>2
  <2>7. /\ \A c \in live' : watch'[c] # "none"
        /\ live' \subseteq {state_'}
    BY <2>1, <2>4 DEF SessionInv
  <2> QED  BY <2>4, <2>5, <2>6, <2>7 DEF SessionInv, Unwatched
<1>13. CASE StartFails
  <2>1. live' = live \ {job.id} /\ state_' = (IF state_ = job.id THEN 0 ELSE state_)
        /\ step' = "idle" /\ UNCHANGED <<calls, watch, conn>>
    BY <1>13 DEF StartFails, WorkerAnswers, controller
  <2> QED  BY <2>1 DEF SessionInv, Unwatched
<1>14. CASE StartSucceeds
  BY <1>14 DEF StartSucceeds, WorkerAnswers, controller, SessionInv, Unwatched
<1>15. CASE CoreDies
  BY <1>15 DEF CoreDies, controller, SessionInv, Unwatched
<1>16. CASE WatcherWakes \/ WatcherReports
  <2> PICK s \in Connects, w \in {"handling", "done"} :
         /\ watch[s] # "none" /\ watch' = [watch EXCEPT ![s] = w]
         /\ \/ state_' = state_
            \/ watch[s] = "watching" /\ s \notin live /\ state_ = s
    BY <1>16 DEF WatcherWakes, WatcherReports
  <2>1. UNCHANGED <<conn, calls, job, step, live>>
    BY <1>16 DEF WatcherWakes, WatcherReports, controller
  <2>2. \A c \in Connects : watch[c] = "none" => watch'[c] = "none"
    OBVIOUS
  <2>3. \A x \in CallSet : Unwatched(x) => Unwatched(x)'
    BY <2>2, CallCases DEF Unwatched
  <2>4. step \in {"stop", "launch"} => Unwatched(job)'
    <3> HAVE step \in {"stop", "launch"}
    <3>1. job \in CallSet /\ job' = job
      BY <2>1
    <3> QED  BY <2>1, <2>3, <3>1 DEF SessionInv, Unwatched
  <2>5. step = "launch" => state_' = job.id
    BY CallCases DEF SessionInv, Unwatched
  <2>6. live \subseteq {state_'}
    BY DEF SessionInv
  <2>7. \A c \in live : watch'[c] # "none"
    BY DEF SessionInv
  <2> QED  BY <2>1, <2>2, <2>3, <2>4, <2>5, <2>6, <2>7 DEF SessionInv
<1> QED
  BY <1>1, <1>2, <1>3, <1>4, <1>6, <1>7, <1>8, <1>9, <1>10, <1>11, <1>12, <1>13,
     <1>14, <1>15, <1>16 DEF Next, User, Handle, Worker

-----------------------------------------------------------------------------
(* Behind the stop of a quit there is no start. *)
NoStartQueued == \A i \in DOMAIN calls : calls[i].op # "start"
NoStartBehind == \A i, j \in DOMAIN calls :
                   calls[i].by = "quit" /\ i < j => calls[j].op # "start"
QuitAnswered  == \E i \in Answers : posts[i].call.by = "quit"

LEMMA QuitStep ==
  TypeOK /\ AllAwaited /\ OnePlace /\ SessionInv /\ QuitInv /\ [Next]_vars => QuitInv'
<1> SUFFICES ASSUME TypeOK, AllAwaited, OnePlace, SessionInv, QuitInv, [Next]_vars,
                    quit' \in {"stopping", "done"}, "quit" \notin odd'
             PROVE  /\ Unstarted' = {}
                    /\ NoStartBehind'
                    /\ job'.by = "quit" => NoStartQueued'
                    /\ quit' = "done" \/ QuitAnswered' =>
                         NoStartQueued' /\ job'.op # "start" /\ live' = {}
  BY DEF QuitInv, NoStartBehind, NoStartQueued, QuitAnswered
<1> USE DEF TypeOK
<1>0. \A x \in OnWay : x.by = "quit" => quit # "no"
  BY DEF AllAwaited, Awaited
<1>1. CASE Connect \/ Disconnect \/ ConnectWithoutSource
  BY <1>1 DEF Connect, Disconnect, ConnectWithoutSource
<1>2. CASE Quit
  <2>1. quit = "no" /\ UNCHANGED <<conn, job, posts, live>> /\ quit' = "stopping"
    BY <1>2 DEF Quit, native
  <2>2. Unstarted' = {}
    BY <1>2 DEF Quit, Note, Unstarted
  <2>3. /\ Len(calls) \in Nat /\ DOMAIN calls = 1 .. Len(calls)
        /\ DOMAIN calls' = 1 .. (Len(calls) + 1)
        /\ \A i \in DOMAIN calls : calls'[i] = calls[i]
    BY <1>2, NewMessages, AppendAt DEF Quit, Send
  <2>4. \A i \in DOMAIN calls : calls[i].by # "quit"
    BY <1>0, <2>1 DEF OnWay
  <2>5. NoStartBehind'
    BY <2>3, <2>4 DEF NoStartBehind
  <2>6. job'.by # "quit"
    BY <1>0, <2>1 DEF OnWay
  <2>7. ~QuitAnswered'
    BY <1>0, <2>1 DEF OnWay, QuitAnswered, Answers
  <2> QED  BY <2>1, <2>2, <2>5, <2>6, <2>7
(* From here on the quit came earlier. *)
<1> DEFINE Before == /\ Unstarted = {} /\ NoStartBehind
                     /\ job.by = "quit" => NoStartQueued
                     /\ quit = "done" \/ QuitAnswered =>
                          NoStartQueued /\ job.op # "start" /\ live = {}
<1>b. ASSUME quit \in {"stopping", "done"}, "quit" \notin odd PROVE Before
  BY <1>b DEF QuitInv, NoStartBehind, NoStartQueued, QuitAnswered
<1>k. ASSUME Before, UNCHANGED <<calls, quit>>, Unstarted' \subseteq Unstarted,
             job' \in {job, NoJob}, live' \subseteq live, QuitAnswered' => QuitAnswered
      PROVE  /\ Unstarted' = {} /\ NoStartBehind'
             /\ job'.by = "quit" => NoStartQueued'
             /\ quit' = "done" \/ QuitAnswered' =>
                  NoStartQueued' /\ job'.op # "start" /\ live' = {}
  BY <1>k DEF NoStartBehind, NoStartQueued, NoJob, CallOf
<1> HIDE DEF Before
<1>t. ASSUME posts # <<>>, posts' = Tail(posts) PROVE QuitAnswered' => QuitAnswered
  <2>1. /\ DOMAIN posts = 1 .. Len(posts) /\ Len(posts) \in Nat \ {0}
        /\ DOMAIN posts' = 1 .. (Len(posts) - 1)
        /\ \A i \in DOMAIN posts' : posts'[i] = posts[i + 1]
    BY <1>t, TailAt
  <2>2. \A i \in Answers' : i + 1 \in Answers /\ posts'[i] = posts[i + 1]
    BY <2>1 DEF Answers
  <2> QED  BY <2>2 DEF QuitAnswered
<1>3. CASE SendStart
  <2>1. Before
    BY <1>3, <1>b DEF SendStart
  <2> QED  BY <1>3, <2>1 DEF SendStart, Unstarted, Before
<1>4. ASSUME NEW c \in Connects, NEW outcome, ConnectEnds(c, outcome),
             UNCHANGED <<calls, native, odd>>, QuitAnswered' => QuitAnswered
      PROVE  /\ Unstarted' = {} /\ NoStartBehind'
             /\ job'.by = "quit" => NoStartQueued'
             /\ quit' = "done" \/ QuitAnswered' =>
                  NoStartQueued' /\ job'.op # "start" /\ live' = {}
  <2>1. Unstarted' \subseteq Unstarted /\ quit' = quit
    BY <1>4 DEF ConnectEnds, Unstarted
  <2>2. Before
    BY <1>4, <1>b, <2>1
  <2> QED  BY <1>4, <1>k, <2>1, <2>2 DEF native
<1>5. CASE PrepareThrows
  <2>1. QuitAnswered' => QuitAnswered
    BY <1>5 DEF PrepareThrows, QuitAnswered, Answers
  <2> QED  BY <1>4, <1>5, <2>1 DEF PrepareThrows
<1>6. CASE StopForConnectReturns
  <2>1. Before
    BY <1>6, <1>b DEF StopForConnectReturns
  <2>2. Answered \in OnWay /\ Answered.op = "stop" /\ Answered.by = "connect"
    BY <1>6, HandleMoves DEF StopForConnectReturns, Returns, Arrives, native, Answered
  <2>3. Answered \in CallSet \cup {NoJob}
    BY <2>2, WayTypes
  <2>4. Answered.id \in Connects
    BY <2>2, <2>3, CallCases DEF NoJob, CallOf
  <2>5. Answered.id \in Unstarted
    BY <2>2, <2>4 DEF AllAwaited, Awaited, Unstarted
  <2> QED  BY <2>1, <2>5 DEF Before
<1>7. CASE StartReturns
  <2>1. Answered \in OnWay /\ Answered.op = "start" /\ Answered.by = "connect"
    BY <1>7, HandleMoves DEF StartReturns, Returns, Arrives, native, Answered
  <2>2. Answered \in CallSet \cup {NoJob}
    BY <2>1, WayTypes
  <2>3. Answered.id \in Connects
    BY <2>1, <2>2, CallCases DEF NoJob, CallOf
  <2>4. QuitAnswered' => QuitAnswered
    BY <1>7, <1>t DEF StartReturns, Returns, Arrives
  <2> QED  BY <1>4, <1>7, <2>3, <2>4 DEF StartReturns
<1>8. CASE StopForDisconnectReturns \/ UnexpectedExit
  <2>1. /\ UNCHANGED <<calls, native, conn, quit>> /\ "quit" \notin odd
        /\ posts # <<>> /\ posts' = Tail(posts)
    BY <1>8 DEF StopForDisconnectReturns, UnexpectedExit, Returns, Arrives
  <2>2. Unstarted' = Unstarted
    BY <2>1 DEF Unstarted
  <2> QED  BY <1>b, <1>k, <1>t, <2>1, <2>2 DEF native
<1>9. CASE StopForQuitReturns
  <2>1. /\ posts # <<>> /\ Head(posts).type = "reply" /\ Answered.by = "quit"
        /\ quit \notin {"done", "relaunched"} /\ posts' = <<>>
        /\ UNCHANGED <<calls, native, conn, odd>>
    BY <1>9 DEF StopForQuitReturns, Returns, Arrives, Gone
  <2>2. 1 \in Answers /\ Head(posts) = posts[1]
    BY <2>1, TailAt DEF Answers
  <2>3. QuitAnswered /\ quit # "no"
    BY <1>0, <2>1, <2>2 DEF QuitAnswered, OnWay, Answered
  <2>4. Before
    BY <1>b, <2>1, <2>3
  <2>5. Unstarted' = Unstarted
    BY <2>1 DEF Unstarted
  <2> QED  BY <2>1, <2>3, <2>4, <2>5 DEF Before, NoStartBehind, NoStartQueued, native
<1>10. CASE RelaunchedElevated
  BY <1>10 DEF RelaunchedElevated
<1>11. CASE WorkerBegins
  <2>1. Before /\ quit' = quit
    BY <1>11, <1>b DEF WorkerBegins, controller
  <2>2. /\ DOMAIN calls = 1 .. Len(calls) /\ Len(calls) \in Nat \ {0}
        /\ DOMAIN calls' = 1 .. (Len(calls) - 1)
        /\ \A i \in DOMAIN calls' : calls'[i] = calls[i + 1]
        /\ job' = calls[1]
    BY <1>11, TailAt DEF WorkerBegins
  <2>3. 1 \in DOMAIN calls
        /\ \A i \in DOMAIN calls' : i + 1 \in DOMAIN calls /\ 1 < i + 1
    BY <2>2
  <2>4. Unstarted' = {} /\ live' = live /\ (QuitAnswered' => QuitAnswered)
    BY <1>11, <2>1 DEF WorkerBegins, controller, Unstarted, QuitAnswered, Answers, Before
  <2>5. NoStartBehind'
    <3> SUFFICES ASSUME NEW i \in DOMAIN calls', NEW j \in DOMAIN calls',
                        calls'[i].by = "quit", i < j
                 PROVE  calls'[j].op # "start"
      BY DEF NoStartBehind
    <3>1. i + 1 < j + 1
      BY <2>2
    <3> QED  BY <2>1, <2>2, <2>3, <3>1 DEF Before, NoStartBehind
  <2>6. job'.by = "quit" => NoStartQueued'
    BY <2>1, <2>2, <2>3 DEF Before, NoStartBehind, NoStartQueued
  <2>7. NoStartQueued => NoStartQueued' /\ job'.op # "start"
    BY <2>2, <2>3 DEF NoStartQueued
  <2> QED  BY <2>1, <2>4, <2>5, <2>6, <2>7 DEF Before
(* An answer of the worker is one to the quit only if the quit was its job. *)
<1>12. ASSUME NEW result \in Results, step # "idle", WorkerAnswers(result)
       PROVE  QuitAnswered' => QuitAnswered \/ job.by = "quit"
  <2>1. CASE Gone
    BY <1>12, <2>1 DEF WorkerAnswers, Post, QuitAnswered, Answers
  <2>2. CASE ~Gone
    <3>1. Reply(job, result) \in Messages
      BY <1>12, NewMessages
    <3>2. /\ Len(posts) \in Nat /\ DOMAIN posts = 1 .. Len(posts)
          /\ DOMAIN posts' = 1 .. (Len(posts) + 1)
          /\ \A i \in DOMAIN posts : posts'[i] = posts[i]
          /\ posts'[Len(posts) + 1] = Reply(job, result)
      BY <1>12, <2>2, <3>1, AppendAt DEF WorkerAnswers, Post
    <3>3. \A i \in Answers' : \/ i \in Answers /\ posts'[i].call = posts[i].call
                              \/ posts'[i].call = job
      BY <3>2 DEF Answers, Reply
    <3> QED  BY <3>3 DEF QuitAnswered
  <2> QED  BY <2>1, <2>2
<1>13. CASE WorkerStops
  <2>1. Before /\ UNCHANGED <<conn, calls, quit>> /\ live' = {}
    BY <1>13, <1>b DEF WorkerStops, controller, SessionInv
  <2>2. Unstarted' = {}
    BY <2>1 DEF Unstarted, Before
  <2>3. CASE job.op = "stop"
    <3>1. job' = NoJob /\ (QuitAnswered' => QuitAnswered \/ job.by = "quit")
      BY <1>12, <1>13, <2>3 DEF WorkerStops, WorkerAnswers, Results
    <3> QED  BY <2>1, <2>2, <3>1 DEF Before, NoStartBehind, NoStartQueued, NoJob, CallOf
  <2>4. CASE job.op # "stop"
    <3>1. job' = job /\ posts' = posts
      BY <1>13, <2>4 DEF WorkerStops
    <3>2. QuitAnswered' = QuitAnswered
      BY <3>1 DEF QuitAnswered, Answers
    <3> QED  BY <2>1, <2>2, <3>1, <3>2 DEF Before, NoStartBehind, NoStartQueued
  <2> QED  BY <2>3, <2>4
<1>14. CASE WorkerLaunches
  <2>1. Before /\ UNCHANGED <<conn, calls, quit, job, posts>> /\ job.op = "start"
    BY <1>14, <1>b DEF WorkerLaunches, controller
  <2>2. Unstarted' = {} /\ QuitAnswered' = QuitAnswered
    BY <2>1 DEF Unstarted, Before, QuitAnswered, Answers
  <2> QED  BY <2>1, <2>2 DEF Before, NoStartBehind, NoStartQueued
<1>15. CASE StartFails \/ StartSucceeds
  <2> PICK result \in Results : WorkerAnswers(result)
    BY <1>15 DEF StartFails, StartSucceeds, Results
  <2>1. /\ Before /\ UNCHANGED <<conn, calls, quit>> /\ job' = NoJob
        /\ live' \subseteq live /\ step # "idle" /\ job.op = "start"
    BY <1>15, <1>b DEF StartFails, StartSucceeds, controller, WorkerAnswers
  <2>2. job.by # "quit"
    BY <2>1, CallCases
  <2>3. QuitAnswered' => QuitAnswered
    BY <1>12, <2>1, <2>2
  <2>4. Unstarted' = Unstarted
    BY <2>1 DEF Unstarted
  <2> QED  BY <1>k, <2>1, <2>3, <2>4
<1>16. CASE CoreDies \/ WatcherWakes \/ TransientErrorEnds \/ UNCHANGED vars
  <2>1. /\ Before /\ UNCHANGED <<conn, calls, quit, job, posts>>
        /\ live' \subseteq live
    BY <1>16, <1>b DEF CoreDies, WatcherWakes, TransientErrorEnds, vars, controller, native
  <2>2. Unstarted' = Unstarted /\ QuitAnswered' = QuitAnswered
    BY <2>1 DEF Unstarted, QuitAnswered, Answers
  <2> QED  BY <1>k, <2>1, <2>2
<1>17. CASE WatcherReports
  <2> PICK s \in Connects : Post(ExitEvent(s))
    BY <1>17 DEF WatcherReports
  <2>1. Before /\ UNCHANGED <<conn, calls, quit, job, live>>
    BY <1>17, <1>b DEF WatcherReports, controller
  <2>2. QuitAnswered' => QuitAnswered
    <3>1. CASE Gone
      BY <3>1 DEF Post, QuitAnswered, Answers
    <3>2. CASE ~Gone
      <4>1. /\ Len(posts) \in Nat /\ DOMAIN posts = 1 .. Len(posts)
            /\ DOMAIN posts' = 1 .. (Len(posts) + 1)
            /\ \A i \in DOMAIN posts : posts'[i] = posts[i]
            /\ posts'[Len(posts) + 1] = ExitEvent(s)
        BY <3>2, NewMessages, AppendAt DEF Post
      <4> QED  BY <4>1 DEF QuitAnswered, Answers, ExitEvent
    <3> QED  BY <3>1, <3>2
  <2>3. Unstarted' = Unstarted
    BY <2>1 DEF Unstarted
  <2> QED  BY <1>k, <2>1, <2>2, <2>3
<1> QED
  BY <1>1, <1>2, <1>3, <1>5, <1>6, <1>7, <1>8, <1>9, <1>10, <1>11, <1>13, <1>14,
     <1>15, <1>16, <1>17 DEF Next, User, Handle, Worker

-----------------------------------------------------------------------------
(* A disconnect holds what it has taken. *)
LEMMA OwnStep ==
  TypeOK /\ AllAwaited /\ OnePlace /\ OwnInv /\ [Next]_vars => OwnInv'
<1> SUFFICES ASSUME TypeOK, AllAwaited, OnePlace, OwnInv, [Next]_vars,
                    "twice" \notin odd'
             PROVE  /\ \A d, e \in Leaving' : d = e
                    /\ ~Gone' => \A d \in Leaving' :
                         waits'[d] # 0 => phase' = "disconnecting" /\ cancelled'
  BY DEF OwnInv
<1> USE DEF TypeOK
<1>k. ASSUME "twice" \notin odd, Leaving' \subseteq Leaving, waits' = waits,
             Gone' \/ ~Gone,
             phase = "disconnecting" => phase' = "disconnecting" \/ Gone' \/ Leaving' = {},
             cancelled => cancelled'
      PROVE  /\ \A d, e \in Leaving' : d = e
             /\ ~Gone' => \A d \in Leaving' :
                  waits'[d] # 0 => phase' = "disconnecting" /\ cancelled'
  BY <1>k DEF OwnInv
<1>1. CASE Connect
  <2>1. "twice" \notin odd /\ phase # "disconnecting" /\ ~Gone
        /\ Leaving' = Leaving /\ waits' = waits
    BY <1>1 DEF Connect, Note, Busy, Gone, Leaving
  <2> QED  BY <2>1 DEF OwnInv
<1>2. CASE Disconnect
  <2> PICK d \in Disconnects : /\ disc' = [disc EXCEPT ![d] = "stopping"]
                               /\ waits' = [waits EXCEPT ![d] = pending]
    BY <1>2 DEF Disconnect
  <2>1. Leaving = {} /\ phase' = "disconnecting" /\ cancelled' = (cancelled \/ pending # 0)
    BY <1>2 DEF Disconnect, Note
  <2>2. \A e \in Leaving' : e = d
    BY <2>1 DEF Leaving
  <2> QED  BY <2>1, <2>2
<1>3. CASE Quit
  BY <1>3, <1>k DEF Quit, Note, Gone, Leaving
<1>4. ASSUME NEW c \in Connects, NEW outcome, ConnectEnds(c, outcome), ~Gone,
             UNCHANGED odd
      PROVE  /\ \A d, e \in Leaving' : d = e
             /\ ~Gone' => \A d \in Leaving' :
                  waits'[d] # 0 => phase' = "disconnecting" /\ cancelled'
  <2>1. UNCHANGED <<waits, cancelled, quit>> /\ Leaving' \subseteq Leaving \ Waiting(c)
    BY <1>4 DEF ConnectEnds, Leaving, Waiting
  <2>2. \A d, e \in Leaving : d = e
    BY <1>4 DEF OwnInv
  <2>3. ASSUME NEW d \in Leaving', waits[d] # 0
        PROVE  phase' = "disconnecting" /\ cancelled'
    <3>1. d \in Leaving /\ phase = "disconnecting" /\ cancelled
      BY <1>4, <2>1, <2>3 DEF OwnInv
    <3>2. Waiting(c) \subseteq Leaving
      BY DEF Waiting, Leaving
    <3>3. Waiting(c) = {}
      BY <2>1, <2>2, <2>3, <3>1, <3>2
    <3> QED  BY <1>4, <3>1, <3>3 DEF ConnectEnds
  <2> QED  BY <2>1, <2>2, <2>3
<1>5. CASE PrepareThrows
  BY <1>4, <1>5 DEF PrepareThrows
<1>6. CASE StartReturns
  <2>1. Answered \in OnWay /\ Answered.op = "start" /\ Answered.by = "connect"
    BY <1>6, HandleMoves DEF StartReturns, Returns, Arrives, native, Answered
  <2>2. Answered \in CallSet \cup {NoJob}
    BY <2>1, WayTypes
  <2>3. Answered.id \in Connects
    BY <2>1, <2>2, CallCases DEF NoJob, CallOf
  <2> QED  BY <1>4, <1>6, <2>3 DEF StartReturns, Returns, Arrives
<1>7. CASE StopForDisconnectReturns
  <2>1. Answered \in OnWay /\ Answered.op = "stop" /\ Answered.by = "disconnect"
    BY <1>7, HandleMoves DEF StopForDisconnectReturns, Returns, Arrives, native, Answered
  <2>2. Answered \in CallSet \cup {NoJob}
    BY <2>1, WayTypes
  <2> DEFINE d == Answered.id
  <2>3. d \in Leaving
    BY <2>1, <2>2, CallCases DEF NoJob, CallOf, AllAwaited, Awaited, Leaving
  <2>4. "twice" \notin odd /\ Leaving = {d} /\ UNCHANGED <<waits, cancelled, quit>> /\ ~Gone
    BY <1>7, <2>3 DEF StopForDisconnectReturns, Returns, Arrives, OwnInv
  <2>5. \/ disc' = [disc EXCEPT ![d] = "waiting"] /\ phase' = phase
        \/ disc' = [disc EXCEPT ![d] = "ended"]
    BY <1>7 DEF StopForDisconnectReturns
  <2> HIDE DEF d
  <2>6. CASE disc' = [disc EXCEPT ![d] = "waiting"] /\ phase' = phase
    <3>1. Leaving' \subseteq Leaving
      BY <2>3, <2>6 DEF Leaving
    <3> QED  BY <1>k, <2>4, <2>6, <3>1
  <2>7. CASE disc' = [disc EXCEPT ![d] = "ended"]
    <3>1. Leaving' = {}
      BY <2>3, <2>4, <2>7 DEF Leaving
    <3> QED  BY <3>1
  <2> QED  BY <2>5, <2>6, <2>7
<1>8. CASE RelaunchedElevated \/ StopForQuitReturns
  <2>1. Gone' /\ disc' = disc /\ "twice" \notin odd
    BY <1>8 DEF RelaunchedElevated, StopForQuitReturns, Gone
  <2>2. Leaving' = Leaving
    BY <2>1 DEF Leaving
  <2> QED  BY <2>1, <2>2 DEF OwnInv
<1>9. CASE \/ ConnectWithoutSource \/ TransientErrorEnds \/ StopForConnectReturns
           \/ UnexpectedExit \/ SendStart
  <2>1. /\ "twice" \notin odd /\ disc' = disc /\ waits' = waits /\ quit' = quit
        /\ cancelled' = cancelled
        /\ phase = "disconnecting" => phase' = "disconnecting"
    BY <1>9 DEF ConnectWithoutSource, TransientErrorEnds, StopForConnectReturns,
       UnexpectedExit, SendStart, Busy
  <2>2. Leaving' = Leaving /\ Gone' = Gone
    BY <2>1 DEF Leaving, Gone
  <2> QED  BY <1>k, <2>1, <2>2
<1>10. CASE Worker \/ CoreDies \/ WatcherWakes \/ WatcherReports \/ UNCHANGED vars
  <2>1. UNCHANGED <<controller, odd>>
    BY <1>10 DEF Worker, WorkerBegins, WorkerStops, WorkerLaunches, StartFails,
       StartSucceeds, CoreDies, WatcherWakes, WatcherReports, vars
  <2>2. Leaving' = Leaving /\ Gone' = Gone
    BY <2>1 DEF controller, Leaving, Gone
  <2> QED  BY <1>k, <2>1, <2>2 DEF controller
<1> QED
  BY <1>1, <1>2, <1>3, <1>5, <1>6, <1>7, <1>8, <1>9, <1>10 DEF Next, User, Handle

-----------------------------------------------------------------------------
LEMMA IInvInit == Init => IInv
<1> SUFFICES ASSUME Init PROVE IInv
  OBVIOUS
<1> USE DEF Init
<1>1. Answers = {} /\ DOMAIN calls = {}
  BY DEF Answers
<1>2. TypeOK
  <2>1. 0 \in 0 .. MaxConnects
    BY MaxConnectsAssumption
  <2>2. calls \in Seq(CallSet) /\ posts \in Seq(Messages)
    OBVIOUS
  <2>3. /\ conn \in [Connects -> {"no", "stopping", "preparing", "starting", "ended"}]
        /\ disc \in [Disconnects -> {"no", "stopping", "waiting", "ended"}]
        /\ watch \in [Connects -> {"none", "watching", "handling", "done"}]
    OBVIOUS
  <2>4. waits \in [Disconnects -> 0 .. MaxConnects]
    BY <2>1
  <2> QED  BY <2>1, <2>2, <2>3, <2>4 DEF TypeOK, Phases, Steps
<1>3. OnWay = {NoJob}
  BY <1>1 DEF OnWay
<1>4. AllAwaited
  BY <1>3 DEF AllAwaited, Awaited, NoJob, CallOf
<1>5. OnePlace
  BY <1>1 DEF OnePlace
<1>6. SessionInv
  BY <1>1 DEF SessionInv, Unwatched
<1>7. QuitInv
  BY DEF QuitInv
<1>8. Leaving = {}
  BY DEF Leaving
<1> QED  BY <1>2, <1>4, <1>5, <1>6, <1>7, <1>8 DEF IInv, OwnInv

LEMMA IInvStep == IInv /\ [Next]_vars => IInv'
  BY TypeStep, WayStep, SessionStep, QuitStep, OwnStep DEF IInv

(* The inductive invariant holds in every reachable state. *)
THEOREM SessionInvariant == Spec => []IInv
  BY IInvInit, IInvStep, PTL DEF Spec

(* Quitting the app leaves no core behind, however many calls are under way, *)
(* unless a connect has yet to send its start (shutdownForExit).             *)
THEOREM QuitSafe == Spec => []QuitLeavesNoCore
<1>1. IInv => QuitLeavesNoCore
  BY DEF IInv, QuitInv, QuitLeavesNoCore
<1> QED  BY <1>1, SessionInvariant, PTL

(* A disconnect owns the outcome of the connect it has cancelled: nothing    *)
(* else writes the phase until it ends (disconnect, connect).                *)
THEOREM OutcomeOwned == Spec => DisconnectOwnsOutcome
<1> DEFINE Owned ==
      \A d \in Leaving :
        waits[d] # 0 /\ "twice" \notin odd /\ ~Gone =>
          \/ phase' = "disconnecting"
          \/ phase' = "disconnected" /\ (disc'[d] = "ended" \/ quit' = "done")
<1>1. IInv /\ IInv' /\ [Next]_vars => [Owned]_vars
  <2> SUFFICES ASSUME IInv, [Next]_vars, IInv', NEW d \in Leaving,
                      waits[d] # 0, "twice" \notin odd, ~Gone
               PROVE  \/ phase' = "disconnecting"
                      \/ phase' = "disconnected" /\ (disc'[d] = "ended" \/ quit' = "done")
    OBVIOUS
  <2>1. phase = "disconnecting" /\ cancelled /\ Leaving = {d}
    BY DEF IInv, OwnInv
  <2>2. ASSUME NEW c \in Connects, NEW outcome, ConnectEnds(c, outcome)
        PROVE  \/ phase' = "disconnecting"
               \/ phase' = "disconnected" /\ disc'[d] = "ended"
    <3>1. Waiting(c) \subseteq Leaving
      BY DEF Waiting, Leaving
    <3>2. d \in Disconnects
      BY DEF Leaving
    <3> QED  BY <2>1, <2>2, <3>1, <3>2 DEF ConnectEnds
  <2>3. CASE PrepareThrows
    BY <2>2, <2>3 DEF PrepareThrows
  <2>4. ASSUME Returns("start", "connect") \/ Returns("stop", "disconnect"),
               posts' = Tail(posts), UNCHANGED <<calls, native>>
        PROVE  /\ Answered \in OnWay /\ Answered \in CallSet
               /\ Answered.by = "connect" => Answered.id \in Connects
               /\ Answered.by = "disconnect" => Answered.id \in Leaving
    <3>1. Answered \in OnWay /\ Answered.by # "none"
      BY <2>4, HandleMoves DEF Returns, Arrives, native, Answered, IInv
    <3>2. Answered \in CallSet
      BY <3>1, WayTypes DEF NoJob, CallOf, IInv
    <3> QED  BY <3>1, <3>2, CallCases DEF IInv, AllAwaited, Awaited, Leaving
  <2>5. CASE StartReturns
    BY <2>2, <2>4, <2>5 DEF StartReturns, Returns
  <2>6. CASE StopForDisconnectReturns
    <3>1. Answered.id = d
      BY <2>1, <2>4, <2>6 DEF StopForDisconnectReturns, Returns
    <3>2. disc \in [Disconnects -> {"no", "stopping", "waiting", "ended"}] /\ d \in Disconnects
      BY DEF IInv, TypeOK, Leaving
    <3> QED  BY <2>1, <2>6, <3>1, <3>2 DEF StopForDisconnectReturns
  <2>7. CASE StopForQuitReturns
    BY <2>7 DEF StopForQuitReturns
  <2>8. CASE Connect \/ Disconnect \/ ConnectWithoutSource \/ TransientErrorEnds
    BY <2>1, <2>8 DEF Connect, Disconnect, ConnectWithoutSource, TransientErrorEnds, Busy
  <2>9. CASE \/ Quit \/ SendStart \/ StopForConnectReturns \/ RelaunchedElevated
             \/ UnexpectedExit
    BY <2>1, <2>9 DEF Quit, SendStart, StopForConnectReturns, RelaunchedElevated,
       UnexpectedExit
  <2>10. CASE Worker \/ CoreDies \/ WatcherWakes \/ WatcherReports \/ UNCHANGED vars
    BY <2>1, <2>10 DEF Worker, WorkerBegins, WorkerStops, WorkerLaunches, StartFails,
       StartSucceeds, CoreDies, WatcherWakes, WatcherReports, vars, controller
  <2> QED
    BY <2>3, <2>5, <2>6, <2>7, <2>8, <2>9, <2>10 DEF Next, User, Handle
<1>2. IInv /\ [Next]_vars => [Owned]_vars
  BY <1>1, IInvStep
<1> QED  BY <1>2, SessionInvariant, PTL DEF Spec, DisconnectOwnsOutcome

-----------------------------------------------------------------------------
(* What the app shows.  The messages on their way to the Dart thread, the    *)
(* last of them, and whether the native side has something left to do: a     *)
(* call, the report of a core that died, or such a core to be noticed.       *)
Posted == {posts[i] : i \in DOMAIN posts}
Last   == posts[Len(posts)]
Stirs  == \/ step # "idle" \/ calls # <<>>
          \/ \E s \in Connects : \/ watch[s] = "handling"
                                 \/ watch[s] = "watching" /\ state_ = s

IsAnswerOf(m, result) ==
  m.type = "reply" /\ m.call.op = "start" /\ m.result = result

(* A core that runs is watched; its exit event comes when its watcher has    *)
(* finished, and a start that was answered otherwise than ok left no core.   *)
CoreInv ==
  /\ \A c \in live : watch[c] = "watching"
  /\ \A m \in Posted : m.type = "exit" => watch[m.session] = "done"
  /\ \A m \in Posted : m.type = "reply" /\ m.call.op = "start" /\ m.result # "ok"
                         => m.call.id \notin live

(* Connects begin in order.  Without the order "overlap" only the newest one *)
(* is waiting, and no session is newer than the current one.                 *)
OrderInv ==
  /\ \A c \in Begun : \A e \in Connects : e < c => e \in Begun
  /\ "overlap" \notin odd =>
       /\ \A c \in InFlight : \A e \in Begun : e <= c
       /\ state_ # 0 => \A c \in Connects : c > state_ => watch[c] = "none"

(* Without that order, too, connects and disconnects take turns: none        *)
(* cancels another, and the phase tells which of them is waiting.            *)
CalmInv ==
  "overlap" \notin odd /\ quit = "no" =>
    /\ InFlight # {} => phase \notin {"connected", "disconnecting"}
    /\ Leaving # {} => phase = "disconnecting"
    /\ \A d, e \in Leaving : d = e
    /\ ~cancelled
    /\ pending # 0 => pending \in InFlight
    /\ \A d \in Disconnects : waits[d] = 0 /\ disc[d] # "waiting"

(* A core whose connect has ended is shown, or its stop is under way. *)
StopUnderway == job.op = "stop" \/ (\E i \in DOMAIN calls : calls[i].op = "stop")
ShownInv ==
  odd \cap {"late", "overlap"} = {} /\ quit = "no" =>
    \A s \in live : conn[s] = "ended" =>
      \/ phase = "connected"
      \/ phase = "disconnecting" /\ StopUnderway

(* "connected" stands over a core that runs, or something is on its way that *)
(* will change it; an answer ok that comes last is about a core that runs or *)
(* whose exit event is in front of it, and the same holds while the worker   *)
(* is about to give the answer.                                              *)
TrueInv ==
  /\ cancelled => phase # "connected"
  /\ "early" \notin odd /\ quit = "no" =>
       /\ phase = "connected" => Stirs \/ InFlight # {} \/ posts # <<>>
       /\ posts # <<>> /\ IsAnswerOf(Last, "ok") =>
            Stirs \/ ExitEvent(Last.call.id) \in Posted
       /\ step = "commit" =>
            \/ watch[job.id] = "handling"
            \/ watch[job.id] = "watching" /\ state_ = job.id
            \/ ExitEvent(job.id) \in Posted

-----------------------------------------------------------------------------
LEMMA TailPosts ==
  ASSUME TypeOK, posts # <<>>, posts' = Tail(posts)
  PROVE  /\ Head(posts) \in Posted /\ Posted' \subseteq Posted
         /\ Posted \subseteq Posted' \cup {Head(posts)}
         /\ posts' # <<>> => Last' = Last
         /\ posts' = <<>> => Last = Head(posts)
<1>1. /\ Tail(posts) \in Seq(Messages)
      /\ Len(posts) \in Nat \ {0} /\ DOMAIN posts = 1 .. Len(posts)
      /\ DOMAIN Tail(posts) = 1 .. (Len(posts) - 1)
      /\ Len(Tail(posts)) = Len(posts) - 1
      /\ \A i \in DOMAIN Tail(posts) : Tail(posts)[i] = posts[i + 1]
      /\ Head(posts) = posts[1]
  BY TailAt DEF TypeOK
<1>2. Head(posts) \in Posted
  BY <1>1 DEF Posted
<1>3. Posted' \subseteq Posted
  <2> SUFFICES ASSUME NEW i \in DOMAIN posts' PROVE posts'[i] \in Posted
    BY DEF Posted
  <2>1. i + 1 \in DOMAIN posts /\ posts'[i] = posts[i + 1]
    BY <1>1
  <2> QED  BY <2>1 DEF Posted
<1>4. Posted \subseteq Posted' \cup {Head(posts)}
  <2> SUFFICES ASSUME NEW i \in DOMAIN posts, i # 1 PROVE posts[i] \in Posted'
    BY <1>1 DEF Posted
  <2>1. i - 1 \in DOMAIN posts' /\ posts'[i - 1] = posts[i]
    BY <1>1
  <2> QED  BY <2>1 DEF Posted
<1>5. ASSUME posts' # <<>> PROVE Last' = Last
  <2>1. Len(posts) - 1 # 0
    BY <1>1, <1>5
  <2>2. Len(posts) - 1 \in DOMAIN Tail(posts)
    BY <1>1, <2>1
  <2> QED  BY <1>1, <2>2 DEF Last
<1>6. ASSUME posts' = <<>> PROVE Last = Head(posts)
  <2>a. DOMAIN posts' = {}
    BY <1>6
  <2>b. DOMAIN posts' = 1 .. (Len(posts) - 1)
    BY <1>1
  <2>1. Len(posts) = 1
    <3> SUFFICES ASSUME Len(posts) # 1 PROVE FALSE
      OBVIOUS
    <3>1. 1 \in 1 .. (Len(posts) - 1)
      BY <1>1
    <3> QED  BY <2>a, <2>b, <3>1
  <2> QED  BY <1>1, <2>1 DEF Last
<1> QED  BY <1>2, <1>3, <1>4, <1>5, <1>6

LEMMA PostPosts ==
  ASSUME TypeOK, NEW m \in Messages, Post(m)
  PROVE  /\ Posted' \subseteq Posted \cup {m}
         /\ ~Gone => Posted' = Posted \cup {m} /\ posts' # <<>> /\ Last' = m
         /\ Gone => posts' = posts
<1>1. CASE Gone
  <2>1. posts' = posts
    BY <1>1 DEF Post
  <2>2. Posted' = Posted
    BY <2>1 DEF Posted
  <2> QED  BY <1>1, <2>1, <2>2
<1>2. CASE ~Gone
  <2>1. /\ Len(posts) \in Nat /\ DOMAIN posts = 1 .. Len(posts)
        /\ DOMAIN posts' = 1 .. (Len(posts) + 1) /\ Len(posts') = Len(posts) + 1
        /\ \A i \in DOMAIN posts : posts'[i] = posts[i]
        /\ posts'[Len(posts) + 1] = m
    BY <1>2, AppendAt DEF Post, TypeOK
  <2>2. \A i \in DOMAIN posts' : i \in DOMAIN posts \/ i = Len(posts) + 1
    BY <2>1
  <2>3. DOMAIN posts \subseteq DOMAIN posts' /\ Len(posts) + 1 \in DOMAIN posts'
    BY <2>1
  <2>4. Posted' \subseteq Posted \cup {m}
    BY <2>1, <2>2 DEF Posted
  <2>5. Posted \cup {m} \subseteq Posted'
    BY <2>1, <2>3 DEF Posted
  <2>6. Last' = m
    BY <2>1 DEF Last
  <2>7. posts' # <<>>
    BY <2>3
  <2> QED  BY <1>2, <2>4, <2>5, <2>6, <2>7
<1> QED  BY <1>1, <1>2

LEMMA PostedCases ==
  ASSUME TypeOK, AllAwaited, OnePlace, NEW m \in Posted
  PROVE  \/ /\ m.type = "reply" /\ m.call \in CallSet /\ m.result \in Results
            /\ m.call \in OnWay /\ m.call # job
         \/ m.type = "exit" /\ m.session \in Connects
<1>1. PICK i \in DOMAIN posts : m = posts[i]
  BY DEF Posted
<1>2. m \in Messages
  BY <1>1 DEF TypeOK
<1>3. m.type = "reply" => i \in Answers
  BY <1>1 DEF Answers
<1> QED  BY <1>1, <1>2, <1>3, MessageCases DEF OnWay, OnePlace

(* Where the caller of a call on its way is. *)
LEMMA WayCases ==
  ASSUME TypeOK, AllAwaited, NEW x \in OnWay
  PROVE  \/ x = NoJob
         \/ x = CallOf("stop", "connect", x.id) /\ x.id \in Connects /\ conn[x.id] = "stopping"
         \/ x = CallOf("start", "connect", x.id) /\ x.id \in Connects /\ conn[x.id] = "starting"
         \/ x = CallOf("stop", "disconnect", x.id) /\ x.id \in Disconnects /\ disc[x.id] = "stopping"
         \/ x = CallOf("stop", "quit", x.id) /\ x.id = 0 /\ quit # "no"
  BY WayTypes, CallCases DEF AllAwaited, Awaited

LEMMA JobCases ==
  ASSUME TypeOK, AllAwaited, step # "idle", job.op # "stop"
  PROVE  job = CallOf("start", "connect", job.id) /\ job.id \in Connects /\ conn[job.id] = "starting"
<1>1. job \in OnWay /\ job \in CallSet
  BY DEF OnWay, TypeOK
<1> QED  BY <1>1, WayCases, CallCases DEF CallOf, NoJob

(* The order of events is only ever added to, and a quit is not undone. *)
LEMMA OddGrows ==
  [Next]_vars => odd \subseteq odd' /\ (quit' = "no" => quit = "no")
<1> SUFFICES ASSUME [Next]_vars
             PROVE  odd \subseteq odd' /\ (quit' = "no" => quit = "no")
  OBVIOUS
<1>1. CASE Connect \/ Disconnect \/ Quit \/ UnexpectedExit
  BY <1>1 DEF Connect, Disconnect, Quit, UnexpectedExit, Note
<1>2. CASE \/ ConnectWithoutSource \/ TransientErrorEnds \/ SendStart \/ PrepareThrows
           \/ StopForConnectReturns \/ StartReturns \/ RelaunchedElevated
           \/ StopForDisconnectReturns \/ StopForQuitReturns
  BY <1>2 DEF ConnectWithoutSource, TransientErrorEnds, SendStart, PrepareThrows,
     StopForConnectReturns, StartReturns, RelaunchedElevated,
     StopForDisconnectReturns, StopForQuitReturns, ConnectEnds
<1>3. CASE Worker \/ CoreDies \/ WatcherWakes \/ WatcherReports \/ UNCHANGED vars
  BY <1>3 DEF Worker, WorkerBegins, WorkerStops, WorkerLaunches, StartFails,
     StartSucceeds, CoreDies, WatcherWakes, WatcherReports, vars, controller
<1> QED  BY <1>1, <1>2, <1>3 DEF Next, User, Handle

(* The message a handler takes. *)
LEMMA HandleTakes ==
  ASSUME TypeOK, AllAwaited, NEW op, NEW by, Returns(op, by)
  PROVE  /\ posts # <<>> /\ Head(posts).type = "reply" /\ Head(posts) \in Posted
         /\ Answered \in OnWay /\ Answered.op = op /\ Answered.by = by
<1>1. posts # <<>> /\ Head(posts).type = "reply" /\ Answered.op = op /\ Answered.by = by
  BY DEF Returns, Arrives
<1>2. 1 \in DOMAIN posts /\ Head(posts) = posts[1]
  BY <1>1, TailAt DEF TypeOK
<1> QED  BY <1>1, <1>2 DEF Posted, OnWay, Answers, Answered

-----------------------------------------------------------------------------
LEMMA CoreStep ==
  TypeOK /\ AllAwaited /\ OnePlace /\ SessionInv /\ CoreInv /\ [Next]_vars => CoreInv'
<1> SUFFICES ASSUME TypeOK, AllAwaited, OnePlace, SessionInv, CoreInv, [Next]_vars
             PROVE  CoreInv'
  OBVIOUS
<1> USE DEF TypeOK
<1>k. ASSUME UNCHANGED watch, live' \subseteq live, Posted' \subseteq Posted
      PROVE  CoreInv'
  BY <1>k DEF CoreInv
<1>1. CASE \/ Connect \/ ConnectWithoutSource \/ Disconnect \/ Quit
           \/ TransientErrorEnds \/ SendStart \/ PrepareThrows
           \/ WorkerBegins \/ CoreDies \/ UNCHANGED vars
  <2>1. watch' = watch /\ posts' = posts /\ live' \subseteq live
    BY <1>1 DEF Connect, ConnectWithoutSource, Disconnect, Quit, TransientErrorEnds,
       SendStart, PrepareThrows, WorkerBegins, CoreDies, vars, native
  <2> QED  BY <1>k, <2>1 DEF Posted
<1>2. CASE Handle
  <2>1. /\ watch' = watch /\ live' = live
        /\ \/ posts' = <<>>
           \/ posts # <<>> /\ posts' = Tail(posts)
    <3>1. CASE \/ StopForConnectReturns \/ StartReturns \/ StopForDisconnectReturns
               \/ UnexpectedExit
      BY <3>1 DEF StopForConnectReturns, StartReturns, StopForDisconnectReturns,
         UnexpectedExit, Returns, Arrives, native
    <3>2. CASE RelaunchedElevated \/ StopForQuitReturns
      <4>1. posts' = <<>>
        BY <3>2 DEF RelaunchedElevated, StopForQuitReturns
      <4>2. watch' = watch /\ live' = live
        BY <3>2 DEF RelaunchedElevated, StopForQuitReturns, native
      <4> QED  BY <4>1, <4>2
    <3> QED  BY <1>2, <3>1, <3>2 DEF Handle
  <2>2. CASE posts' = <<>>
    BY <1>k, <2>1, <2>2 DEF Posted
  <2>3. CASE posts # <<>> /\ posts' = Tail(posts)
    BY <1>k, <2>1, <2>3, TailPosts
  <2> QED  BY <2>1, <2>2, <2>3
(* An answer other than ok is to a start whose core has been stopped. *)
<1>3. ASSUME NEW result \in Results, WorkerAnswers(result), step # "idle",
             watch' = watch, live' \subseteq live,
             result = "ok" \/ job.id \notin live'
      PROVE  CoreInv'
  <2>1. Reply(job, result) \in Messages /\ Post(Reply(job, result))
    BY <1>3, NewMessages DEF WorkerAnswers
  <2>2. Posted' \subseteq Posted \cup {Reply(job, result)}
    BY <2>1, PostPosts
  <2> QED  BY <1>3, <2>2 DEF CoreInv, Reply
<1>4. CASE WorkerStops
  <2>1. live' = {} /\ watch' = watch
    BY <1>4 DEF WorkerStops, SessionInv
  <2>2. CASE job.op = "stop"
    BY <1>3, <1>4, <2>1, <2>2 DEF WorkerStops, Results
  <2>3. CASE job.op # "stop"
    <3>1. posts' = posts
      BY <1>4, <2>3 DEF WorkerStops
    <3> QED  BY <1>k, <2>1, <3>1 DEF Posted
  <2> QED  BY <2>2, <2>3
<1>5. CASE WorkerLaunches
  <2>1. job = CallOf("start", "connect", job.id) /\ job.id \in Connects
    BY <1>5, JobCases DEF WorkerLaunches
  <2>2. watch[job.id] = "none"
    BY <1>5, <2>1 DEF WorkerLaunches, SessionInv, Unwatched, CallOf
  <2>3. \A m \in Posted : m.type = "reply" /\ m.call.op = "start" => m.call.id # job.id
    <3> TAKE m \in Posted
    <3> HAVE m.type = "reply" /\ m.call.op = "start"
    <3>1. m.call \in CallSet /\ m.call # job
      BY PostedCases
    <3>2. m.call = CallOf("start", "connect", m.call.id)
      BY <3>1, CallCases
    <3> QED  BY <2>1, <3>1, <3>2
  <2>4. /\ live' = live \cup {job.id} /\ watch' = [watch EXCEPT ![job.id] = "watching"]
        /\ posts' = posts
    BY <1>5 DEF WorkerLaunches
  <2>5. Posted' = Posted
    BY <2>4 DEF Posted
  <2> QED  BY <2>1, <2>2, <2>3, <2>4, <2>5 DEF CoreInv
<1>6. CASE StartFails
  <2> PICK result \in Results : WorkerAnswers(result)
    BY <1>6 DEF StartFails, Results
  <2> QED  BY <1>3, <1>6 DEF StartFails
<1>7. CASE StartSucceeds
  BY <1>3, <1>7 DEF StartSucceeds, Results
<1>8. CASE WatcherWakes
  <2> PICK s \in Connects \ live :
        /\ watch[s] = "watching"
        /\ watch' = [watch EXCEPT ![s] = IF state_ = s THEN "handling" ELSE "done"]
    BY <1>8 DEF WatcherWakes
  <2>1. live' = live /\ posts' = posts
    BY <1>8 DEF WatcherWakes
  <2>2. Posted' = Posted
    BY <2>1 DEF Posted
  <2> QED  BY <2>1, <2>2 DEF CoreInv
<1>9. CASE WatcherReports
  <2> PICK s \in Connects : /\ watch[s] = "handling" /\ watch' = [watch EXCEPT ![s] = "done"]
                            /\ Post(ExitEvent(s))
    BY <1>9 DEF WatcherReports
  <2>1. live' = live
    BY <1>9 DEF WatcherReports
  <2>2. Posted' \subseteq Posted \cup {ExitEvent(s)}
    BY NewMessages, PostPosts
  <2>3. \A m \in Posted : m.type = "exit" => m.session \in Connects
    BY PostedCases
  <2> QED  BY <2>1, <2>2, <2>3 DEF CoreInv, ExitEvent
<1> QED
  BY <1>1, <1>2, <1>4, <1>5, <1>6, <1>7, <1>8, <1>9 DEF Next, User, Worker

-----------------------------------------------------------------------------
(* How an action of the Dart thread moves a connect. *)
LEMMA ConnectFrame ==
  ASSUME TypeOK, NEW c \in Connects, c \in InFlight, conn' = [conn EXCEPT ![c] = "ended"]
  PROVE  InFlight' = InFlight \ {c} /\ Begun' = Begun
  BY DEF TypeOK, InFlight, Begun

LEMMA OneWaits ==
  ASSUME OrderInv, "overlap" \notin odd
  PROVE  \A c, e \in InFlight : c = e
<1>1. InFlight \subseteq Begun /\ InFlight \subseteq Nat
  BY MaxConnectsAssumption DEF InFlight, Begun, Connects
<1> QED  BY <1>1 DEF OrderInv

(* Which connect ends. *)
LEMMA EndsWhich ==
  ASSUME TypeOK, AllAwaited, PrepareThrows \/ StartReturns
  PROVE  \E c \in InFlight, outcome \in {"connected", "error"} :
           /\ c \in Connects /\ ConnectEnds(c, outcome)
           /\ PrepareThrows => conn[c] = "preparing" /\ outcome = "error"
           /\ StartReturns => /\ conn[c] = "starting" /\ Head(posts) \in Posted
                              /\ posts # <<>> /\ posts' = Tail(posts)
                              /\ Head(posts).type = "reply"
                              /\ Head(posts).call = CallOf("start", "connect", c)
                              /\ outcome = IF Head(posts).result = "ok" THEN "connected" ELSE "error"
<1>1. CASE PrepareThrows /\ ~StartReturns
  <2> PICK c \in Connects : conn[c] = "preparing" /\ ConnectEnds(c, "error")
    BY <1>1 DEF PrepareThrows
  <2>1. c \in InFlight
    BY DEF InFlight
  <2> QED  BY <1>1, <2>1
<1>2. CASE StartReturns /\ ~PrepareThrows
  <2>1. /\ posts # <<>> /\ Head(posts).type = "reply" /\ Head(posts) \in Posted
        /\ Answered \in OnWay /\ Answered.op = "start" /\ Answered.by = "connect"
    BY <1>2, HandleTakes DEF StartReturns
  <2> DEFINE c == Answered.id
  <2>2. Answered = CallOf("start", "connect", c) /\ c \in Connects /\ conn[c] = "starting"
    BY <2>1, WayCases DEF CallOf, NoJob
  <2>3. c \in InFlight
    BY <2>2 DEF InFlight
  <2>4. PICK outcome \in {"connected", "error"} :
          /\ ConnectEnds(c, outcome)
          /\ outcome = IF Head(posts).result = "ok" THEN "connected" ELSE "error"
    BY <1>2 DEF StartReturns
  <2>5. posts' = Tail(posts)
    BY <1>2 DEF StartReturns
  <2> HIDE DEF c
  <2> QED  BY <1>2, <2>1, <2>2, <2>3, <2>4, <2>5 DEF Answered
<1>3. CASE PrepareThrows /\ StartReturns
  <2>1. posts' = posts /\ posts # <<>> /\ posts' = Tail(posts)
    BY <1>3 DEF PrepareThrows, StartReturns, Returns, Arrives
  <2>2. Len(Tail(posts)) = Len(posts) - 1 /\ Len(posts) \in Nat
    BY <2>1, TailAt DEF TypeOK
  <2> QED  BY <2>1, <2>2
<1> QED  BY <1>1, <1>2, <1>3

(* An action that ends no connect and begins none. *)
LEMMA SameConnects ==
  ASSUME TypeOK, AllAwaited,
         \/ ConnectWithoutSource \/ Disconnect \/ Quit \/ TransientErrorEnds
         \/ SendStart \/ StopForConnectReturns \/ RelaunchedElevated
         \/ StopForDisconnectReturns \/ StopForQuitReturns \/ UnexpectedExit
         \/ Worker \/ CoreDies \/ WatcherWakes \/ WatcherReports \/ UNCHANGED vars
  PROVE  /\ InFlight' = InFlight /\ Begun' = Begun
         /\ \A c \in Connects : conn'[c] = "ended" => conn[c] = "ended"
<1>1. CASE SendStart
  BY <1>1 DEF SendStart, TypeOK, InFlight, Begun
<1>2. CASE StopForConnectReturns
  <2>1. Answered \in OnWay /\ Answered.op = "stop" /\ Answered.by = "connect"
    BY <1>2, HandleTakes DEF StopForConnectReturns
  <2> DEFINE c == Answered.id
  <2>2. c \in Connects /\ conn[c] = "stopping"
    BY <2>1, WayCases DEF CallOf, NoJob
  <2>3. conn' = [conn EXCEPT ![c] = "preparing"]
    BY <1>2 DEF StopForConnectReturns
  <2> HIDE DEF c
  <2> QED  BY <2>2, <2>3 DEF TypeOK, InFlight, Begun
<1>3. CASE \/ ConnectWithoutSource \/ Disconnect \/ Quit \/ TransientErrorEnds
           \/ RelaunchedElevated \/ StopForDisconnectReturns \/ StopForQuitReturns
           \/ UnexpectedExit
  <2>1. conn' = conn
    BY <1>3 DEF ConnectWithoutSource, Disconnect, Quit, TransientErrorEnds,
       RelaunchedElevated, StopForDisconnectReturns, StopForQuitReturns, UnexpectedExit
  <2> QED  BY <2>1 DEF InFlight, Begun
<1>4. CASE Worker \/ CoreDies \/ WatcherWakes \/ WatcherReports \/ UNCHANGED vars
  <2>1. conn' = conn
    BY <1>4 DEF Worker, WorkerBegins, WorkerStops, WorkerLaunches, StartFails,
       StartSucceeds, CoreDies, WatcherWakes, WatcherReports, vars, controller
  <2> QED  BY <2>1 DEF InFlight, Begun
<1> QED  BY <1>1, <1>2, <1>3, <1>4

LEMMA OrderStep ==
  TypeOK /\ AllAwaited /\ SessionInv /\ OrderInv /\ [Next]_vars => OrderInv'
<1> SUFFICES ASSUME TypeOK, AllAwaited, SessionInv, OrderInv, [Next]_vars
             PROVE  OrderInv'
  OBVIOUS
<1>0. odd \subseteq odd' /\ Connects \subseteq Nat /\ 0 \notin Connects
  BY OddGrows, MaxConnectsAssumption DEF Connects
<1>a. InFlight \subseteq Begun /\ Begun \subseteq Connects
  BY DEF InFlight, Begun
<1>k. ASSUME InFlight' \subseteq InFlight, Begun' = Begun, UNCHANGED <<state_, watch>>
      PROVE  OrderInv'
  BY <1>0, <1>k DEF OrderInv
<1>1. CASE Connect
  <2> PICK c \in Connects \ Begun : /\ \A e \in Connects \ Begun : c <= e
                                    /\ conn' = [conn EXCEPT ![c] = "stopping"]
    BY <1>1 DEF Connect
  <2>1. Begun' = Begun \cup {c} /\ InFlight' = InFlight \cup {c}
    BY DEF TypeOK, Begun, InFlight
  <2>2. "overlap" \notin odd' => InFlight = {}
    BY <1>1 DEF Connect, Note
  <2>3. UNCHANGED <<state_, watch>>
    BY <1>1 DEF Connect, native
  <2>4. \A e \in Connects : e < c => e \in Begun
    BY <1>0
  <2>5. \A e \in Begun : e <= c
    <3> TAKE e \in Begun
    <3>1. c < e => c \in Begun
      BY <1>a DEF OrderInv
    <3> QED  BY <1>0, <1>a, <3>1
  <2>6. \A d \in Begun' : \A e \in Connects : e < d => e \in Begun'
    BY <2>1, <2>4 DEF OrderInv
  <2>7. "overlap" \notin odd' => \A d \in InFlight' : \A e \in Begun' : e <= d
    BY <1>0, <2>1, <2>2, <2>5
  <2> QED  BY <1>0, <2>3, <2>6, <2>7 DEF OrderInv
<1>2. CASE PrepareThrows \/ StartReturns
  <2>1. InFlight' \subseteq InFlight /\ Begun' = Begun
    BY <1>2, EndsWhich, ConnectFrame DEF ConnectEnds
  <2>2. UNCHANGED <<state_, watch>>
    BY <1>2 DEF PrepareThrows, StartReturns, native
  <2> QED  BY <1>k, <2>1, <2>2
<1>3. CASE \/ ConnectWithoutSource \/ Disconnect \/ Quit \/ TransientErrorEnds
           \/ SendStart \/ StopForConnectReturns \/ RelaunchedElevated
           \/ StopForDisconnectReturns \/ StopForQuitReturns \/ UnexpectedExit
           \/ WorkerBegins \/ StartSucceeds \/ CoreDies \/ UNCHANGED vars
  <2>1. InFlight' = InFlight /\ Begun' = Begun
    BY <1>3, SameConnects DEF Worker
  <2>2. UNCHANGED <<state_, watch>>
    BY <1>3 DEF ConnectWithoutSource, Disconnect, Quit, TransientErrorEnds,
       SendStart, StopForConnectReturns, RelaunchedElevated, StopForDisconnectReturns,
       StopForQuitReturns, UnexpectedExit, WorkerBegins, StartSucceeds, CoreDies,
       native, vars
  <2> QED  BY <1>k, <2>1, <2>2
<1>4. CASE WorkerStops \/ WorkerLaunches \/ StartFails \/ WatcherWakes \/ WatcherReports
  <2>1. InFlight' = InFlight /\ Begun' = Begun
    BY <1>4, SameConnects DEF Worker
  <2>2. ASSUME "overlap" \notin odd, state_' # 0, NEW c \in Connects, c > state_'
        PROVE  watch'[c] = "none"
    <3>1. CASE WorkerStops
      <4>1. watch' = watch /\ step # "idle" /\ job.op # "stop" /\ state_' = job.id
        BY <2>2, <3>1 DEF WorkerStops
      <4>2. job.id \in Connects /\ conn[job.id] = "starting"
        BY <4>1, JobCases
      <4>3. c \notin Begun
        <5>1. job.id \in InFlight
          BY <4>2 DEF InFlight
        <5>2. c \in Begun => c <= job.id
          BY <2>2, <5>1 DEF OrderInv
        <5>3. c > job.id
          BY <2>2, <4>1
        <5>4. c \in Nat /\ job.id \in Nat
          BY <1>0, <4>2
        <5>5. ~(c <= job.id)
          BY <5>3, <5>4
        <5> QED  BY <5>2, <5>5
      <4> QED  BY <4>1, <4>3 DEF Begun, SessionInv
    <3>2. CASE WorkerLaunches
      <4>1. /\ watch' = [watch EXCEPT ![job.id] = "watching"] /\ state_' = state_
            /\ state_ = job.id
        BY <3>2 DEF WorkerLaunches, SessionInv
      <4>2. state_ \in Nat /\ watch \in [Connects -> {"none", "watching", "handling", "done"}]
        BY MaxConnectsAssumption DEF TypeOK
      <4>3. c # job.id
        BY <1>0, <2>2, <4>1, <4>2
      <4> QED  BY <2>2, <4>1, <4>2, <4>3 DEF OrderInv
    <3>3. CASE StartFails
      BY <2>2, <3>3 DEF StartFails, OrderInv
    <3>4. CASE WatcherWakes \/ WatcherReports
      <4>1. \E s \in Connects : /\ watch[s] # "none"
                                /\ \A e \in Connects \ {s} : watch'[e] = watch[e]
                                /\ state_' # 0 => state_' = state_
        BY <3>4 DEF WatcherWakes, WatcherReports, TypeOK
      <4> QED  BY <2>2, <4>1 DEF OrderInv
    <3> QED  BY <1>4, <3>1, <3>2, <3>3, <3>4
  <2> QED  BY <1>0, <2>1, <2>2 DEF OrderInv
<1> QED  BY <1>1, <1>2, <1>3, <1>4 DEF Next, User, Handle, Worker

-----------------------------------------------------------------------------
LEMMA CalmStep ==
  TypeOK /\ AllAwaited /\ OrderInv /\ CalmInv /\ [Next]_vars => CalmInv'
<1> SUFFICES ASSUME TypeOK, AllAwaited, OrderInv, CalmInv, [Next]_vars,
                    "overlap" \notin odd', quit' = "no"
             PROVE  /\ InFlight' # {} => phase' \notin {"connected", "disconnecting"}
                    /\ Leaving' # {} => phase' = "disconnecting"
                    /\ \A d, e \in Leaving' : d = e
                    /\ ~cancelled'
                    /\ pending' # 0 => pending' \in InFlight'
                    /\ \A d \in Disconnects : waits'[d] = 0 /\ disc'[d] # "waiting"
  BY DEF CalmInv
<1>0. "overlap" \notin odd /\ quit = "no"
  BY OddGrows
<1>a. /\ InFlight # {} => phase \notin {"connected", "disconnecting"}
      /\ Leaving # {} => phase = "disconnecting"
      /\ \A d, e \in Leaving : d = e
      /\ ~cancelled
      /\ pending # 0 => pending \in InFlight
      /\ \A d \in Disconnects : waits[d] = 0 /\ disc[d] # "waiting"
  BY <1>0 DEF CalmInv
<1>b. \A d \in Disconnects : waits[d] \notin InFlight
  <2>1. 0 \notin InFlight
    BY MaxConnectsAssumption DEF InFlight, Connects
  <2> QED  BY <1>a, <2>1
<1>1. CASE Connect
  <2> PICK c \in Connects : conn' = [conn EXCEPT ![c] = "stopping"] /\ pending' = c
    BY <1>1 DEF Connect
  <2>1. InFlight = {} /\ c \in InFlight'
    BY <1>1 DEF Connect, Note, InFlight, TypeOK
  <2>2. /\ phase \notin Busy /\ phase' = "connecting" /\ cancelled' = FALSE
        /\ waits' = waits /\ disc' = disc
    BY <1>1 DEF Connect
  <2>3. Leaving' = {}
    BY <1>a, <2>2 DEF Busy, Leaving
  <2> QED  BY <1>a, <2>1, <2>2, <2>3
<1>2. CASE Disconnect
  <2> PICK d \in Disconnects : /\ disc' = [disc EXCEPT ![d] = "stopping"]
                               /\ waits' = [waits EXCEPT ![d] = pending]
    BY <1>2 DEF Disconnect
  <2>1. phase = "connected" /\ phase' = "disconnecting" /\ pending' = pending
        /\ cancelled' = (cancelled \/ pending # 0) /\ InFlight' = InFlight
    BY <1>2 DEF Disconnect, InFlight
  <2>2. InFlight = {} /\ Leaving = {} /\ pending = 0
    BY <1>a, <2>1
  <2>3. Leaving' = {d}
    BY <2>2 DEF Leaving, TypeOK
  <2>4. ~cancelled'
    BY <1>a, <2>1, <2>2
  <2>5. \A e \in Disconnects : waits'[e] = 0 /\ disc'[e] # "waiting"
    BY <1>a, <2>2 DEF TypeOK
  <2> QED  BY <2>1, <2>2, <2>3, <2>4, <2>5
<1>3. CASE PrepareThrows \/ StartReturns
  <2> PICK c \in InFlight, outcome \in {"connected", "error"} :
         c \in Connects /\ ConnectEnds(c, outcome)
    BY <1>3, EndsWhich
  <2>1. InFlight' = InFlight \ {c}
    BY ConnectFrame DEF ConnectEnds
  <2>2. InFlight' = {}
    BY <1>0, <2>1, OneWaits
  <2>3. Leaving = {} /\ Waiting(c) = {}
    BY <1>a DEF Waiting
  <2>4. disc' = [d \in Disconnects |-> disc[d]] /\ waits' = waits /\ cancelled' = cancelled
    BY <2>3 DEF ConnectEnds
  <2>5. Leaving' = {}
    BY <2>3, <2>4 DEF Leaving
  <2>6. pending' = 0
    BY <1>0, <1>a, OneWaits DEF ConnectEnds
  <2> QED  BY <1>a, <2>2, <2>4, <2>5, <2>6
<1>4. CASE StopForDisconnectReturns
  <2>1. Answered \in OnWay /\ Answered.op = "stop" /\ Answered.by = "disconnect"
    BY <1>4, HandleTakes DEF StopForDisconnectReturns
  <2> DEFINE d == Answered.id
  <2>2. d \in Disconnects /\ disc[d] = "stopping"
    BY <2>1, WayCases DEF CallOf, NoJob
  <2>3. /\ disc' = [disc EXCEPT ![d] = "ended"] /\ phase' = "disconnected"
        /\ UNCHANGED <<cancelled, pending, conn, waits>>
    BY <1>4, <1>b, <2>2 DEF StopForDisconnectReturns
  <2> HIDE DEF d
  <2>4. Leaving' = {}
    BY <1>a, <2>2, <2>3 DEF Leaving, TypeOK
  <2>5. InFlight' = InFlight
    BY <2>3 DEF InFlight
  <2>6. \A e \in Disconnects : disc'[e] # "waiting"
    BY <1>a, <2>2, <2>3 DEF TypeOK
  <2> QED  BY <1>a, <2>3, <2>4, <2>5, <2>6
<1>5. CASE \/ ConnectWithoutSource \/ TransientErrorEnds \/ SendStart
           \/ StopForConnectReturns \/ UnexpectedExit
  <2>1. /\ UNCHANGED <<cancelled, pending, disc, waits>>
        /\ phase = "disconnecting" => phase' = "disconnecting"
        /\ phase' \in {"connected", "disconnecting"} => phase' = phase
    BY <1>5 DEF ConnectWithoutSource, TransientErrorEnds, SendStart,
       StopForConnectReturns, UnexpectedExit, Busy
  <2>2. InFlight' = InFlight
    BY <1>5, SameConnects
  <2>3. Leaving' = Leaving
    BY <2>1 DEF Leaving
  <2> QED  BY <1>a, <2>1, <2>2, <2>3
<1>6. CASE Worker \/ CoreDies \/ WatcherWakes \/ WatcherReports \/ UNCHANGED vars
  <2>1. UNCHANGED controller
    BY <1>6 DEF Worker, WorkerBegins, WorkerStops, WorkerLaunches, StartFails,
       StartSucceeds, CoreDies, WatcherWakes, WatcherReports, vars
  <2>2. InFlight' = InFlight /\ Leaving' = Leaving
    BY <2>1 DEF controller, InFlight, Leaving
  <2> QED  BY <1>a, <2>1, <2>2 DEF controller
<1>7. CASE Quit \/ RelaunchedElevated \/ StopForQuitReturns
  BY <1>7 DEF Quit, RelaunchedElevated, StopForQuitReturns
<1> QED  BY <1>1, <1>2, <1>3, <1>4, <1>5, <1>6, <1>7 DEF Next, User, Handle

-----------------------------------------------------------------------------
LEMMA ShownStep ==
  TypeOK /\ AllAwaited /\ OnePlace /\ SessionInv /\ CoreInv /\ OrderInv /\ CalmInv
    /\ ShownInv /\ [Next]_vars => ShownInv'
<1> SUFFICES ASSUME TypeOK, AllAwaited, OnePlace, SessionInv, CoreInv, OrderInv, CalmInv,
                    ShownInv, [Next]_vars,
                    odd' \cap {"late", "overlap"} = {}, quit' = "no",
                    NEW s \in live', conn'[s] = "ended"
             PROVE  \/ phase' = "connected"
                    \/ phase' = "disconnecting" /\ StopUnderway'
  BY DEF ShownInv
<1>0. /\ odd \cap {"late", "overlap"} = {} /\ quit = "no" /\ "overlap" \notin odd
      /\ "late" \notin odd' /\ "overlap" \notin odd'
  BY OddGrows
<1>a. /\ InFlight # {} => phase \notin {"connected", "disconnecting"}
      /\ Leaving # {} => phase = "disconnecting"
      /\ \A d, e \in Leaving : d = e
      /\ ~cancelled
      /\ \A d \in Disconnects : waits[d] = 0 /\ disc[d] # "waiting"
  BY <1>0 DEF CalmInv
<1>b. ASSUME s \in live, conn[s] = "ended"
      PROVE  \/ phase = "connected"
             \/ phase = "disconnecting" /\ StopUnderway
  BY <1>0, <1>b DEF ShownInv
<1>c. live \subseteq Connects /\ live \subseteq {state_}
  BY DEF TypeOK, SessionInv
<1>1. CASE Connect
  <2>1. PICK c \in Connects : conn[c] = "no" /\ conn' = [conn EXCEPT ![c] = "stopping"]
    BY <1>1 DEF Connect, Begun
  <2>2. live' = live /\ phase \notin {"connected", "disconnecting"}
    BY <1>1 DEF Connect, native, Busy
  <2>3. s # c /\ conn[s] = "ended"
    BY <1>c, <2>1, <2>2 DEF TypeOK
  <2> QED  BY <1>b, <2>2, <2>3
<1>2. CASE ConnectWithoutSource \/ TransientErrorEnds
  <2>1. live' = live /\ conn' = conn /\ phase \notin {"connected", "disconnecting"}
    BY <1>2 DEF ConnectWithoutSource, TransientErrorEnds, native, Busy
  <2> QED  BY <1>b, <2>1
<1>3. CASE Disconnect
  <2> PICK d \in Disconnects : Send("stop", "disconnect", d)
    BY <1>3 DEF Disconnect
  <2>1. CallOf("stop", "disconnect", d) \in CallSet
    BY NewMessages
  <2>2. /\ Len(calls) + 1 \in DOMAIN calls'
        /\ calls'[Len(calls) + 1] = CallOf("stop", "disconnect", d)
    BY <2>1, AppendAt DEF Send, TypeOK
  <2>3. StopUnderway'
    BY <2>2 DEF StopUnderway, CallOf
  <2> QED  BY <1>3, <2>3 DEF Disconnect
(* A connect that ends is the one whose core this may be. *)
<1>4. CASE PrepareThrows \/ StartReturns
  <2> PICK c \in InFlight, outcome \in {"connected", "error"} :
        /\ c \in Connects /\ ConnectEnds(c, outcome)
        /\ PrepareThrows => conn[c] = "preparing" /\ outcome = "error"
        /\ StartReturns => /\ conn[c] = "starting" /\ Head(posts) \in Posted
                           /\ Head(posts).type = "reply"
                           /\ Head(posts).call = CallOf("start", "connect", c)
                           /\ outcome = IF Head(posts).result = "ok" THEN "connected" ELSE "error"
    BY <1>4, EndsWhich
  <2>1. live' = live /\ s \in Connects
    BY <1>4, <1>c DEF PrepareThrows, StartReturns, native
  <2>2. Waiting(c) = {}
    BY <1>a DEF Waiting
  <2>3. phase' = outcome /\ conn' = [conn EXCEPT ![c] = "ended"]
    BY <1>a, <2>2 DEF ConnectEnds
  <2>4. s = c
    <3> SUFFICES ASSUME s # c PROVE FALSE
      OBVIOUS
    <3>1. conn[s] = "ended"
      BY <2>1, <2>3 DEF TypeOK
    <3>2. phase \in {"connected", "disconnecting"}
      BY <1>b, <2>1, <3>1
    <3> QED  BY <1>a, <3>2
  <2>5. watch[s] = "watching"
    BY <2>1 DEF CoreInv
  <2>6. ~PrepareThrows
    BY <2>1, <2>4, <2>5 DEF SessionInv
  <2>7. StartReturns /\ Head(posts).result = "ok"
    BY <1>4, <2>1, <2>4, <2>6 DEF CoreInv, CallOf
  <2> QED  BY <2>3, <2>7
<1>5. CASE SendStart
  <2>1. live' = live /\ phase' = phase /\ conn[s] = "ended" /\ job' = job
    BY <1>5, <1>c, SameConnects DEF SendStart, native
  <2>2. StopUnderway => StopUnderway'
    <3> PICK c \in Connects : Send("start", "connect", c)
      BY <1>5 DEF SendStart
    <3>1. CallOf("start", "connect", c) \in CallSet
      BY NewMessages
    <3>2. DOMAIN calls \subseteq DOMAIN calls' /\ \A i \in DOMAIN calls : calls'[i] = calls[i]
      BY <3>1, AppendAt DEF Send, TypeOK
    <3> QED  BY <2>1, <3>2 DEF StopUnderway
  <2> QED  BY <1>b, <2>1, <2>2
<1>6. CASE StopForConnectReturns
  <2>1. /\ live' = live /\ phase' = phase /\ conn[s] = "ended" /\ UNCHANGED <<calls, job>>
    BY <1>6, <1>c, SameConnects DEF StopForConnectReturns, native
  <2> QED  BY <1>b, <2>1 DEF StopUnderway
(* The answer to the disconnect comes after its stop, and no other stop is   *)
(* under way.                                                                *)
<1>7. CASE StopForDisconnectReturns
  <2>1. /\ Answered \in OnWay /\ Answered \notin OnWay' /\ Answered.op = "stop"
        /\ Answered.by = "disconnect" /\ OnWay' \subseteq OnWay
    BY <1>7, HandleTakes, HandleMoves
    DEF StopForDisconnectReturns, Returns, Arrives, native, Answered
  <2>2. /\ Answered = CallOf("stop", "disconnect", Answered.id)
        /\ Answered.id \in Disconnects /\ disc[Answered.id] = "stopping"
    BY <2>1, WayCases DEF CallOf, NoJob
  <2>3. Answered.id \in Leaving /\ phase = "disconnecting"
    BY <1>a, <2>2 DEF Leaving
  <2>4. live' = live /\ conn' = conn /\ calls' = calls /\ job' = job
    BY <1>7 DEF StopForDisconnectReturns, native
  <2>5. StopUnderway
    BY <1>b, <2>3, <2>4
  <2>6. PICK x \in OnWay' : x.op = "stop"
    BY <2>4, <2>5 DEF StopUnderway, OnWay
  <2>7. x \in OnWay /\ x # Answered
    BY <2>1, <2>6
  <2>8. InFlight = {}
    BY <1>a, <2>3
  <2>9. x = CallOf("stop", "disconnect", x.id) /\ x.id \in Disconnects /\ disc[x.id] = "stopping"
    BY <1>0, <2>6, <2>7, <2>8, WayCases DEF CallOf, NoJob, InFlight
  <2>10. x.id = Answered.id
    BY <1>a, <2>3, <2>9 DEF Leaving
  <2> QED  BY <2>2, <2>7, <2>9, <2>10
(* An exit event is of an older session. *)
<1>8. CASE UnexpectedExit
  <2>1. live' = live /\ conn' = conn /\ calls' = calls /\ job' = job
    BY <1>8 DEF UnexpectedExit, native
  <2>2. StopUnderway' = StopUnderway
    BY <2>1 DEF StopUnderway
  <2>3. CASE phase = "disconnecting"
    BY <1>8, <1>b, <2>1, <2>2, <2>3 DEF UnexpectedExit
  <2>4. CASE phase = "connected"
    <3> DEFINE t == Head(posts).session
    <3>1. posts # <<>> /\ Head(posts).type = "exit"
      BY <1>8 DEF UnexpectedExit, Arrives
    <3>2. Head(posts) \in Posted
      BY <1>8, <3>1, TailPosts DEF UnexpectedExit
    <3>3. t \in Connects /\ watch[t] = "done"
      BY <3>1, <3>2, PostedCases DEF CoreInv
    <3>4. s \in Connects /\ s \in Begun /\ watch[s] = "watching" /\ s = state_
      BY <1>c, <2>1 DEF CoreInv, Begun
    <3>5. ~(s > t)
      BY <1>0, <1>8, <3>4 DEF UnexpectedExit
    <3>6. Connects \subseteq Nat \ {0}
      BY MaxConnectsAssumption DEF Connects
    <3>7. t > s => watch[t] = "none"
      BY <1>0, <3>3, <3>4, <3>6 DEF OrderInv
    <3>8. ~(t > s)
      BY <3>3, <3>7
    <3>9. s \in Nat /\ t \in Nat
      BY <3>3, <3>4, <3>6
    <3> HIDE DEF t
    <3>10. t = s
      BY <3>5, <3>8, <3>9
    <3> QED  BY <3>3, <3>4, <3>10
  <2> QED  BY <1>b, <2>1, <2>3, <2>4
<1>9. CASE Quit \/ RelaunchedElevated \/ StopForQuitReturns
  BY <1>9 DEF Quit, RelaunchedElevated, StopForQuitReturns
<1>10. CASE WorkerBegins
  <2>1. live' = live /\ phase' = phase /\ conn' = conn /\ posts' = posts
    BY <1>10 DEF WorkerBegins, controller
  <2>2. job = NoJob
    BY <1>10 DEF WorkerBegins, TypeOK
  <2>3. /\ Len(calls) \in Nat \ {0} /\ DOMAIN calls = 1 .. Len(calls)
        /\ DOMAIN calls' = 1 .. (Len(calls) - 1)
        /\ \A i \in DOMAIN calls' : calls'[i] = calls[i + 1]
        /\ job' = calls[1]
    BY <1>10, TailAt DEF WorkerBegins, TypeOK
  <2>4. StopUnderway => StopUnderway'
    <3> SUFFICES ASSUME StopUnderway PROVE StopUnderway'
      OBVIOUS
    <3>1. PICK i \in DOMAIN calls : calls[i].op = "stop"
      BY <2>2 DEF StopUnderway, NoJob, CallOf
    <3>2. CASE i = 1
      BY <2>3, <3>1, <3>2 DEF StopUnderway
    <3>3. CASE i # 1
      <4>1. i - 1 \in DOMAIN calls' /\ calls'[i - 1] = calls[i]
        BY <2>3, <3>1, <3>3
      <4> QED  BY <3>1, <4>1 DEF StopUnderway
    <3> QED  BY <3>2, <3>3
  <2> QED  BY <1>b, <2>1, <2>4
<1>11. CASE WorkerStops
  <2>1. live' = {}
    BY <1>11, <1>c DEF WorkerStops
  <2> QED  BY <2>1
<1>12. CASE WorkerLaunches
  <2>1. job.id \in Connects /\ conn[job.id] = "starting"
    BY <1>12, JobCases DEF WorkerLaunches, TypeOK
  <2>2. /\ live' = live \cup {job.id} /\ conn' = conn /\ phase' = phase
        /\ calls' = calls /\ job' = job
    BY <1>12 DEF WorkerLaunches, controller
  <2>3. s \in live
    BY <2>1, <2>2
  <2> QED  BY <1>b, <2>2, <2>3 DEF StopUnderway
<1>13. CASE StartFails \/ StartSucceeds
  <2>1. /\ live' \subseteq live /\ conn' = conn /\ phase' = phase /\ calls' = calls
        /\ job.op = "start"
    BY <1>13 DEF StartFails, StartSucceeds, controller, TypeOK
  <2>2. StopUnderway => StopUnderway'
    BY <2>1 DEF StopUnderway
  <2> QED  BY <1>b, <2>1, <2>2
<1>14. CASE CoreDies \/ WatcherWakes \/ WatcherReports \/ UNCHANGED vars
  <2>1. /\ live' \subseteq live /\ conn' = conn /\ phase' = phase /\ calls' = calls
        /\ job' = job
    BY <1>14 DEF CoreDies, WatcherWakes, WatcherReports, controller, vars, native
  <2> QED  BY <1>b, <2>1 DEF StopUnderway
<1> QED
  BY <1>1, <1>2, <1>3, <1>4, <1>5, <1>6, <1>7, <1>8, <1>9, <1>10, <1>11, <1>12,
     <1>13, <1>14 DEF Next, User, Handle, Worker

-----------------------------------------------------------------------------
(* The flag of a cancelled connect and the phase. *)
LEMMA CancelStep ==
  TypeOK /\ (cancelled => phase # "connected") /\ [Next]_vars
    => (cancelled' => phase' # "connected")
<1> SUFFICES ASSUME TypeOK, cancelled => phase # "connected", [Next]_vars, cancelled'
             PROVE  phase' # "connected"
  OBVIOUS
<1>1. CASE Connect
  BY <1>1 DEF Connect
<1>2. CASE Disconnect
  BY <1>2 DEF Disconnect
<1>3. ASSUME NEW c, NEW outcome, ConnectEnds(c, outcome) PROVE phase' # "connected"
  <2>1. cancelled' = cancelled
    BY <1>3 DEF ConnectEnds
  <2>2. cancelled
    BY <2>1
  <2>3. phase' = "disconnected" \/ phase' = phase
    BY <1>3, <2>2 DEF ConnectEnds
  <2> QED  BY <2>2, <2>3
<1>4. CASE PrepareThrows \/ StartReturns
  BY <1>3, <1>4 DEF PrepareThrows, StartReturns
<1>5. CASE \/ Quit \/ ConnectWithoutSource \/ TransientErrorEnds \/ SendStart
           \/ StopForConnectReturns \/ RelaunchedElevated \/ StopForDisconnectReturns
           \/ StopForQuitReturns \/ UnexpectedExit
           \/ Worker \/ CoreDies \/ WatcherWakes \/ WatcherReports \/ UNCHANGED vars
  <2>1. cancelled' = cancelled /\ phase' \in {phase, "disconnected", "error"}
    BY <1>5 DEF Quit, ConnectWithoutSource, TransientErrorEnds, SendStart,
       StopForConnectReturns, RelaunchedElevated, StopForDisconnectReturns,
       StopForQuitReturns, UnexpectedExit, Worker, WorkerBegins, WorkerStops,
       WorkerLaunches, StartFails, StartSucceeds, CoreDies, WatcherWakes,
       WatcherReports, vars, controller
  <2>2. cancelled
    BY <2>1
  <2> QED  BY <2>1, <2>2
<1> QED  BY <1>1, <1>2, <1>4, <1>5 DEF Next, User, Handle

LEMMA TrueStep ==
  TypeOK /\ AllAwaited /\ OnePlace /\ SessionInv /\ TrueInv /\ [Next]_vars => TrueInv'
<1> SUFFICES ASSUME TypeOK, AllAwaited, OnePlace, SessionInv, TrueInv, [Next]_vars,
                    "early" \notin odd', quit' = "no"
             PROVE  /\ phase' = "connected" => Stirs' \/ InFlight' # {} \/ posts' # <<>>
                    /\ posts' # <<>> /\ IsAnswerOf(Last', "ok") =>
                         Stirs' \/ ExitEvent(Last'.call.id) \in Posted'
                    /\ step' = "commit" =>
                         \/ watch'[job'.id] = "handling"
                         \/ watch'[job'.id] = "watching" /\ state_' = job'.id
                         \/ ExitEvent(job'.id) \in Posted'
  BY CancelStep DEF TrueInv, IsAnswerOf
<1> DEFINE Shows == phase = "connected" => Stirs \/ InFlight # {} \/ posts # <<>>
           Answering == posts # <<>> /\ IsAnswerOf(Last, "ok") =>
                         Stirs \/ ExitEvent(Last.call.id) \in Posted
           Commits == step = "commit" =>
                         \/ watch[job.id] = "handling"
                         \/ watch[job.id] = "watching" /\ state_ = job.id
                         \/ ExitEvent(job.id) \in Posted
<1>0. "early" \notin odd /\ quit = "no" /\ ~Gone
  BY OddGrows DEF Gone
<1>a. Shows /\ Answering /\ Commits
  BY <1>0 DEF TrueInv
<1>b. cancelled => phase # "connected"
  BY DEF TrueInv
<1> SUFFICES Shows' /\ Answering' /\ Commits'
  BY DEF IsAnswerOf
(* What stirs goes on when an action only adds calls, and a call added is    *)
(* something that stirs.                                                     *)
<1>s. ASSUME NEW op, NEW by, NEW id, CallOf(op, by, id) \in CallSet, Send(op, by, id)
      PROVE  Stirs'
  <2>1. Len(calls) + 1 \in DOMAIN calls'
    BY <1>s, AppendAt DEF Send, TypeOK
  <2>2. calls' # <<>>
    BY <2>1
  <2> QED  BY <2>2 DEF Stirs
<1>k. ASSUME UNCHANGED <<native, posts>>, calls' = calls \/ Stirs'
      PROVE  Answering' /\ Commits'
  <2>1. Posted' = Posted /\ Last' = Last
    BY <1>k DEF Posted, Last
  <2>2. Stirs => Stirs'
    BY <1>k DEF Stirs, native
  <2>3. Answering'
    BY <1>a, <1>k, <2>1, <2>2 DEF IsAnswerOf
  <2>4. Commits'
    BY <1>a, <1>k, <2>1 DEF native
  <2> QED  BY <2>3, <2>4
<1>1. CASE Connect \/ Disconnect
  <2>1. Stirs'
    BY <1>1, <1>s, NewMessages DEF Connect, Disconnect
  <2> QED  BY <1>1, <1>k, <2>1 DEF Connect, Disconnect
<1>2. CASE ConnectWithoutSource \/ TransientErrorEnds
  BY <1>2, <1>k DEF ConnectWithoutSource, TransientErrorEnds
<1>3. CASE SendStart
  <2>1. Stirs'
    BY <1>3, <1>s, NewMessages DEF SendStart
  <2> QED  BY <1>3, <1>k, <2>1 DEF SendStart
(* The end of a connect says "connected" only if its outcome is that. *)
<1>4. ASSUME NEW c, NEW outcome, ConnectEnds(c, outcome), phase' = "connected"
      PROVE  outcome = "connected"
  BY <1>4, <1>b DEF ConnectEnds
<1>5. CASE PrepareThrows
  <2>1. phase' # "connected"
    BY <1>4, <1>5 DEF PrepareThrows
  <2> QED  BY <1>5, <1>k, <2>1 DEF PrepareThrows
(* A message that is handled leaves the last one, and the exit events of     *)
(* sessions other than its own.                                              *)
<1>6. ASSUME posts # <<>>, posts' = Tail(posts), UNCHANGED <<native, calls>>,
             \A id \in Connects : conn[id] = "starting" => Head(posts) # ExitEvent(id)
      PROVE  Answering' /\ Commits'
  <2>1. /\ Posted \subseteq Posted' \cup {Head(posts)}
        /\ posts' # <<>> => Last' = Last
    BY <1>6, TailPosts
  <2>2. Stirs' = Stirs
    BY <1>6 DEF Stirs, native
  <2>3. ASSUME posts' # <<>>, IsAnswerOf(Last, "ok")
        PROVE  Last.call.id \in Connects /\ conn[Last.call.id] = "starting"
    <3>1. Last \in Posted
      <4>1. Len(posts) \in DOMAIN posts
        BY <1>6, TailAt DEF TypeOK
      <4> QED  BY <4>1 DEF Last, Posted
    <3>2. Last.call \in OnWay /\ Last.call.op = "start"
      BY <2>3, <3>1, PostedCases DEF IsAnswerOf
    <3> QED  BY <3>2, WayCases DEF CallOf, NoJob
  <2>4. Answering'
    <3> SUFFICES ASSUME posts' # <<>>, IsAnswerOf(Last', "ok")
                 PROVE  Stirs' \/ ExitEvent(Last'.call.id) \in Posted'
      OBVIOUS
    <3>1. Last' = Last /\ IsAnswerOf(Last, "ok")
      BY <2>1 DEF IsAnswerOf
    <3>2. Stirs \/ ExitEvent(Last.call.id) \in Posted
      BY <1>6, <1>a, <3>1
    <3> QED  BY <1>6, <2>1, <2>2, <2>3, <3>1, <3>2
  <2>5. Commits'
    <3> SUFFICES ASSUME step = "commit", ExitEvent(job.id) \in Posted
                 PROVE  ExitEvent(job.id) \in Posted'
      BY <1>6, <1>a DEF native
    <3>1. job.id \in Connects /\ conn[job.id] = "starting"
      BY JobCases DEF TypeOK
    <3> QED  BY <1>6, <2>1, <3>1
  <2> QED  BY <2>4, <2>5
<1>r. \A m, id : m.type = "reply" => m # ExitEvent(id)
  BY DEF ExitEvent
<1>7. CASE StopForConnectReturns
  <2>1. /\ posts # <<>> /\ Head(posts).type = "reply" /\ Answered \in OnWay
        /\ Answered.op = "stop" /\ Answered.by = "connect"
    BY <1>7, HandleTakes DEF StopForConnectReturns
  <2>2. Answered.id \in Connects
    BY <2>1, WayCases DEF CallOf, NoJob
  <2>3. Answered.id \in InFlight'
    BY <1>7, <2>2 DEF StopForConnectReturns, InFlight, TypeOK
  <2>4. Answering' /\ Commits'
    BY <1>6, <1>7, <1>r, <2>1 DEF StopForConnectReturns
  <2> QED  BY <2>3, <2>4
<1>8. CASE StartReturns
  <2> PICK c \in InFlight, outcome \in {"connected", "error"} :
        /\ ConnectEnds(c, outcome) /\ conn[c] = "starting"
        /\ posts # <<>> /\ posts' = Tail(posts) /\ Head(posts).type = "reply"
        /\ Head(posts).call = CallOf("start", "connect", c)
        /\ outcome = IF Head(posts).result = "ok" THEN "connected" ELSE "error"
    BY <1>8, EndsWhich
  <2>1. UNCHANGED <<native, calls>>
    BY <1>8 DEF StartReturns
  <2>2. Answering' /\ Commits'
    BY <1>6, <1>r, <2>1
  <2>3. ASSUME phase' = "connected", posts' = <<>> PROVE Stirs'
    <3>1. Head(posts).result = "ok"
      BY <1>4, <2>3
    <3>2. Last = Head(posts) /\ Posted \subseteq Posted' \cup {Head(posts)}
      BY <2>3, TailPosts
    <3>3. Posted' = {}
      BY <2>3 DEF Posted
    <3>4. IsAnswerOf(Last, "ok")
      BY <3>1, <3>2 DEF IsAnswerOf, CallOf
    <3>5. ExitEvent(Last.call.id) \notin Posted
      BY <1>r, <3>2, <3>3
    <3>6. Stirs
      BY <1>a, <3>4, <3>5
    <3> QED  BY <2>1, <3>6 DEF Stirs, native
  <2> QED  BY <2>2, <2>3
<1>9. CASE StopForDisconnectReturns
  <2>1. posts # <<>> /\ Head(posts).type = "reply"
    BY <1>9, HandleTakes DEF StopForDisconnectReturns
  <2>2. Answering' /\ Commits'
    BY <1>6, <1>9, <1>r, <2>1 DEF StopForDisconnectReturns
  <2>3. phase' = "connected" => InFlight' # {}
    BY <1>9 DEF StopForDisconnectReturns, InFlight
  <2> QED  BY <2>2, <2>3
<1>10. CASE UnexpectedExit
  <2>1. posts # <<>> /\ Head(posts).type = "exit" /\ posts' = Tail(posts)
    BY <1>10 DEF UnexpectedExit, Arrives
  <2>2. conn[Head(posts).session] = "ended"
    BY <1>10 DEF UnexpectedExit
  <2>3. \A id \in Connects : conn[id] = "starting" => Head(posts) # ExitEvent(id)
    BY <2>2 DEF ExitEvent
  <2>4. Answering' /\ Commits'
    BY <1>6, <1>10, <2>1, <2>3 DEF UnexpectedExit
  <2>5. phase' # "connected"
    BY <1>10 DEF UnexpectedExit
  <2> QED  BY <2>4, <2>5
<1>11. CASE Quit \/ RelaunchedElevated \/ StopForQuitReturns
  BY <1>11 DEF Quit, RelaunchedElevated, StopForQuitReturns
<1>12. CASE WorkerBegins
  <2>1. step' = "stop"
    BY <1>12 DEF WorkerBegins
  <2> QED  BY <2>1 DEF Stirs
(* An answer of the worker is the last message. *)
<1>13. ASSUME NEW result \in Results, WorkerAnswers(result), step # "idle"
       PROVE  /\ posts' # <<>> /\ Last' = Reply(job, result) /\ step' = "idle"
              /\ Posted \subseteq Posted'
  <2>1. Reply(job, result) \in Messages
    BY <1>13, NewMessages DEF TypeOK
  <2> QED  BY <1>0, <1>13, <2>1, PostPosts DEF WorkerAnswers
<1>14. CASE WorkerStops
  <2>1. CASE job.op = "stop"
    <3>1. posts' # <<>> /\ Last' = Reply(job, "ok") /\ step' = "idle"
      BY <1>13, <1>14, <2>1 DEF WorkerStops, Results
    <3> QED  BY <2>1, <3>1 DEF IsAnswerOf, Reply
  <2>2. CASE job.op # "stop"
    <3>1. step' = "launch"
      BY <1>14, <2>2 DEF WorkerStops
    <3> QED  BY <3>1 DEF Stirs
  <2> QED  BY <2>1, <2>2
<1>15. CASE WorkerLaunches
  <2>1. step' = "commit" /\ job' = job /\ state_' = state_ /\ job.id \in Connects
    BY <1>15, JobCases DEF WorkerLaunches, TypeOK
  <2>2. watch'[job.id] = "watching" /\ state_ = job.id
    BY <1>15, <2>1 DEF WorkerLaunches, SessionInv, TypeOK
  <2> QED  BY <2>1, <2>2 DEF Stirs
<1>16. CASE StartFails
  <2> PICK result \in Results : WorkerAnswers(result) /\ result # "ok"
    BY <1>16 DEF StartFails, Results
  <2>1. posts' # <<>> /\ Last' = Reply(job, result) /\ step' = "idle"
    BY <1>13, <1>16 DEF StartFails
  <2> QED  BY <2>1 DEF IsAnswerOf, Reply
<1>17. CASE StartSucceeds
  <2>1. /\ posts' # <<>> /\ Last' = Reply(job, "ok") /\ step' = "idle"
        /\ Posted \subseteq Posted'
    BY <1>13, <1>17 DEF StartSucceeds, Results
  <2>2. step = "commit" /\ state_' = state_ /\ watch' = watch /\ job.id \in Connects
    BY <1>17, JobCases DEF StartSucceeds, TypeOK
  <2>3. Stirs' \/ ExitEvent(job.id) \in Posted'
    BY <1>a, <2>1, <2>2 DEF Stirs
  <2> QED  BY <2>1, <2>3 DEF Reply
<1>18. CASE CoreDies \/ UNCHANGED vars
  <2>1. UNCHANGED <<phase, conn, posts, calls, job, step, state_, watch>>
    BY <1>18 DEF CoreDies, controller, vars, native
  <2>2. Stirs' = Stirs /\ Posted' = Posted /\ Last' = Last /\ InFlight' = InFlight
    BY <2>1 DEF Stirs, Posted, Last, InFlight
  <2> QED  BY <1>a, <2>1, <2>2 DEF IsAnswerOf
<1>19. CASE WatcherWakes
  <2> PICK s \in Connects :
        /\ watch[s] = "watching"
        /\ watch' = [watch EXCEPT ![s] = IF state_ = s THEN "handling" ELSE "done"]
        /\ state_' = IF state_ = s THEN 0 ELSE state_
    BY <1>19 DEF WatcherWakes
  <2>1. UNCHANGED <<phase, conn, posts, calls, job, step>>
    BY <1>19 DEF WatcherWakes, controller
  <2>2. Posted' = Posted /\ Last' = Last /\ InFlight' = InFlight
    BY <2>1 DEF Posted, Last, InFlight
  <2>3. \A c \in Connects :
          watch[c] = "handling" \/ (watch[c] = "watching" /\ state_ = c)
            => watch'[c] = "handling" \/ (watch'[c] = "watching" /\ state_' = c)
    BY DEF TypeOK
  <2>4. Stirs => Stirs'
    BY <2>1, <2>3 DEF Stirs
  <2>5. step = "commit" => job.id \in Connects
    BY JobCases DEF TypeOK
  <2>6. Commits'
    BY <1>a, <2>1, <2>2, <2>3, <2>5
  <2> QED  BY <1>a, <2>1, <2>2, <2>4, <2>6 DEF IsAnswerOf
<1>20. CASE WatcherReports
  <2> PICK s \in Connects : /\ watch[s] = "handling" /\ watch' = [watch EXCEPT ![s] = "done"]
                            /\ Post(ExitEvent(s))
    BY <1>20 DEF WatcherReports
  <2>1. posts' # <<>> /\ Last' = ExitEvent(s) /\ Posted' = Posted \cup {ExitEvent(s)}
    BY <1>0, NewMessages, PostPosts
  <2>2. UNCHANGED <<job, step, state_>>
    BY <1>20 DEF WatcherReports
  <2>3. step = "commit" => job.id \in Connects
    BY JobCases DEF TypeOK
  <2>4. Commits'
    BY <1>a, <2>1, <2>2, <2>3 DEF TypeOK
  <2> QED  BY <2>1, <2>4 DEF IsAnswerOf, ExitEvent
<1> QED
  BY <1>1, <1>2, <1>3, <1>5, <1>7, <1>8, <1>9, <1>10, <1>11, <1>12, <1>14, <1>15,
     <1>16, <1>17, <1>18, <1>19, <1>20 DEF Next, User, Handle, Worker

-----------------------------------------------------------------------------
(* The inductive invariant for what the app shows. *)
ShowInv == IInv /\ CoreInv /\ OrderInv /\ CalmInv /\ ShownInv /\ TrueInv

LEMMA ShowInit == Init => ShowInv
<1> SUFFICES ASSUME Init PROVE ShowInv
  OBVIOUS
<1>1. IInv
  BY IInvInit
<1>2. Posted = {} /\ InFlight = {} /\ Begun = {} /\ Leaving = {}
  BY DEF Init, Posted, InFlight, Begun, Leaving
<1>3. CoreInv /\ OrderInv /\ CalmInv
  BY <1>2 DEF Init, CoreInv, OrderInv, CalmInv
<1>4. ShownInv /\ TrueInv
  BY DEF Init, ShownInv, TrueInv
<1> QED  BY <1>1, <1>3, <1>4 DEF ShowInv

LEMMA ShowStep == ShowInv /\ [Next]_vars => ShowInv'
  BY IInvStep, CoreStep, OrderStep, CalmStep, ShownStep, CancelStep, TrueStep DEF ShowInv, IInv

LEMMA ShowInvariant == Spec => []ShowInv
  BY ShowInit, ShowStep, PTL DEF Spec

(* What the app shows, once everything that was sent has arrived, is what    *)
(* runs: "connected" is a core that runs, and a core that runs is shown,     *)
(* however many calls of connect and disconnect were made and wherever they  *)
(* met the death of a core (connect, disconnect, _handleUnexpectedExit).     *)
THEOREM ShownTrue == Spec => []ShownIsTrue
<1>1. ShowInv => ShownIsTrue
  <2> SUFFICES ASSUME ShowInv, AtRest, quit = "no"
               PROVE  /\ "early" \notin odd => (phase = "connected" => live # {})
                      /\ odd \cap {"late", "overlap"} = {} => (live # {} => phase = "connected")
    BY DEF ShowInv, IInv, ShownIsTrue, ConnectedHasCore, CoreIsShown
  <2>1. /\ TypeOK /\ SessionInv /\ CoreInv /\ ShownInv /\ TrueInv
        /\ InFlight = {} /\ calls = <<>> /\ posts = <<>> /\ step = "idle"
        /\ \A c \in Connects : /\ watch[c] # "handling"
                               /\ watch[c] = "watching" => c \in live \/ state_ # c
    BY DEF ShowInv, IInv, AtRest
  <2>2. ASSUME "early" \notin odd, phase = "connected" PROVE live # {}
    <3>1. Stirs
      BY <2>1, <2>2 DEF TrueInv
    <3> QED  BY <2>1, <3>1 DEF Stirs
  <2>3. ASSUME odd \cap {"late", "overlap"} = {}, live # {} PROVE phase = "connected"
    <3> PICK s \in live : TRUE
      BY <2>3
    <3>1. s \in Connects /\ conn[s] = "ended"
      BY <2>1 DEF TypeOK, CoreInv, SessionInv, InFlight
    <3>2. ~StopUnderway
      <4>1. job.op # "stop"
        BY <2>1 DEF TypeOK, NoJob, CallOf
      <4>2. DOMAIN calls = {}
        BY <2>1
      <4> QED  BY <4>1, <4>2 DEF StopUnderway
    <3> QED  BY <2>1, <2>3, <3>1, <3>2 DEF ShownInv
  <2> QED  BY <2>2, <2>3
<1> QED  BY <1>1, ShowInvariant, PTL

=============================================================================
