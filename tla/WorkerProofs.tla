---------------------------- MODULE WorkerProofs ----------------------------
(***************************************************************************)
(* Proofs about Worker, for any number of runs, modules and executions at  *)
(* once: types, that the end of a run is the last the core hears of it,    *)
(* and what the map of runs holds.                                         *)
(***************************************************************************)
EXTENDS Worker, FiniteSetTheorems, TLAPS

USE WorkerAssumption

Messages == [about : {"module", "active", "ended"}, exec : Nat]
Requests == {RegisterModules} \cup Runs
Mains    == {"start", "ready", "running", "ended", "report", "delete", "erase", "done"}
Updaters == {"none", "lock", "push", "stuck"}

\* A message about the end of an execution names one that was made.
Names(message) == message.about = "ended" => message.exec \in Execs

MessagesFit ==
  /\ c0 \in Seq(Messages) /\ \A i \in DOMAIN c0 : Names(c0[i])
  /\ sending \in Messages \cup {Nothing} /\ Names(sending)
  /\ told \subseteq Execs

RequestsFit ==
  /\ c1 \in Seq(Requests) /\ c2 \in 0..Cap
  /\ link \in {"first", "dial", "connect", "poll", "message", "gone"}
  /\ dispatched \in 0..Dispatches
  /\ link = "message" => dispatched \in Runs
  /\ prov \in {"select", "lock", "modules", "respond"}
  /\ creating \in {0} \cup Runs
  /\ prov = "lock" => creating \in Runs
  /\ left \in 0..NumModules
  /\ active \in Int /\ active <= MaxNumOfSupervisors
  /\ backlog \in Seq(Runs) /\ restarting \in {0} \cup Runs

\* The executions the wait group counts: those that have begun and not finished.
Waited == {e \in Execs : main[e] \notin {"start", "done"}}

ExecsFit ==
  /\ run \in Seq(Runs)
  /\ main \in Seq(Mains) /\ Len(main) = Len(run)
  /\ updater \in Seq(Updaters) /\ Len(updater) = Len(run)
  /\ runs \in [Runs -> {0} \cup Execs] /\ leaked \in Nat
  /\ suspended \subseteq Execs
  /\ runWg = Cardinality(Waited)
  /\ teardown \in {"no", "suspend", "wait", "drain", "exit"}

Typed == MessagesFit /\ RequestsFit /\ ExecsFit

LEMMA Adds ==
  ASSUME NEW S, NEW q \in Seq(S), NEW e \in S
  PROVE  /\ Append(q, e) \in Seq(S) /\ Len(Append(q, e)) = Len(q) + 1
         /\ Append(q, e)[Len(q) + 1] = e
         /\ \A i \in DOMAIN q : i \in DOMAIN Append(q, e) /\ Append(q, e)[i] = q[i]
         /\ \A i \in DOMAIN Append(q, e) : i \in DOMAIN q \/ i = Len(q) + 1
OBVIOUS

LEMMA Takes ==
  ASSUME NEW S, NEW q \in Seq(S), q # <<>>
  PROVE  /\ Tail(q) \in Seq(S) /\ Head(q) \in S
         /\ 1 \in DOMAIN q /\ Head(q) = q[1]
         /\ \A i \in DOMAIN Tail(q) : i + 1 \in DOMAIN q /\ Tail(q)[i] = q[i + 1]
         /\ DOMAIN q \subseteq Nat
OBVIOUS

LEMMA Sets ==
  ASSUME NEW S, NEW q \in Seq(S), NEW k \in DOMAIN q, NEW e \in S
  PROVE  /\ [q EXCEPT ![k] = e] \in Seq(S) /\ Len([q EXCEPT ![k] = e]) = Len(q)
         /\ [q EXCEPT ![k] = e][k] = e
         /\ \A i \in DOMAIN q : i # k => [q EXCEPT ![k] = e][i] = q[i]
OBVIOUS

LEMMA Empty ==
  ASSUME NEW S
  PROVE  <<>> \in Seq(S) /\ Len(<<>>) = 0 /\ DOMAIN <<>> = {}
OBVIOUS

LEMMA Shape ==
  ASSUME ExecsFit
  PROVE  /\ Execs = 1..Len(run) /\ Len(run) \in Nat /\ DOMAIN run = Execs
         /\ DOMAIN main = Execs /\ DOMAIN updater = Execs
         /\ \A e \in Execs : run[e] \in Runs /\ main[e] \in Mains /\ updater[e] \in Updaters
         /\ IsFiniteSet(Execs) /\ IsFiniteSet(Waited) /\ runWg \in Nat
<1>1. /\ Execs = 1..Len(run) /\ Len(run) \in Nat /\ DOMAIN run = Execs
      /\ DOMAIN main = Execs /\ DOMAIN updater = Execs
      /\ \A e \in Execs : run[e] \in Runs /\ main[e] \in Mains /\ updater[e] \in Updaters
  BY DEF ExecsFit, Execs
<1>2. IsFiniteSet(Execs)
  BY <1>1, FS_Interval
<1>3. IsFiniteSet(Waited)
  BY <1>2, FS_Subset DEF Waited
<1> QED
  BY <1>1, <1>2, <1>3, FS_CardinalityType DEF ExecsFit

LEMMA AboutMessages ==
  /\ Module \in Messages /\ Module.about = "module"
  /\ \A e \in Nat : Active(e) \in Messages /\ Ended(e) \in Messages
  /\ \A e : Active(e).about = "active" /\ Active(e).exec = e
  /\ \A e : Ended(e).about = "ended" /\ Ended(e).exec = e
  /\ Nothing.about = "nothing"
BY DEF Module, Active, Ended, Nothing, Messages

LEMMA TypedIsTypeOK == Typed => TypeOK
<1> SUFFICES ASSUME Typed PROVE TypeOK
  OBVIOUS
<1>1. /\ Execs = 1..Len(run) /\ runWg \in Nat
      /\ main \in [Execs -> Mains] /\ updater \in [Execs -> Updaters]
  BY Shape DEF Typed, ExecsFit
<1>2. sending \in [about : {"nothing", "module", "active", "ended"}, exec : Nat]
  BY DEF Typed, MessagesFit, Messages, Nothing
<1>3. c0 \in Seq(Messages) /\ told \subseteq Execs
  BY DEF Typed, MessagesFit
<1>4. /\ run \in Seq(Runs) /\ runs \in [Runs -> {0} \cup Execs] /\ leaked \in Nat
      /\ suspended \subseteq Execs /\ teardown \in {"no", "suspend", "wait", "drain", "exit"}
  BY DEF Typed, ExecsFit
<1> QED
  BY <1>1, <1>2, <1>3, <1>4 DEF Typed, RequestsFit, TypeOK, Messages, Requests, Mains, Updaters

LEMMA InitTyped == Init => Typed
<1> SUFFICES ASSUME Init PROVE Typed
  OBVIOUS
<1>1. /\ run = <<>> /\ main = <<>> /\ updater = <<>> /\ c0 = <<>> /\ c1 = <<>> /\ backlog = <<>>
      /\ told = {} /\ suspended = {} /\ sending = Nothing /\ runWg = 0 /\ leaked = 0
      /\ teardown = "no"
  BY DEF Init
<1>2. Execs = {} /\ Waited = {}
  BY <1>1, Empty DEF Execs, Waited
<1>3. runs \in [Runs -> {0} \cup Execs]
  BY DEF Init
<1>4. MessagesFit
  BY <1>1, <1>2, Empty, AboutMessages DEF MessagesFit, Names
<1>5. RequestsFit
  BY <1>1, Empty DEF Init, RequestsFit
<1>6. ExecsFit
  BY <1>1, <1>2, <1>3, Empty, FS_EmptySet DEF ExecsFit
<1> QED
  BY <1>4, <1>5, <1>6 DEF Typed
-----------------------------------------------------------------------------
(* What a step does to each part of the state. *)

\* The steps of the executions, by what they do to one of them.
LEMMA Moved ==
  ASSUME ExecsFit, NEW e \in Execs, NEW from, NEW to \in Mains, Moves(e, from, to)
  PROVE  /\ main' \in Seq(Mains) /\ Len(main') = Len(main)
         /\ main[e] = from /\ main'[e] = to
         /\ \A f \in Execs : f # e => main'[f] = main[f]
<1>1. main \in Seq(Mains) /\ e \in DOMAIN main
  BY Shape DEF ExecsFit
<1> QED
  BY <1>1, Sets, Shape DEF Moves

LEMMA Created ==
  ASSUME ExecsFit, RequestsFit, CreateRun
  PROVE  /\ run' \in Seq(Runs) /\ Len(run') = Len(run) + 1
         /\ Execs' = Execs \cup {Len(run) + 1} /\ Len(run) + 1 \notin Execs
         /\ main' \in Seq(Mains) /\ Len(main') = Len(run')
         /\ updater' \in Seq(Updaters) /\ Len(updater') = Len(run')
         /\ \A f \in Execs : run'[f] = run[f] /\ main'[f] = main[f] /\ updater'[f] = updater[f]
         /\ run'[Len(run) + 1] = creating /\ creating \in Runs
         /\ main'[Len(run) + 1] = "start" /\ updater'[Len(run) + 1] = "none"
<1>1. creating \in Runs
  BY DEF CreateRun, RequestsFit
<1>2. /\ run' = Append(run, creating) /\ main' = Append(main, "start")
      /\ updater' = Append(updater, "none")
  BY DEF CreateRun
<1>3. /\ run \in Seq(Runs) /\ main \in Seq(Mains) /\ updater \in Seq(Updaters)
      /\ Len(main) = Len(run) /\ Len(updater) = Len(run)
  BY DEF ExecsFit
<1>4. "start" \in Mains /\ "none" \in Updaters
  BY DEF Mains, Updaters
<1>5. /\ run' \in Seq(Runs) /\ Len(run') = Len(run) + 1 /\ run'[Len(run) + 1] = creating
      /\ \A f \in DOMAIN run : run'[f] = run[f]
  BY <1>1, <1>2, <1>3, Adds
<1>6. /\ main' \in Seq(Mains) /\ Len(main') = Len(run) + 1 /\ main'[Len(run) + 1] = "start"
      /\ \A f \in DOMAIN main : main'[f] = main[f]
  BY <1>2, <1>3, <1>4, Adds
<1>7. /\ updater' \in Seq(Updaters) /\ Len(updater') = Len(run) + 1
      /\ updater'[Len(run) + 1] = "none"
      /\ \A f \in DOMAIN updater : updater'[f] = updater[f]
  BY <1>2, <1>3, <1>4, Adds
<1>8. Execs' = Execs \cup {Len(run) + 1} /\ Len(run) + 1 \notin Execs
  BY <1>5, Shape DEF Execs
<1> QED
  BY <1>1, <1>5, <1>6, <1>7, <1>8, Shape

LEMMA RunStays ==
  ASSUME [Next]_vars
  PROVE  CreateRun \/ UNCHANGED run
BY DEF Next, Connection, Dial, OnConnectEvent, Receive, OnMessageEvent, PollSend, Interrupted,
       SocketRequest, SocketResponse, Provisioner, ProvisionerRequest, ModuleAdd, Respond,
       CheckBacklog, Restart, Execution, Begin, RunStarts, RunEnds, Update, SendUpdate,
       LockReport, SendReport, DeleteNothing, FoundToDelete, DeleteRun,
       Main, Signal, SuspendRuns, RunsAreDone, Exit, vars, goroutines

LEMMA ExecsGrow ==
  ASSUME Typed, [Next]_vars
  PROVE  Execs \subseteq Execs' /\ \A e \in Execs : run'[e] = run[e]
<1>1. CASE CreateRun
  BY <1>1, Created DEF Typed
<1>2. CASE UNCHANGED run
  BY <1>2 DEF Execs
<1> QED
  BY <1>1, <1>2, RunStays

\* Messages are made by the provisioner and by executions, and taken in turn.
LEMMA MessageSteps ==
  ASSUME [Next]_vars
  PROVE  \/ UNCHANGED <<c0, sending, told>>
         \/ SocketRequest \/ PollSend
         \/ Socket(Module) /\ UNCHANGED <<sending, told, run, main, updater>>
         \/ \E e \in Execs : SendUpdate(e) \/ SendReport(e)
BY DEF Next, Connection, Dial, OnConnectEvent, Receive, OnMessageEvent, Interrupted,
       SocketResponse, Provisioner, ProvisionerRequest, CreateRun, ModuleAdd, Respond,
       CheckBacklog, Restart, Execution, Begin, RunStarts, RunEnds, Update,
       LockReport, DeleteNothing, FoundToDelete, DeleteRun, channels, goroutines,
       Main, Signal, SuspendRuns, RunsAreDone, Exit, vars

LEMMA Sends ==
  ASSUME MessagesFit, NEW m \in Messages, Names(m), Socket(m), UNCHANGED <<sending, told>>,
         Execs \subseteq Execs'
  PROVE  MessagesFit'
<1>1. c0' \in Seq(Messages) /\ \A i \in DOMAIN c0' : Names(c0'[i])
  BY Adds DEF MessagesFit, Socket
<1> QED
  BY <1>1 DEF MessagesFit, Names

LEMMA StepMessages ==
  ASSUME Typed, [Next]_vars
  PROVE  MessagesFit'
<1>g. Execs \subseteq Execs'
  BY ExecsGrow
<1>1. CASE UNCHANGED <<c0, sending, told>>
  BY <1>g, <1>1 DEF Typed, MessagesFit, Names
<1>2. CASE SocketRequest
  <2>1. /\ c0' \in Seq(Messages) /\ Head(c0) \in Messages /\ Names(Head(c0))
        /\ \A i \in DOMAIN c0' : Names(c0'[i])
    BY <1>2, Takes DEF SocketRequest, Typed, MessagesFit
  <2>2. sending' \in {sending, Head(c0)} /\ told' \subseteq Execs
    BY <1>2, <2>1 DEF SocketRequest, Tell, Names, Typed, MessagesFit
  <2> QED
    BY <1>g, <2>1, <2>2 DEF Typed, MessagesFit, Names
<1>3. CASE PollSend
  <2>1. UNCHANGED c0 /\ sending' = Nothing /\ told' \subseteq Execs
    BY <1>3 DEF PollSend, Tell, Names, Typed, MessagesFit, channels
  <2> QED
    BY <1>g, <2>1, AboutMessages DEF Typed, MessagesFit, Names
<1>4. CASE Socket(Module) /\ UNCHANGED <<sending, told>>
  BY <1>g, <1>4, AboutMessages, Sends DEF Typed, Names
<1>5. ASSUME NEW e \in Execs, SendUpdate(e) \/ SendReport(e)
      PROVE MessagesFit'
  <2>1. e \in Nat
    BY Shape DEF Typed
  <2> QED
    BY <1>g, <1>5, <2>1, AboutMessages, Sends DEF SendUpdate, SendReport, Typed, Names
<1> QED
  BY <1>1, <1>2, <1>3, <1>4, <1>5, MessageSteps

LEMMA Asks ==
  ASSUME c1 \in Seq(Requests), NEW r \in Requests, Provision(r)
  PROVE  c1' \in Seq(Requests)
BY Adds DEF Provision

LEMMA StepRequests ==
  ASSUME Typed, [Next]_vars
  PROVE  RequestsFit'
<1> USE DEF Typed, RequestsFit
<1>z. RegisterModules \in Requests /\ Runs \subseteq Requests
  BY DEF Requests
<1>1. CASE Dial \/ PollSend \/ Interrupted \/ SocketRequest
  BY <1>1 DEF Dial, PollSend, Interrupted, SocketRequest, channels, poll, threads
<1>2. CASE OnConnectEvent
  BY <1>2, <1>z, Asks DEF OnConnectEvent, threads
<1>3. CASE Receive
  BY <1>3 DEF Receive, channels, threads, Runs
<1>4. CASE OnMessageEvent
  BY <1>4, <1>z, Asks DEF OnMessageEvent, threads
<1>5. CASE SocketResponse
  BY <1>5 DEF SocketResponse, poll, threads
<1>6. CASE ProvisionerRequest
  <2>1. c1' \in Seq(Requests) /\ Head(c1) \in Requests
    BY <1>6, Takes DEF ProvisionerRequest
  <2>2. CASE Head(c1) = RegisterModules
    BY <1>6, <2>1, <2>2 DEF ProvisionerRequest, ReportModules, poll
  <2>3. CASE Head(c1) # RegisterModules
    <3>1. Head(c1) \in Runs
      BY <2>1, <2>3 DEF Requests
    <3>2. Admit(Head(c1)) /\ UNCHANGED <<c2, poll, restarting>>
      BY <1>6, <2>3 DEF ProvisionerRequest
    <3>3. /\ active' \in Int /\ active' <= MaxNumOfSupervisors /\ left' = left
          /\ prov' \in {"lock", "respond"} /\ creating' \in {0} \cup Runs
          /\ prov' = "lock" => creating' \in Runs
      BY <3>1, <3>2 DEF Admit
    <3>4. backlog' \in Seq(Runs)
      BY <3>1, <3>2, Adds DEF Admit
    <3> QED
      BY <2>1, <3>2, <3>3, <3>4 DEF poll
  <2> QED
    BY <2>2, <2>3
<1>7. CASE CreateRun
  BY <1>7 DEF CreateRun, channels, poll
<1>8. CASE ModuleAdd
  BY <1>8 DEF ModuleAdd, poll
<1>9. CASE Respond
  BY <1>9 DEF Respond, poll
<1>10. CASE CheckBacklog
  BY <1>10, Takes DEF CheckBacklog, channels, poll
<1>11. CASE Restart
  <2>1. restarting \in Runs
    BY <1>11 DEF Restart
  <2> QED
    BY <1>11, <1>z, <2>1, Asks DEF Restart, poll
<1>12. ASSUME NEW e \in Execs, Execution(e)
       PROVE RequestsFit'
  <2>1. /\ UNCHANGED <<c1, c2, poll, prov, creating, left, backlog, restarting>>
        /\ active' = active \/ active' = active - 1
    BY <1>12 DEF Execution, Begin, RunStarts, RunEnds, Update, SendUpdate, LockReport, SendReport,
                 DeleteNothing, FoundToDelete, DeleteRun, Finish, channels, threads
  <2> QED
    BY <2>1 DEF poll
<1>13. CASE Main \/ UNCHANGED vars
  BY <1>13 DEF Main, Signal, SuspendRuns, RunsAreDone, Exit, vars, channels, poll, threads
<1> QED
  BY <1>1, <1>2, <1>3, <1>4, <1>5, <1>6, <1>7, <1>8, <1>9, <1>10, <1>11, <1>12, <1>13
     DEF Next, Connection, Provisioner

LEMMA ExecsStay ==
  ASSUME ExecsFit, UNCHANGED <<goroutines, table, stopping>>
  PROVE  ExecsFit'
BY DEF ExecsFit, Execs, Waited, goroutines, table, stopping

\* An execution moves, the wait group with it.
LEMMA CountMoves ==
  ASSUME ExecsFit, NEW e \in Execs, NEW from, NEW to \in Mains, Moves(e, from, to), UNCHANGED run,
         \/ from \notin {"start", "done"} /\ to \notin {"start", "done"} /\ runWg' = runWg
         \/ from = "start" /\ to \notin {"start", "done"} /\ runWg' = runWg + 1
         \/ from \notin {"start", "done"} /\ to = "done" /\ runWg' = runWg - 1
  PROVE  runWg' = Cardinality(Waited') /\ Execs' = Execs
<1>1. Execs' = Execs
  BY DEF Execs
<1>2. CASE from \notin {"start", "done"} /\ to \notin {"start", "done"} /\ runWg' = runWg
  <2>1. Waited' = Waited
    BY <1>1, <1>2, Moved DEF Waited
  <2> QED
    BY <1>1, <1>2, <2>1 DEF ExecsFit
<1>3. CASE from = "start" /\ to \notin {"start", "done"} /\ runWg' = runWg + 1
  <2>1. Waited' = Waited \cup {e} /\ e \notin Waited
    BY <1>1, <1>3, Moved DEF Waited
  <2>2. Cardinality(Waited') = Cardinality(Waited) + 1
    BY <2>1, Shape, FS_AddElement
  <2> QED
    BY <1>1, <1>3, <2>2 DEF ExecsFit
<1>4. CASE from \notin {"start", "done"} /\ to = "done" /\ runWg' = runWg - 1
  <2>1. Waited' = Waited \ {e} /\ e \in Waited
    BY <1>1, <1>4, Moved DEF Waited
  <2>2. Cardinality(Waited') = Cardinality(Waited) - 1
    BY <2>1, Shape, FS_RemoveElement
  <2> QED
    BY <1>1, <1>4, <2>2 DEF ExecsFit
<1> QED
  BY <1>2, <1>3, <1>4

LEMMA StepExecs ==
  ASSUME Typed, [Next]_vars
  PROVE  ExecsFit'
<1>f. ExecsFit
  BY DEF Typed
<1>1. CASE UNCHANGED <<goroutines, table, stopping>>
  BY <1>1, <1>f, ExecsStay
<1>2. CASE CreateRun
  <2>1. Waited' = Waited /\ Execs \subseteq Execs' /\ Len(run) + 1 \in Execs'
    BY <1>2, Created DEF Waited, Typed
  <2>2. runs' \in [Runs -> {0} \cup Execs']
    BY <1>2, <1>f, <2>1 DEF CreateRun, ExecsFit
  <2>3. UNCHANGED <<leaked, suspended, teardown, runWg>>
    BY <1>2 DEF CreateRun, stopping
  <2> QED
    BY <1>2, <1>f, <2>1, <2>2, <2>3, Created DEF ExecsFit, Typed
<1>3. ASSUME NEW e \in Execs, Execution(e)
      PROVE ExecsFit'
  <2>1. UNCHANGED <<run, suspended, teardown>> /\ Execs' = Execs
    BY <1>3 DEF Execution, Begin, RunStarts, RunEnds, Update, SendUpdate, LockReport, SendReport,
                DeleteNothing, FoundToDelete, DeleteRun, stopping, Execs
  <2>2. updater' \in Seq(Updaters) /\ Len(updater') = Len(updater)
    <3>1. \/ UNCHANGED updater
          \/ \E to \in Updaters : updater' = [updater EXCEPT ![e] = to]
      BY <1>3 DEF Execution, Begin, RunStarts, RunEnds, Update, SendUpdate, LockReport, SendReport,
                  DeleteNothing, FoundToDelete, DeleteRun, Updaters
    <3> QED
      BY <1>f, <3>1, Shape, Sets DEF ExecsFit
  <2>3. runs' \in [Runs -> {0} \cup Execs] /\ leaked' \in Nat
    BY <1>3, <1>f DEF Execution, Begin, RunStarts, RunEnds, Update, SendUpdate, LockReport,
                SendReport, DeleteNothing, FoundToDelete, DeleteRun, table, ExecsFit
  <2>4. /\ main' \in Seq(Mains) /\ Len(main') = Len(main)
        /\ runWg' = Cardinality(Waited')
    <3>1. CASE Update(e) \/ SendUpdate(e)
      <4>1. UNCHANGED <<main, runWg>>
        BY <3>1 DEF Update, SendUpdate
      <4> QED
        BY <1>f, <2>1, <4>1 DEF ExecsFit, Waited
    <3>2. CASE Begin(e)
      BY <1>f, <2>1, <3>2, Moved, CountMoves DEF Begin, Mains, ExecsFit
    <3>3. CASE RunStarts(e) \/ RunEnds(e) \/ LockReport(e) \/ SendReport(e) \/ FoundToDelete(e)
      <4>1. PICK from \in Mains, to \in Mains :
              /\ Moves(e, from, to) /\ runWg' = runWg
              /\ from \notin {"start", "done"} /\ to \notin {"start", "done"}
        BY <3>3 DEF RunStarts, RunEnds, LockReport, SendReport, FoundToDelete, Mains, goroutines
      <4> QED
        BY <1>f, <2>1, <4>1, Moved, CountMoves
    <3>4. CASE DeleteNothing(e) \/ DeleteRun(e)
      <4>1. PICK from \in Mains :
              Moves(e, from, "done") /\ runWg' = runWg - 1 /\ from \notin {"start", "done"}
        BY <3>4 DEF DeleteNothing, DeleteRun, Finish, Mains
      <4> QED
        BY <1>f, <2>1, <4>1, Moved, CountMoves DEF Mains
    <3> QED
      BY <1>3, <3>1, <3>2, <3>3, <3>4 DEF Execution
  <2> QED
    BY <1>f, <2>1, <2>2, <2>3, <2>4 DEF ExecsFit
<1>4. CASE Main
  <2>1. UNCHANGED <<goroutines, table>> /\ suspended' \subseteq Execs
        /\ teardown' \in {"no", "suspend", "wait", "drain", "exit"}
    BY <1>4, <1>f DEF Main, Signal, SuspendRuns, RunsAreDone, Exit, ExecsFit
  <2> QED
    BY <1>f, <2>1 DEF ExecsFit, Execs, Waited, goroutines, table
<1> QED
  BY <1>1, <1>2, <1>3, <1>4
     DEF Next, Connection, Dial, OnConnectEvent, Receive, OnMessageEvent, PollSend, Interrupted,
         SocketRequest, SocketResponse, Provisioner, ProvisionerRequest, ModuleAdd, Respond,
         CheckBacklog, Restart, vars

LEMMA StepTyped ==
  ASSUME Typed, [Next]_vars
  PROVE  Typed'
BY StepMessages, StepRequests, StepExecs DEF Typed

\* Every variable of the worker keeps its type; the wait group never goes below zero.
THEOREM TypeCorrect == Spec => []TypeOK
<1>1. Spec => []Typed
  BY InitTyped, StepTyped, PTL DEF Spec
<1> QED
  BY <1>1, TypedIsTypeOK, PTL
-----------------------------------------------------------------------------
(* The map of runs. *)

\* The runs that were created twice, and what the map holds of the others.
Reruns == {r \in Runs : \E e, f \in Execs : e # f /\ run[e] = r /\ run[f] = r}

MapHolds ==
  /\ \A e \in Execs : run[e] \notin Reruns => (runs[run[e]] = e <=> main[e] # "done")
  /\ leaked > 0 => Reruns # {}

LEMMA MapHoldsIsKept == ExecsFit /\ MapHolds => KeptUntilDeleted
<1> SUFFICES ASSUME ExecsFit, MapHolds PROVE KeptUntilDeleted
  OBVIOUS
<1>1. \A r \in Runs : r \in Reruns <=> Rerun(r)
  BY DEF Reruns, Rerun
<1> QED
  BY <1>1, Shape DEF MapHolds, KeptUntilDeleted, Reruns

LEMMA RerunsGrow ==
  ASSUME Typed, [Next]_vars
  PROVE  Reruns \subseteq Reruns'
BY ExecsGrow DEF Reruns

\* A step that ends no execution and leaves the map alone.
LEMMA MapStays ==
  ASSUME MapHolds, UNCHANGED <<run, runs, leaked>>,
         \A e \in Execs : main'[e] = "done" <=> main[e] = "done"
  PROVE  MapHolds'
BY DEF MapHolds, Reruns, Execs

LEMMA StepMap ==
  ASSUME Typed, MapHolds, [Next]_vars
  PROVE  MapHolds'
<1>f. ExecsFit
  BY DEF Typed
<1>m. leaked > 0 => Reruns' # {}
  BY RerunsGrow DEF MapHolds
<1>1. CASE UNCHANGED <<run, runs, leaked, main>>
  BY <1>1, MapStays
<1>2. CASE CreateRun
  <2> DEFINE n == Len(run) + 1
  <2>1. /\ runs' = [runs EXCEPT ![creating] = n] /\ UNCHANGED leaked
        /\ runs \in [Runs -> {0} \cup Execs]
    BY <1>2, <1>f DEF CreateRun, ExecsFit
  <2>2. /\ Execs' = Execs \cup {n} /\ n \notin Execs
        /\ \A f \in Execs : run'[f] = run[f] /\ main'[f] = main[f] /\ run[f] \in Runs
        /\ run'[n] = creating /\ creating \in Runs /\ main'[n] = "start"
    BY <1>2, <1>f, Created, Shape DEF Typed
  <2> HIDE DEF n
  <2>3. \A e \in Execs' : run'[e] \notin Reruns' => (runs'[run'[e]] = e <=> main'[e] # "done")
    <3> SUFFICES ASSUME NEW e \in Execs', run'[e] \notin Reruns'
                 PROVE  runs'[run'[e]] = e <=> main'[e] # "done"
      OBVIOUS
    <3>1. CASE e = n
      BY <2>1, <2>2, <3>1
    <3>2. CASE e # n
      <4>1. e \in Execs /\ run'[e] = run[e] /\ main'[e] = main[e]
        BY <2>2, <3>2
      <4>2. run[e] # creating
        <5> SUFFICES ASSUME run[e] = creating PROVE FALSE
          OBVIOUS
        <5>1. n \in Execs' /\ e \in Execs' /\ run'[n] = run'[e] /\ n # e
          BY <2>2, <3>2, <4>1
        <5> QED
          BY <2>2, <4>1, <5>1 DEF Reruns
      <4>3. run[e] \notin Reruns
        BY <4>1, RerunsGrow
      <4> QED
        BY <2>1, <4>1, <4>2, <4>3 DEF MapHolds
    <3> QED
      BY <3>1, <3>2
  <2> QED
    BY <1>m, <2>1, <2>3 DEF MapHolds
<1>3. ASSUME NEW e \in Execs, DeleteNothing(e)
      PROVE MapHolds'
  <2>1. Moves(e, "delete", "done") /\ UNCHANGED <<runs, run>>
    BY <1>3 DEF DeleteNothing
  <2>2. main[e] = "delete" /\ \A f \in Execs : f # e => main'[f] = main[f]
    BY <1>f, <2>1, Moved DEF Mains
  <2>3. run[e] \in Reruns
    <3>1. CASE runs[run[e]] = 0
      BY <2>2, <3>1, <1>f, Shape DEF MapHolds
    <3>2. CASE runs[run[e]] # 0 /\ IsRunning(runs[run[e]])
      BY <2>2, <3>2 DEF MapHolds, IsRunning
    <3> QED
      BY <1>3, <3>1, <3>2 DEF DeleteNothing
  <2>4. Execs' = Execs /\ Reruns' = Reruns
    BY <2>1 DEF Execs, Reruns
  <2>5. \A f \in Execs' : run'[f] \notin Reruns' => (runs'[run'[f]] = f <=> main'[f] # "done")
    BY <2>1, <2>2, <2>3, <2>4 DEF MapHolds
  <2> QED
    BY <2>3, <2>4, <2>5 DEF MapHolds
<1>4. ASSUME NEW e \in Execs, DeleteRun(e)
      PROVE MapHolds'
  <2>1. Moves(e, "erase", "done") /\ UNCHANGED <<run, leaked>>
        /\ runs' = [runs EXCEPT ![run[e]] = 0] /\ runs \in [Runs -> {0} \cup Execs]
    BY <1>4, <1>f DEF DeleteRun, RunOf, ExecsFit
  <2>2. main'[e] = "done" /\ \A f \in Execs : f # e => main'[f] = main[f]
    BY <1>f, <2>1, Moved DEF Mains
  <2>3. Execs' = Execs /\ Reruns' = Reruns
    BY <2>1 DEF Execs, Reruns
  <2>4. \A f \in Execs : run[f] \notin Reruns => (runs'[run[f]] = f <=> main'[f] # "done")
    <3> SUFFICES ASSUME NEW f \in Execs, run[f] \notin Reruns
                 PROVE  runs'[run[f]] = f <=> main'[f] # "done"
      OBVIOUS
    <3>0. run[f] \in Runs /\ run[e] \in Runs /\ 0 \notin Execs
      BY <1>f, Shape
    <3>1. CASE f = e
      BY <2>1, <2>2, <3>0, <3>1
    <3>2. CASE f # e
      <4>1. run[f] # run[e]
        BY <3>0, <3>2 DEF Reruns
      <4> QED
        BY <2>1, <2>2, <3>0, <3>2, <4>1 DEF MapHolds
    <3> QED
      BY <3>1, <3>2
  <2> QED
    BY <1>m, <2>1, <2>3, <2>4 DEF MapHolds
<1>5. ASSUME NEW e \in Execs,
             Begin(e) \/ RunStarts(e) \/ RunEnds(e) \/ LockReport(e) \/ SendReport(e) \/ FoundToDelete(e)
      PROVE MapHolds'
  <2>1. /\ UNCHANGED <<run, runs, leaked>>
        /\ \E from \in Mains \ {"done"}, to \in Mains \ {"done"} : Moves(e, from, to)
    BY <1>5 DEF Begin, RunStarts, RunEnds, LockReport, SendReport, FoundToDelete, Mains,
                table, goroutines
  <2> QED
    BY <1>f, <2>1, Moved, MapStays
<1> QED
  BY <1>1, <1>2, <1>3, <1>4, <1>5
     DEF Next, Connection, Dial, OnConnectEvent, Receive, OnMessageEvent, PollSend, Interrupted,
         SocketRequest, SocketResponse, Provisioner, ProvisionerRequest, ModuleAdd, Respond,
         CheckBacklog, Restart, Execution, Update, SendUpdate,
         Main, Signal, SuspendRuns, RunsAreDone, Exit, vars, table, goroutines

\* A run the backlog has not started again is in the map of runs until it has reported its end,
\* and no read lock is lost for it.
THEOREM Kept == Spec => []KeptUntilDeleted
<1>1. Init => MapHolds
  BY Empty DEF Init, MapHolds, Execs
<1>2. Typed /\ MapHolds => KeptUntilDeleted
  BY MapHoldsIsKept DEF Typed
<1> QED
  BY <1>1, <1>2, InitTyped, StepTyped, StepMap, PTL DEF Spec
-----------------------------------------------------------------------------
(* What the core is told of a run, in which order. *)

Finishing == {"report", "delete", "erase", "done"}
Reported  == {"delete", "erase", "done"}

\* The end of an execution has been reported, or is on its way or gone.
HasReported(e) == e \in Execs /\ main[e] \in Reported

\* Progress is not reported while the end is, or after: the mutex, taken to report the end, keeps
\* the other goroutine from reporting again; and the messages stay in the order they were made.
Silent == \A e \in Execs : main[e] \in Finishing => updater[e] # "push"

EndsAreReported ==
  /\ \A i \in DOMAIN c0 : c0[i].about = "ended" => HasReported(c0[i].exec)
  /\ sending.about = "ended" => HasReported(sending.exec)
  /\ \A e \in told : HasReported(e)

EndsComeLast ==
  /\ \A i, j \in DOMAIN c0 : c0[i].about = "ended" /\ i < j => c0[j] # Active(c0[i].exec)
  /\ sending.about = "ended" => \A i \in DOMAIN c0 : c0[i] # Active(sending.exec)
  /\ \A e \in told : sending # Active(e) /\ \A i \in DOMAIN c0 : c0[i] # Active(e)

Order == Silent /\ EndsAreReported /\ EndsComeLast

LEMMA StepSilent ==
  ASSUME Typed, Silent, [Next]_vars
  PROVE  Silent'
<1>f. ExecsFit
  BY DEF Typed
<1>1. CASE UNCHANGED <<run, main, updater>>
  BY <1>1 DEF Silent, Execs
<1>2. CASE CreateRun
  BY <1>2, Created DEF Typed, Silent, Finishing
<1>3. ASSUME NEW e \in Execs, UNCHANGED <<run, updater>>,
             NEW from \in Mains, NEW to \in Mains, Moves(e, from, to),
             to \in Finishing => from \in Finishing \/ updater[e] # "push"
      PROVE Silent'
  BY <1>f, <1>3, Moved DEF Silent, Execs
<1>4. ASSUME NEW e \in Execs, Begin(e)
      PROVE Silent'
  <2>1. Moves(e, "start", "ready") /\ updater' = [updater EXCEPT ![e] = "lock"] /\ UNCHANGED run
    BY <1>4 DEF Begin
  <2>2. main'[e] = "ready" /\ \A f \in Execs : f # e => main'[f] = main[f] /\ updater'[f] = updater[f]
    BY <1>f, <2>1, Moved, Shape DEF Mains
  <2> QED
    BY <2>1, <2>2 DEF Silent, Finishing, Execs
<1>5. ASSUME NEW e \in Execs, Update(e) \/ SendUpdate(e)
      PROVE Silent'
  <2>1. UNCHANGED <<run, main>>
    BY <1>5 DEF Update, SendUpdate
  <2>2. PICK to \in Updaters : updater' = [updater EXCEPT ![e] = to] /\ (to = "push" => IsRunning(e))
    BY <1>5 DEF Update, SendUpdate, Updaters
  <2>3. \A f \in Execs : updater'[f] = IF f = e THEN to ELSE updater[f]
    BY <1>f, <2>2, Shape
  <2> QED
    BY <2>1, <2>2, <2>3 DEF Silent, Finishing, IsRunning, Execs
<1>6. ASSUME NEW e \in Execs, RunStarts(e) \/ RunEnds(e) \/ LockReport(e)
      PROVE Silent'
  BY <1>3, <1>6 DEF RunStarts, RunEnds, LockReport, MutexIsFree, Finishing, Mains
<1>7. ASSUME NEW e \in Execs, SendReport(e) \/ DeleteNothing(e) \/ FoundToDelete(e) \/ DeleteRun(e)
      PROVE Silent'
  BY <1>3, <1>7 DEF SendReport, DeleteNothing, FoundToDelete, DeleteRun, Finishing, Mains, goroutines
<1> QED
  BY <1>1, <1>2, <1>4, <1>5, <1>6, <1>7
     DEF Next, Connection, Dial, OnConnectEvent, Receive, OnMessageEvent, PollSend, Interrupted,
         SocketRequest, SocketResponse, Provisioner, ProvisionerRequest, ModuleAdd, Respond,
         CheckBacklog, Restart, Execution, Main, Signal, SuspendRuns, RunsAreDone, Exit,
         vars, goroutines

LEMMA ReportedStays ==
  ASSUME Typed, [Next]_vars
  PROVE  \A e : HasReported(e) => HasReported(e)'
<1>f. ExecsFit
  BY DEF Typed
<1> SUFFICES ASSUME NEW e, e \in Execs, main[e] \in Reported
             PROVE  e \in Execs' /\ main'[e] \in Reported
  BY DEF HasReported
<1>1. e \in Execs'
  BY ExecsGrow
<1>2. CASE UNCHANGED main
  BY <1>1, <1>2
<1>3. CASE CreateRun
  BY <1>1, <1>3, Created DEF Typed
<1>4. ASSUME NEW f \in Execs, NEW from \in Mains, NEW to \in Mains, Moves(f, from, to),
             from \in Reported => to \in Reported
      PROVE main'[e] \in Reported
  BY <1>f, <1>4, Moved
<1>5. ASSUME NEW f \in Execs,
             Begin(f) \/ RunStarts(f) \/ RunEnds(f) \/ LockReport(f) \/ SendReport(f)
               \/ DeleteNothing(f) \/ FoundToDelete(f) \/ DeleteRun(f)
      PROVE main'[e] \in Reported
  BY <1>4, <1>5 DEF Begin, RunStarts, RunEnds, LockReport, SendReport, DeleteNothing,
                    FoundToDelete, DeleteRun, Reported, Mains
<1> QED
  BY <1>1, <1>2, <1>3, <1>5
     DEF Next, Connection, Dial, OnConnectEvent, Receive, OnMessageEvent, PollSend, Interrupted,
         SocketRequest, SocketResponse, Provisioner, ProvisionerRequest, ModuleAdd, Respond,
         CheckBacklog, Restart, Execution, Update, SendUpdate,
         Main, Signal, SuspendRuns, RunsAreDone, Exit, vars, goroutines

\* Taking the oldest message to be sent.
LEMMA TakeOrder ==
  ASSUME Typed, EndsAreReported, EndsComeLast, SocketRequest
  PROVE  /\ \A i \in DOMAIN c0' : c0'[i].about = "ended" => HasReported(c0'[i].exec)
         /\ sending'.about = "ended" => HasReported(sending'.exec)
         /\ \A e \in told' : HasReported(e)
         /\ EndsComeLast'
<1>1. /\ c0 \in Seq(Messages) /\ c0 # <<>> /\ c0' = Tail(c0) /\ sending = Nothing
      /\ \/ sending' = Head(c0) /\ told' = told
         \/ sending' = Nothing /\ Tell(Head(c0))
  BY DEF Typed, MessagesFit, SocketRequest
<1>2. /\ 1 \in DOMAIN c0 /\ Head(c0) = c0[1] /\ DOMAIN c0 \subseteq Nat /\ 0 \notin DOMAIN c0
      /\ \A i \in DOMAIN c0' : i \in Nat \ {0} /\ i + 1 \in DOMAIN c0 /\ c0'[i] = c0[i + 1]
  BY <1>1, Takes
<1>3. told' \subseteq told \cup {c0[1].exec} /\ (c0[1].about # "ended" => told' = told)
  BY <1>1, <1>2 DEF Tell
<1>4. \A i \in DOMAIN c0' : c0'[i].about = "ended" => HasReported(c0'[i].exec)
  BY <1>2 DEF EndsAreReported
<1>5. sending'.about = "ended" => HasReported(sending'.exec)
  BY <1>1, <1>2, AboutMessages DEF EndsAreReported
<1>6. \A e \in told' : HasReported(e)
  BY <1>2, <1>3 DEF EndsAreReported
<1>7. \A i, j \in DOMAIN c0' : c0'[i].about = "ended" /\ i < j => c0'[j] # Active(c0'[i].exec)
  <2> SUFFICES ASSUME NEW i \in DOMAIN c0', NEW j \in DOMAIN c0', c0'[i].about = "ended", i < j
               PROVE  c0'[j] # Active(c0'[i].exec)
    OBVIOUS
  <2>1. i + 1 < j + 1
    BY <1>2
  <2> QED
    BY <1>2, <2>1 DEF EndsComeLast
<1>8. c0[1].about = "ended" => \A i \in DOMAIN c0' : c0'[i] # Active(c0[1].exec)
  <2> SUFFICES ASSUME c0[1].about = "ended", NEW i \in DOMAIN c0'
               PROVE  c0'[i] # Active(c0[1].exec)
    OBVIOUS
  <2>1. 1 < i + 1
    BY <1>2
  <2> QED
    BY <1>2, <2>1 DEF EndsComeLast
<1>9. sending'.about = "ended" => \A i \in DOMAIN c0' : c0'[i] # Active(sending'.exec)
  BY <1>1, <1>2, <1>8, AboutMessages
<1>10. \A e \in told' : sending' # Active(e) /\ \A i \in DOMAIN c0' : c0'[i] # Active(e)
  <2>1. CASE told' = told
    <3>1. \A e \in told : c0[1] # Active(e) /\ Nothing # Active(e)
      BY <1>2, AboutMessages DEF EndsComeLast
    <3>2. sending' \in {c0[1], Nothing}
      BY <1>1, <1>2
    <3> QED
      BY <1>2, <2>1, <3>1, <3>2 DEF EndsComeLast
  <2>2. CASE told' # told
    <3>1. sending' = Nothing /\ c0[1].about = "ended"
      BY <1>1, <1>3, <2>2
    <3>2. \A e : Nothing # Active(e)
      BY AboutMessages
    <3> QED
      BY <1>2, <1>3, <1>8, <3>1, <3>2 DEF EndsComeLast
  <2> QED
    BY <2>1, <2>2
<1> QED
  BY <1>4, <1>5, <1>6, <1>7, <1>9, <1>10 DEF EndsComeLast

\* A new message: that the run is active, by an execution that has not reported its end, or
\* any other.
LEMMA AddOrder ==
  ASSUME Typed, EndsAreReported, EndsComeLast, NEW m \in Messages, Socket(m),
         UNCHANGED <<sending, told>>,
         m.about = "active" => ~HasReported(m.exec)
  PROVE  /\ \A i \in DOMAIN c0' : c0'[i].about = "ended" => c0'[i] = m \/ HasReported(c0'[i].exec)
         /\ EndsComeLast'
<1>1. c0 \in Seq(Messages) /\ c0' = Append(c0, m)
  BY DEF Typed, MessagesFit, Socket
<1>2. /\ \A i \in DOMAIN c0 : i \in DOMAIN c0' /\ c0'[i] = c0[i] /\ i \in Nat /\ i <= Len(c0)
      /\ \A i \in DOMAIN c0' : i \in DOMAIN c0 \/ (i = Len(c0) + 1 /\ c0'[i] = m)
      /\ Len(c0) \in Nat
  BY <1>1
<1>3. \A e : m = Active(e) => ~HasReported(e)
  BY AboutMessages
<1>4. \A i \in DOMAIN c0' : c0'[i].about = "ended" => c0'[i] = m \/ HasReported(c0'[i].exec)
  BY <1>2 DEF EndsAreReported
<1>5. \A i, j \in DOMAIN c0' : c0'[i].about = "ended" /\ i < j => c0'[j] # Active(c0'[i].exec)
  <2> SUFFICES ASSUME NEW i \in DOMAIN c0', NEW j \in DOMAIN c0', c0'[i].about = "ended", i < j
               PROVE  c0'[j] # Active(c0'[i].exec)
    OBVIOUS
  <2>1. i \in DOMAIN c0 /\ c0'[i] = c0[i]
    BY <1>2
  <2>2. CASE j \in DOMAIN c0
    BY <1>2, <2>1, <2>2 DEF EndsComeLast
  <2>3. CASE c0'[j] = m
    BY <1>3, <2>1, <2>3 DEF EndsAreReported
  <2> QED
    BY <1>2, <2>2, <2>3
<1>6. sending.about = "ended" => \A i \in DOMAIN c0' : c0'[i] # Active(sending.exec)
  BY <1>2, <1>3 DEF EndsComeLast, EndsAreReported
<1>7. \A e \in told : \A i \in DOMAIN c0' : c0'[i] # Active(e)
  BY <1>2, <1>3 DEF EndsComeLast, EndsAreReported
<1> QED
  BY <1>4, <1>5, <1>6, <1>7 DEF EndsComeLast

LEMMA StepOrder ==
  ASSUME Typed, Order, [Next]_vars
  PROVE  EndsAreReported' /\ EndsComeLast'
<1>f. ExecsFit
  BY DEF Typed
<1>o. Silent /\ EndsAreReported /\ EndsComeLast
  BY DEF Order
<1>r. \A e : HasReported(e) => HasReported(e)'
  BY ReportedStays
<1>1. CASE UNCHANGED <<c0, sending, told>>
  BY <1>o, <1>r, <1>1 DEF EndsAreReported, EndsComeLast
<1>2. CASE SocketRequest
  BY <1>o, <1>r, <1>2, TakeOrder DEF EndsAreReported
<1>3. CASE PollSend
  <2>1. UNCHANGED c0 /\ sending' = Nothing /\ Tell(sending)
    BY <1>3 DEF PollSend, channels
  <2>2. told' = told \/ (sending.about = "ended" /\ told' = told \cup {sending.exec})
    BY <2>1 DEF Tell
  <2>3. \A e \in told' : HasReported(e) /\ \A i \in DOMAIN c0 : c0[i] # Active(e)
    BY <1>o, <2>2 DEF EndsAreReported, EndsComeLast
  <2>4. \A e : Nothing # Active(e)
    BY AboutMessages
  <2> QED
    BY <1>o, <1>r, <2>1, <2>3, <2>4, AboutMessages DEF EndsAreReported, EndsComeLast
<1>4. CASE Socket(Module) /\ UNCHANGED <<sending, told>>
  BY <1>o, <1>r, <1>4, AddOrder, AboutMessages DEF EndsAreReported
<1>5. ASSUME NEW e \in Execs, SendUpdate(e)
      PROVE EndsAreReported' /\ EndsComeLast'
  <2>1. updater[e] = "push" /\ Socket(Active(e)) /\ UNCHANGED <<sending, told>>
    BY <1>5 DEF SendUpdate
  <2>2. ~HasReported(e) /\ e \in Nat
    BY <1>f, <1>o, <2>1, Shape DEF Silent, HasReported, Finishing, Reported
  <2> QED
    BY <1>o, <1>r, <2>1, <2>2, AddOrder, AboutMessages DEF EndsAreReported
<1>6. ASSUME NEW e \in Execs, SendReport(e)
      PROVE EndsAreReported' /\ EndsComeLast'
  <2>1. Moves(e, "report", "delete") /\ Socket(Ended(e)) /\ UNCHANGED <<run, sending, told>>
    BY <1>6 DEF SendReport
  <2>2. HasReported(e)'
    BY <1>f, <2>1, Moved DEF HasReported, Reported, Mains, Execs
  <2>3. e \in Nat
    BY <1>f, Shape
  <2> QED
    BY <1>o, <1>r, <2>1, <2>2, <2>3, AddOrder, AboutMessages DEF EndsAreReported
<1> QED
  BY <1>1, <1>2, <1>3, <1>4, <1>5, <1>6, MessageSteps

\* The end of a run is the last the core is told of it, whatever the goroutines of its execution
\* and the socket thread do: nothing that says it is active comes after.
THEOREM ToldLast == Spec => []EndIsToldLast
<1>1. Init => Order
  <2>1. Init => Execs = {} /\ c0 = <<>> /\ told = {} /\ sending = Nothing
    BY Empty DEF Init, Execs
  <2> QED
    BY <2>1, Empty, AboutMessages DEF Order, Silent, EndsAreReported, EndsComeLast
<1>2. Typed /\ Order /\ [Next]_vars => Order'
  BY StepSilent, StepOrder DEF Order
<1>3. Order => EndIsToldLast
  BY DEF Order, Silent, EndsAreReported, EndsComeLast, EndIsToldLast, HasReported, Finishing, Reported
<1> QED
  BY <1>1, <1>2, <1>3, InitTyped, StepTyped, PTL DEF Spec
=============================================================================
