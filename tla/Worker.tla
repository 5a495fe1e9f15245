------------------------------- MODULE Worker -------------------------------
(***************************************************************************)
(* A worker of the core (internal/targets/processor): the socket thread,   *)
(* the provisioner thread with its backlog goroutine, the two goroutines   *)
(* of each run, the goroutine that polls the connection to the core, and   *)
(* the teardown by the main one.  The connection itself is in Client; here *)
(* it is up, down or being set up.  The pipeline a run executes belongs to *)
(* the ScalingFunctions library: it starts, runs and ends at any time.     *)
(***************************************************************************)
EXTENDS Integers, Sequences

CONSTANTS
  MaxNumOfSupervisors,  \* runs the worker wants to execute at once (1 in the code)
  BacklogRoom,          \* room of the ring buffer of the backlog (100 in the code)
  NumModules,           \* modules in the repository of the worker
  Cap,                  \* room of each channel between the threads (10 in the code)
  Dispatches,           \* bound: runs the core sends, told apart by their number
  MayStop               \* bound: whether the worker may be told to stop

ASSUME WorkerAssumption ==
  /\ MaxNumOfSupervisors \in Nat \ {0} /\ BacklogRoom \in Nat \ {0}
  /\ NumModules \in Nat /\ Cap \in Nat \ {0} /\ Dispatches \in Nat
  /\ MayStop \in BOOLEAN

VARIABLES
  c0, c1, c2,   \* requests to the socket thread, to the provisioner; how many responses wait
  link,         \* where the goroutine that polls the connection is
  dispatched,   \* how many runs the core has sent
  sending,      \* what the socket thread is offering to EPoll, or Nothing
  prov,         \* where the provisioner thread is
  creating,     \* the run it is creating
  left,         \* modules it has yet to report
  active,       \* activeRuns, which may fall below zero
  backlog,      \* runs put off
  restarting,   \* the run the backlog goroutine is sending to the provisioner, or 0
  runs,         \* the provisioner's map from runs to executions, 0 for none
  leaked,       \* read locks on the map that are never given back
  run,          \* the run of each execution; a run that is created twice has two
  main,         \* where the goroutine of each execution is
  updater,      \* where the goroutine is that reports the progress of each execution
  runWg,        \* the wait group of the runs
  suspended,    \* executions that were told to stop
  teardown,     \* where the main goroutine is
  told          \* executions whose end was sent to the core, or dropped

channels  == <<c0, c1, c2>>
poll      == <<link, dispatched>>
threads   == <<prov, creating, left, active, backlog, restarting>>
table     == <<runs, leaked>>
goroutines == <<run, main, updater, runWg>>
stopping  == <<suspended, teardown>>
vars      == <<channels, poll, sending, threads, table, goroutines, stopping, told>>

Runs  == 1..Dispatches
Execs == DOMAIN run
\* A run is created again by each other one that is admitted while it waits.
MaxExecs == (Dispatches * (Dispatches + 1)) \div 2

Nothing   == [about |-> "nothing", exec |-> 0]
Module    == [about |-> "module", exec |-> 0]
Active(e) == [about |-> "active", exec |-> e]
Ended(e)  == [about |-> "ended", exec |-> e]

\* Requests to the provisioner: the number of a run to create, or 0 to report the modules.
RegisterModules == 0

Init ==
  /\ c0 = <<>> /\ c1 = <<>> /\ c2 = 0
  /\ link = "first" /\ dispatched = 0
  /\ sending = Nothing
  /\ prov = "select" /\ creating = 0 /\ left = 0
  /\ active = 0 /\ backlog = <<>> /\ restarting = 0
  /\ runs = [r \in Runs |-> 0] /\ leaked = 0
  /\ run = <<>> /\ main = <<>> /\ updater = <<>> /\ runWg = 0
  /\ suspended = {} /\ teardown = "no"
  /\ told = {}

\* Blocking sends to the provisioner and to the socket thread.
Provision(request) == Len(c1) < Cap /\ c1' = Append(c1, request)
Socket(request)    == Len(c0) < Cap /\ c0' = Append(c0, request)

\* A message has left the worker.
Tell(message) ==
  told' = IF message.about = "ended" THEN told \cup {message.exec} ELSE told

\* The connection has been set up and EPoll has not ended on it.
IsConnected == link \in {"connect", "poll", "message"}
-----------------------------------------------------------------------------
(* The goroutine that connects and polls. *)

\* dial gives up after its retries; only the first time is that the end.
Dial ==
  /\ \/ link \in {"first", "dial"} /\ link' = "connect"
     \/ link = "first" /\ link' = "gone"
  /\ UNCHANGED <<channels, dispatched, sending, threads, table, goroutines, stopping, told>>

OnConnectEvent ==
  /\ link = "connect" /\ link' = "poll"
  /\ Provision(RegisterModules)
  /\ UNCHANGED <<c0, c2, dispatched, sending, threads, table, goroutines, stopping, told>>

\* The core sends a run.
Receive ==
  /\ link = "poll" /\ link' = "message"
  /\ dispatched < Dispatches /\ dispatched' = dispatched + 1
  /\ UNCHANGED <<channels, sending, threads, table, goroutines, stopping, told>>

\* A run to create is sent on.  A message to delete a run is decoded as if it were one to
\* create it; its data is a number, which is no run.Request, and it is ignored.
OnMessageEvent ==
  /\ link = "message" /\ link' = "poll"
  /\ Provision(dispatched)
  /\ UNCHANGED <<c0, c2, dispatched, sending, threads, table, goroutines, stopping, told>>

\* EPoll takes the message that Send offers; encoding it may fail, and interrupts the connection.
PollSend ==
  /\ link = "poll" /\ sending # Nothing
  /\ Tell(sending)
  /\ sending' = Nothing
  /\ UNCHANGED <<channels, poll, threads, table, goroutines, stopping>>

\* EPoll takes an interrupt and ends: one of its own to reconnect, or the one of Terminate.
Interrupted ==
  /\ link = "poll"
  /\ link' = IF teardown \in {"drain", "exit"} THEN "gone" ELSE "dial"
  /\ UNCHANGED <<channels, dispatched, sending, threads, table, goroutines, stopping, told>>
-----------------------------------------------------------------------------
(* The socket thread. *)

\* Whatever is to be sent while the core cannot be reached is dropped.
SocketRequest ==
  /\ sending = Nothing /\ c0 # <<>>
  /\ c0' = Tail(c0)
  /\ \/ IsConnected /\ sending' = Head(c0) /\ UNCHANGED told
     \/ ~IsConnected /\ Tell(Head(c0)) /\ UNCHANGED sending
  /\ UNCHANGED <<c1, c2, poll, threads, table, goroutines, stopping>>

SocketResponse ==
  /\ sending = Nothing /\ c2 > 0
  /\ c2' = c2 - 1
  /\ UNCHANGED <<c0, c1, poll, sending, threads, table, goroutines, stopping, told>>
-----------------------------------------------------------------------------
(* The map of runs, under a RWMutex: a writer that waits keeps new readers out. *)

WriterWaits ==
  \/ prov = "lock" \/ teardown = "suspend"
  \/ \E e \in Execs : main[e] = "erase"
Lock  == leaked = 0
RLock == leaked = 0 \/ ~WriterWaits
-----------------------------------------------------------------------------
(* The provisioner thread and the goroutine of the backlog. *)

\* CreateRun counts the run or puts it on the backlog, and goes on to create it in both cases.
Admit(r) ==
  /\ \/ /\ active < MaxNumOfSupervisors /\ active' = active + 1
        /\ prov' = "lock" /\ creating' = r /\ UNCHANGED backlog
     \/ /\ active >= MaxNumOfSupervisors /\ Len(backlog) < BacklogRoom
        /\ backlog' = Append(backlog, r)
        /\ prov' = "lock" /\ creating' = r /\ UNCHANGED active
     \/ /\ active >= MaxNumOfSupervisors /\ Len(backlog) = BacklogRoom
        /\ prov' = "respond" /\ UNCHANGED <<creating, active, backlog>>
  /\ UNCHANGED left

ReportModules ==
  /\ prov' = "modules" /\ left' = NumModules
  /\ UNCHANGED <<creating, active, backlog>>

ProvisionerRequest ==
  /\ prov = "select" /\ c1 # <<>>
  /\ c1' = Tail(c1)
  /\ IF Head(c1) = RegisterModules THEN ReportModules ELSE Admit(Head(c1))
  /\ UNCHANGED <<c0, c2, poll, sending, restarting, table, goroutines, stopping, told>>

\* Provisioner.CreateRun, and the goroutine it is executed in.
CreateRun ==
  /\ prov = "lock" /\ Lock /\ prov' = "respond"
  /\ run' = Append(run, creating)
  /\ main' = Append(main, "start") /\ updater' = Append(updater, "none")
  /\ runs' = [runs EXCEPT ![creating] = Len(run) + 1]
  /\ creating' = 0
  /\ UNCHANGED <<channels, poll, sending, left, active, backlog, restarting, leaked, runWg,
                 stopping, told>>

ModuleAdd ==
  /\ prov = "modules"
  /\ \/ left = 0 /\ prov' = "respond" /\ UNCHANGED <<c0, left>>
     \/ left > 0 /\ Socket(Module) /\ left' = left - 1 /\ UNCHANGED prov
  /\ UNCHANGED <<c1, c2, poll, sending, creating, active, backlog, restarting, table, goroutines,
                 stopping, told>>

Respond ==
  /\ prov = "respond" /\ c2 < Cap
  /\ prov' = "select" /\ c2' = c2 + 1
  /\ UNCHANGED <<c0, c1, poll, sending, creating, left, active, backlog, restarting, table,
                 goroutines, stopping, told>>

CheckBacklog ==
  /\ restarting = 0 /\ active < MaxNumOfSupervisors /\ backlog # <<>>
  /\ restarting' = Head(backlog) /\ backlog' = Tail(backlog)
  /\ UNCHANGED <<channels, poll, sending, prov, creating, left, active, table, goroutines, stopping, told>>

Restart ==
  /\ restarting # 0 /\ restarting' = 0
  /\ Provision(restarting)
  /\ UNCHANGED <<c0, c2, poll, sending, prov, creating, left, active, backlog, table, goroutines,
                 stopping, told>>
-----------------------------------------------------------------------------
(* The two goroutines of an execution, which share a mutex. *)

Moves(e, from, to) == main[e] = from /\ main' = [main EXCEPT ![e] = to]

MutexIsFree(e) == main[e] # "report" /\ updater[e] \notin {"push", "stuck"}

\* The library has started the run and not ended it.
IsRunning(e) == main[e] = "running"

Begin(e) ==
  /\ Moves(e, "start", "ready")
  /\ updater' = [updater EXCEPT ![e] = "lock"]
  /\ runWg' = runWg + 1
  /\ UNCHANGED <<channels, poll, sending, threads, table, run, stopping, told>>

RunStarts(e) ==
  /\ Moves(e, "ready", "running")
  /\ UNCHANGED <<channels, poll, sending, threads, table, run, updater, runWg, stopping, told>>

RunEnds(e) ==
  /\ Moves(e, "running", "ended")
  /\ UNCHANGED <<channels, poll, sending, threads, table, run, updater, runWg, stopping, told>>

\* Mutant: progress is reported whether the run is running or not.
ReportsAlways(e) ==
  /\ updater[e] = "lock" /\ MutexIsFree(e)
  /\ updater' = [updater EXCEPT ![e] = "push"]
  /\ UNCHANGED <<channels, poll, sending, threads, table, run, main, runWg, stopping, told>>

\* Once a second: a run that is not running, ended or not yet started, ends the loop, and the
\* mutex stays locked.
Update(e) ==
  /\ updater[e] = "lock" /\ MutexIsFree(e)
  /\ updater' = [updater EXCEPT ![e] = IF IsRunning(e) THEN "push" ELSE "stuck"]
  /\ UNCHANGED <<channels, poll, sending, threads, table, run, main, runWg, stopping, told>>

SendUpdate(e) ==
  /\ updater[e] = "push" /\ Socket(Active(e))
  /\ updater' = [updater EXCEPT ![e] = "lock"]
  /\ UNCHANGED <<c1, c2, poll, sending, threads, table, run, main, runWg, stopping, told>>

LockReport(e) ==
  /\ MutexIsFree(e)
  /\ Moves(e, "ended", "report")
  /\ UNCHANGED <<channels, poll, sending, threads, table, run, updater, runWg, stopping, told>>

\* Mutant: the end of a run is not reported.
ReportsNothing(e) ==
  /\ Moves(e, "report", "delete") /\ UNCHANGED c0
  /\ UNCHANGED <<c1, c2, poll, sending, threads, table, run, updater, runWg, stopping, told>>

SendReport(e) ==
  /\ Moves(e, "report", "delete") /\ Socket(Ended(e))
  /\ UNCHANGED <<c1, c2, poll, sending, threads, table, run, updater, runWg, stopping, told>>

\* Mutant: the wait group is not told.
FinishUnnoticed == active' = active - 1 /\ UNCHANGED runWg

\* Every execution is taken off the count when it has ended, those of the backlog too.
Finish == active' = active - 1 /\ runWg' = runWg - 1

\* Provisioner.DeleteRun returns without the read lock given back when there is no such run,
\* and deletes nothing if another execution of the run is running.
DeleteNothing(e) ==
  /\ main[e] = "delete" /\ RLock
  /\ LET f == runs[run[e]] IN
       \/ f = 0 /\ leaked' = leaked + 1
       \/ f # 0 /\ IsRunning(f) /\ UNCHANGED leaked
  /\ Moves(e, "delete", "done") /\ Finish
  /\ UNCHANGED <<channels, poll, sending, prov, creating, left, backlog, restarting, runs, run,
                 updater, stopping, told>>

FoundToDelete(e) ==
  /\ main[e] = "delete" /\ RLock
  /\ LET f == runs[run[e]] IN f # 0 /\ ~IsRunning(f)
  /\ Moves(e, "delete", "erase")
  /\ UNCHANGED <<channels, poll, sending, threads, table, run, updater, runWg, stopping, told>>

\* Mutant: the run that was created first is deleted.
FirstOf(e) == run[1]
RunOf(e) == run[e]

DeleteRun(e) ==
  /\ Moves(e, "erase", "done") /\ Lock
  /\ runs' = [runs EXCEPT ![RunOf(e)] = 0]
  /\ Finish
  /\ UNCHANGED <<channels, poll, sending, prov, creating, left, backlog, restarting, leaked, run,
                 updater, stopping, told>>

Execution(e) ==
  \/ Begin(e) \/ RunStarts(e) \/ RunEnds(e) \/ Update(e) \/ SendUpdate(e)
  \/ LockReport(e) \/ SendReport(e) \/ DeleteNothing(e) \/ FoundToDelete(e) \/ DeleteRun(e)
-----------------------------------------------------------------------------
(* The main goroutine, after a signal. *)

Signal ==
  /\ MayStop /\ teardown = "no" /\ teardown' = "suspend"
  /\ UNCHANGED <<channels, poll, sending, threads, table, goroutines, suspended, told>>

SuspendRuns ==
  /\ teardown = "suspend" /\ Lock /\ teardown' = "wait"
  /\ suspended' = {runs[r] : r \in Runs} \ {0}
  /\ UNCHANGED <<channels, poll, sending, threads, table, goroutines, told>>

\* Waits for the runs, then asks EPoll to close the connection.
RunsAreDone ==
  /\ teardown = "wait" /\ runWg = 0 /\ teardown' = "drain"
  /\ UNCHANGED <<channels, poll, sending, threads, table, goroutines, suspended, told>>

\* The program ends when the socket thread is not in the middle of a request; what a goroutine
\* does after that is of no account.
Exit ==
  /\ teardown = "drain" /\ sending = Nothing /\ teardown' = "exit"
  /\ UNCHANGED <<channels, poll, sending, threads, table, goroutines, suspended, told>>
-----------------------------------------------------------------------------
Connection ==
  \/ Dial \/ OnConnectEvent \/ Receive \/ OnMessageEvent
  \/ PollSend \/ Interrupted
Provisioner == ProvisionerRequest \/ CreateRun \/ ModuleAdd \/ Respond
Main        == Signal \/ SuspendRuns \/ RunsAreDone \/ Exit

Next ==
  \/ Connection \/ SocketRequest \/ SocketResponse
  \/ Provisioner \/ CheckBacklog \/ Restart
  \/ \E e \in Execs : Execution(e)
  \/ Main

Spec == Init /\ [][Next]_vars

\* Goroutines are scheduled, whoever waits for a channel or a mutex gets it in turn, a select
\* takes each case in the end, and the core can be reached again.  A run that is told to stop
\* ends; nothing makes the core send a run, a connection break or the operator stop the worker.
Fairness ==
  /\ WF_vars(Dial) /\ SF_vars(OnConnectEvent \/ OnMessageEvent)
  /\ SF_vars(PollSend)
  /\ SF_vars(SocketRequest) /\ SF_vars(SocketResponse)
  /\ WF_vars(ProvisionerRequest \/ CreateRun \/ Respond) /\ SF_vars(ModuleAdd)
  /\ WF_vars(CheckBacklog) /\ SF_vars(Restart)
  /\ SF_vars(SuspendRuns \/ RunsAreDone \/ Exit)
  /\ \A e \in 1..MaxExecs :
       /\ WF_vars(e \in Execs /\ (Begin(e) \/ RunStarts(e) \/ (e \in suspended /\ RunEnds(e))))
       /\ WF_vars(e \in Execs /\ Update(e)) /\ SF_vars(e \in Execs /\ (SendUpdate(e) \/ SendReport(e)))
       /\ SF_vars(e \in Execs /\ LockReport(e))
       /\ WF_vars(e \in Execs /\ (DeleteNothing(e) \/ FoundToDelete(e) \/ DeleteRun(e)))

FairSpec == Spec /\ Fairness
-----------------------------------------------------------------------------
\* Every variable has its type.
TypeOK ==
  /\ c0 \in Seq([about : {"module", "active", "ended"}, exec : Nat])
  /\ c1 \in Seq({RegisterModules} \cup Runs) /\ c2 \in 0..Cap
  /\ link \in {"first", "dial", "connect", "poll", "message", "gone"}
  /\ dispatched \in 0..Dispatches
  /\ sending \in [about : {"nothing", "module", "active", "ended"}, exec : Nat]
  /\ prov \in {"select", "lock", "modules", "respond"}
  /\ creating \in {0} \cup Runs /\ left \in 0..NumModules
  /\ active \in Int /\ active <= MaxNumOfSupervisors
  /\ backlog \in Seq(Runs) /\ restarting \in {0} \cup Runs
  /\ runs \in [Runs -> {0} \cup Execs] /\ leaked \in Nat
  /\ run \in Seq(Runs) /\ runWg \in Nat
  /\ main \in [Execs -> {"start", "ready", "running", "ended", "report", "delete", "erase", "done"}]
  /\ updater \in [Execs -> {"none", "lock", "push", "stuck"}]
  /\ suspended \subseteq Execs /\ told \subseteq Execs
  /\ teardown \in {"no", "suspend", "wait", "drain", "exit"}

\* Runs that were put on the backlog are created twice.
Rerun(r) == \E e, f \in Execs : e # f /\ run[e] = r /\ run[f] = r

\* Once the end of a run has left the worker no report that it is active follows.
EndIsToldLast ==
  \A e \in told :
    updater[e] # "push" /\ sending # Active(e) /\ \A i \in DOMAIN c0 : c0[i] # Active(e)

\* A run the backlog has not started again is in the map until it has reported its end, and
\* then leaves it: only the second execution of a run deletes what is not there, which leaves
\* the map locked for ever.
KeptUntilDeleted ==
  /\ \A e \in Execs : ~Rerun(run[e]) => (runs[run[e]] = e <=> main[e] # "done")
  /\ leaked > 0 => \E r \in Runs : Rerun(r)

\* The poll goroutine waits for the provisioner, which waits for the socket thread, which waits
\* for the poll goroutine.
Gridlock ==
  /\ sending # Nothing /\ link \in {"connect", "message"} /\ Len(c1) = Cap
  /\ \/ prov = "respond" /\ c2 = Cap
     \/ prov = "modules" /\ Len(c0) = Cap

\* The goroutine that reports progress has left its loop with the mutex locked before the end
\* of the run was reported.
HeldUp == {e \in Execs : updater[e] = "stuck" /\ main[e] = "ended"}

\* The end of a run is told to the core or to nobody, unless the goroutine that reports its
\* progress has kept the mutex before, or the threads wait for each other.
EndIsReported ==
  \A e \in 1..MaxExecs :
    (e \in Execs /\ main[e] = "ended")
      ~> (e \in told \cup HeldUp \/ Gridlock \/ teardown # "no")

\* Once the runs are told to stop the worker stops, unless a run was created after that, a
\* progress goroutine or a lost read lock holds up the end of one, the threads wait for each
\* other, or the socket thread offers a message to a connection that was closed for good.
TeardownEnds ==
  teardown = "wait" ~>
    \/ teardown = "exit"
    \/ \E e \in Execs \ suspended : main[e] = "running"
    \/ HeldUp # {} \/ leaked > 0 \/ Gridlock
    \/ link = "gone" /\ sending # Nothing
=============================================================================
