----------------------------- MODULE RunControl -----------------------------
(***************************************************************************)
(* The run control plane of the core: how a request to create, query,      *)
(* update or stop a run travels from a client (REST handlers, scheduler    *)
(* loop, socket events) through the processor thread, the runner thread,   *)
(* the database thread and the socket thread, and how the answer comes     *)
(* back.  Threads are goroutines that select over buffered Go channels.    *)
(*                                                                         *)
(* A Go request is a pointer that is handed from channel to channel, or a  *)
(* copy that keeps its nonce, action and parameters.  Here a request is    *)
(* its index in "req" and messages carry that index: it is the identity of *)
(* the pointer, which the code itself looks up by nonce only.              *)
(***************************************************************************)
EXTENDS Integers, Sequences, FiniteSets

CONSTANTS
  MaxRequests,   \* bound: how many requests the clients issue
  Cap,           \* capacity of a channel (10 in the code)
  RangeSize,     \* nonces of one pool (262114 in the code)
  Workers,       \* connection ids of the connected processor services
  NoWorker,      \* the processor id 0
  Placements,    \* sets of workers that may host a pipeline's functions
  Workload,      \* <<source, action>> pairs the clients issue
  RunArgs,       \* run ids an operator may name (0 is legal input)
  Reports        \* [status, stat] pairs a worker may report

Sources   == {"HttpClient", "Socket", "Scheduler"}
ActionSet == {"Query", "Create", "Get", "Update", "Delete"}
Terminal  == {"completed", "crashed", "terminated"}
Status    == {"created", "active", "cancelled"} \cup Terminal

ASSUME RunControlAssumption ==
  /\ MaxRequests \in Nat \ {0}
  /\ Cap \in Nat \ {0}
  /\ RangeSize \in Nat \ {0}
  /\ NoWorker \notin Workers
  /\ Placements \subseteq SUBSET Workers
  /\ Workload \subseteq Sources \X ActionSet
  /\ RunArgs \subseteq Nat
  /\ Reports \subseteq [status : Status, stat : BOOLEAN]

Threads == {"processor", "runner", "database", "socket"}
Ids     == 1..MaxRequests
Absent  == 0                               \* no request: a missing map entry, a nil pointer

\* The channels into the processor thread, and those its answers leave by.
InOf(s)  == CASE s = "HttpClient" -> "c5" [] s = "Socket" -> "c7" [] s = "Scheduler" -> "c18"
OutOf(s) == CASE s = "HttpClient" -> "c6" [] s = "Socket" -> "c8" [] s = "Scheduler" -> "c19"
InChans  == {"c5", "c7", "c18"}
OutChans == {"c6", "c8", "c19", "c9", "c10", "c11", "c12", "c13", "c14", "c15", "c16"}

\* The three nonce pools, with the ranges core.go gives them.
PoolMin(s) == CASE s = "HttpClient" -> 0
                [] s = "Scheduler"  -> RangeSize
                [] s = "Socket"     -> 2 * RangeSize
PoolMax(s) == PoolMin(s) + RangeSize
Nonce      == 0..(3 * RangeSize)

VARIABLES
  req,        \* every request issued so far, in order: its fields never change
  cur,        \* the counter of each nonce pool
  chan,       \* contents of each channel
  pend,       \* sends a thread's current handler has still to perform
  iReq,       \* processor thread's loop variable: the request it looked at last
  procStore,  \* processor thread: requestStore
  load,       \* processor thread: NumOfRuns of each worker
  runStore,   \* runner thread: requestStore
  runs,       \* run database: record of run r at index r
  stats,      \* statistic database: run whose statistic was stored, in order
  wire,       \* messages written to worker connections, in order
  ended,      \* runs whose worker has reported its last status
  answers,    \* answers the processor thread has sent for each request
  panicked    \* a goroutine panicked: the process is gone

vars == <<req, cur, chan, pend, iReq, procStore, load, runStore, runs, stats,
          wire, ended, answers, panicked>>

clientVars == <<req, cur>>
procVars   == <<iReq, procStore, load, answers>>
runVars    == <<runStore, runs>>
outerVars  == <<stats, wire, ended>>
-----------------------------------------------------------------------------
(* Messages. *)

Kinds == {"request", "pipeline", "statistic", "create", "delete"}
Msg   == [id : Ids, kind : Kinds, worker : Workers \cup {NoWorker}, run : Nat,
          ok : BOOLEAN]

Message(id) == [id |-> id, kind |-> "request", worker |-> NoWorker, run |-> 0, ok |-> TRUE]
\* Request id asks something about a run and the worker it is placed on.
Ask(id, kind, run, worker) ==
  [id |-> id, kind |-> kind, worker |-> worker, run |-> run, ok |-> TRUE]

Entry   == [id : {Absent} \cup Ids, worker : Workers \cup {NoWorker}]
NoEntry == [id |-> Absent, worker |-> NoWorker]

NonceOf(id) == req[id].nonce

Idle(t) == ~panicked /\ pend[t] = <<>>

\* A handler starts: its thread has nothing left to send, and takes the head of ch.
Takes(t, ch) ==
  /\ Idle(t)
  /\ chan[ch] # <<>>
  /\ chan' = [chan EXCEPT ![ch] = Tail(@)]

\* The handler of thread t has to send ms, messages paired with their channels.
Sends(t, ms) == pend' = [pend EXCEPT ![t] = ms]
To(ch, m)    == <<[ch |-> ch, msg |-> m]>>

\* A send completes when the channel has room; until then the thread is blocked in it.
Flush(t) ==
  /\ ~panicked
  /\ pend[t] # <<>>
  /\ LET s == Head(pend[t]) IN
       /\ Len(chan[s.ch]) < Cap
       /\ chan' = [chan EXCEPT ![s.ch] = Append(@, s.msg)]
  /\ pend' = [pend EXCEPT ![t] = Tail(@)]
  /\ UNCHANGED <<clientVars, procVars, runVars, outerVars, panicked>>
-----------------------------------------------------------------------------
(* Clients: HTTP handlers, the scheduler loop, the socket's event handlers. *)

NextNonce(s) == IF cur[s] < PoolMax(s) THEN cur[s] + 1 ELSE PoolMin(s)

\* Drawing the nonce and sending on the channel is one step: a client blocked on a
\* full channel has done nothing the core can see.
Issue(s, act, run, rep) ==
  /\ ~panicked
  /\ <<s, act>> \in Workload
  /\ Len(req) < MaxRequests
  /\ Len(chan[InOf(s)]) < Cap
  /\ req' = Append(req, [src |-> s, act |-> act, nonce |-> NextNonce(s), run |-> run,
                         status |-> rep.status, stat |-> rep.stat])
  /\ cur' = [cur EXCEPT ![s] = NextNonce(s)]
  /\ chan' = [chan EXCEPT ![InOf(s)] = Append(@, Message(Len(req) + 1))]
  /\ UNCHANGED <<pend, procVars, runVars, stats, wire, panicked>>

NoReport == [status |-> "created", stat |-> FALSE]

\* A request the processor thread answers at once: processors, modules, functions, mounts.
IssueQuery(s) == Issue(s, "Query", 0, NoReport) /\ UNCHANGED ended

IssueCreateRun(s) == Issue(s, "Create", 0, NoReport) /\ UNCHANGED ended

\* An operator names any run id, whether or not such a run exists; a list of runs, and
\* their count, are queries for run 0.
IssueGetRun(r)  == Issue("HttpClient", "Get", r, NoReport) /\ UNCHANGED ended
IssueStopRun(r) == Issue("HttpClient", "Delete", r, NoReport) /\ UNCHANGED ended

Held == {r \in 1..Len(runs) : \E i \in 1..Len(wire) : wire[i].kind = "create" /\ wire[i].run = r}

\* A worker reports on a run it was sent, until it has reported how the run ended.
WorkerReports(r, rep) ==
  /\ r \in Held \ ended
  /\ Issue("Socket", "Update", r, rep)
  /\ ended' = IF rep.status \in Terminal THEN ended \cup {r} ELSE ended

\* The client side stores an answer in its response table.  C8 is read by the socket
\* thread's own loop, C6 and C19 by threads that do nothing else here.
ClientReceives(ch) ==
  /\ ~panicked
  /\ ch = "c8" => Idle("socket")
  /\ chan[ch] # <<>>
  /\ chan' = [chan EXCEPT ![ch] = Tail(@)]
  /\ UNCHANGED <<clientVars, pend, procVars, runVars, outerVars, panicked>>
-----------------------------------------------------------------------------
(* Processor thread. *)

\* sendResponse: request id is answered with the outcome of request "from".
Answers(id, from, ok, run) ==
  /\ answers' = [answers EXCEPT ![id] = Append(@, [from |-> from, ok |-> ok, run |-> run])]
  /\ Sends("processor", To(OutOf(req[id].src), Message(id)))

\* Mutant: the answered request stays in requestStore.
KeepsRequest(n) == UNCHANGED procStore
Forget(n) == procStore' = [procStore EXCEPT ![n] = Absent]

ProcTakesRequest(s, acts) ==
  /\ Takes("processor", InOf(s))
  /\ req[Head(chan[InOf(s)]).id].act \in acts
  /\ iReq' = Head(chan[InOf(s)]).id

\* Requests on the processor table itself: answered within the handler.
ProcQuery(s) ==
  /\ ProcTakesRequest(s, {"Query"})
  /\ Answers(iReq', iReq', TRUE, 0)
  /\ UNCHANGED <<clientVars, procStore, load, runVars, outerVars, panicked>>

ProcCreateRun(s) ==
  /\ ProcTakesRequest(s, {"Create"})
  /\ procStore' = [procStore EXCEPT ![NonceOf(iReq')] = iReq']
  /\ Sends("processor", To("c11", [Message(iReq') EXCEPT !.kind = "pipeline"]))
  /\ UNCHANGED <<clientVars, load, answers, runVars, outerVars, panicked>>

\* handleGetRun, handleCountRuns, handleUpdateRun, handleDeleteRun: stored and forwarded.
ProcForward(s) ==
  /\ ProcTakesRequest(s, {"Get", "Update", "Delete"})
  /\ procStore' = [procStore EXCEPT ![NonceOf(iReq')] = iReq']
  /\ Sends("processor", To("c13", Message(iReq')))
  /\ UNCHANGED <<clientVars, load, answers, runVars, outerVars, panicked>>

\* FindCandidateProcessor: a least loaded worker of those that host the functions, whose
\* NumOfRuns goes up by one.
Candidate(w) ==
  \E P \in Placements : w \in P /\ \A v \in P : load[w] <= load[v]

\* Mutant: the run is not counted.
CountsNothing(w) == UNCHANGED load
CountRun(w)      == load' = [load EXCEPT ![w] = @ + 1]

\* handleDatabaseReturnsPipeline, for the request stored under the response's nonce.
ProcPipeline ==
  /\ Takes("processor", "c12")
  /\ LET m  == Head(chan["c12"])
         n  == NonceOf(m.id)
         id == procStore[n]
         Fail == /\ Forget(n)
                 /\ Answers(id, id, FALSE, 0)
                 /\ UNCHANGED load
     IN /\ iReq' = id
        /\ \/ /\ id = Absent
              /\ UNCHANGED <<pend, procStore, load, answers>>
           \/ /\ id # Absent
              /\ Fail
           \/ /\ id # Absent
              /\ m.ok
              /\ req[id].act = "Create"
              /\ \E w \in Workers :
                   /\ Candidate(w)
                   /\ CountRun(w)
                   /\ Sends("processor", To("c13", [Message(id) EXCEPT !.worker = w]))
              /\ UNCHANGED <<procStore, answers>>
  /\ UNCHANGED <<clientVars, runVars, outerVars, panicked>>

\* The runner answered.  The store is searched with the nonce of the request looked at
\* last, not with that of the response; a nil request is dereferenced.
ProcRunnerResponds ==
  /\ Takes("processor", "c14")
  /\ LET m  == Head(chan["c14"])
         id == procStore[NonceOf(iReq)]
     IN \/ /\ iReq = Absent
           /\ panicked' = TRUE
           /\ UNCHANGED <<pend, procVars>>
        \/ /\ iReq # Absent
           /\ iReq' = id
           /\ IF id = Absent
                THEN UNCHANGED <<pend, procStore, answers>>
                ELSE /\ Forget(NonceOf(id))
                     /\ Answers(id, m.id, m.ok \/ req[m.id].act \in {"Update", "Delete"}, m.run)
           /\ UNCHANGED <<load, panicked>>
  /\ UNCHANGED <<clientVars, runVars, outerVars>>
-----------------------------------------------------------------------------
(* Runner thread. *)

\* Mutant: the search for the id is skipped.
FirstRun(r) == IF runs = <<>> THEN <<>> ELSE <<1>>
\* RunDatabase.Get by id: 0 selects every run, newest first; an id without a record
\* selects the first run there is, and there may be none.
Lookup(r) == CASE r = 0            -> [i \in 1..Len(runs) |-> Len(runs) + 1 - i]
               [] r \in 1..Len(runs) -> <<r>>
               [] OTHER             -> IF runs = <<>> THEN <<>> ELSE <<1>>
OutOfRange(r) == r # 0 /\ runs = <<>>

SetStatus(r, s) == runs' = [runs EXCEPT ![r].status = s]
Reply(m)        == To("c14", m)

RunnerTakes(act) ==
  /\ Takes("runner", "c13")
  /\ req[Head(chan["c13"]).id].act = act
  /\ UNCHANGED <<clientVars, procVars, outerVars>>

RunnerPanics ==
  /\ panicked' = TRUE
  /\ UNCHANGED <<pend, runVars>>

GetReply(id) == Reply(Message(id))

RunnerGetRun ==
  /\ RunnerTakes("Get")
  /\ LET m == Head(chan["c13"]) IN
       IF OutOfRange(req[m.id].run)
         THEN RunnerPanics
         ELSE Sends("runner", GetReply(m.id)) /\ UNCHANGED <<runVars, panicked>>

RunnerCreateRun ==
  /\ RunnerTakes("Create")
  /\ LET m == Head(chan["c13"]) IN
       /\ runStore' = [runStore EXCEPT ![NonceOf(m.id)] = [id |-> m.id, worker |-> m.worker]]
       /\ Sends("runner", To("c15", [Message(m.id) EXCEPT !.kind = "pipeline"]))
  /\ UNCHANGED <<runs, panicked>>

\* Mutant: any report counts as the end of the run.
AnyReportEnds(u) == u.stat
EndsRun(u) == u.stat /\ u.status \in Terminal

\* A report without statistics sets the status and is answered with an error; one that
\* ends the run asks for a statistic record; any other is not answered at all.
RunnerUpdateRun ==
  /\ RunnerTakes("Update")
  /\ LET m == Head(chan["c13"])
         u == req[m.id]
         r == Lookup(u.run)
         Refuse == Sends("runner", Reply([Message(m.id) EXCEPT !.ok = FALSE]))
     IN IF OutOfRange(u.run)
          THEN RunnerPanics
          ELSE /\ UNCHANGED panicked
               /\ IF Len(r) # 1
                    THEN Refuse /\ UNCHANGED runVars
                    ELSE /\ SetStatus(r[1], u.status)
                         /\ CASE ~u.stat -> Refuse /\ UNCHANGED runStore
                              [] EndsRun(u) ->
                                   /\ runStore' = [runStore EXCEPT ![u.nonce] =
                                                     [id |-> m.id, worker |-> NoWorker]]
                                   /\ Sends("runner", To("c15",
                                              Ask(m.id, "statistic", r[1], NoWorker)))
                              [] OTHER -> UNCHANGED <<pend, runStore>>

\* A stop marks the run cancelled before the socket thread is asked to tell the worker.
\* When there is no run, both handleDeleteRun and the loop send the error response.
RunnerDeleteRun ==
  /\ RunnerTakes("Delete")
  /\ LET m    == Head(chan["c13"])
         d    == req[m.id]
         r    == Lookup(d.run)
         Fail == Reply([Message(m.id) EXCEPT !.ok = FALSE])
     IN IF OutOfRange(d.run)
          THEN RunnerPanics
          ELSE /\ UNCHANGED panicked
               /\ IF r = <<>>
                    THEN Sends("runner", Fail \o Fail) /\ UNCHANGED runVars
                    ELSE /\ SetStatus(r[1], "cancelled")
                         /\ runStore' = [runStore EXCEPT ![d.nonce] =
                                           [id |-> m.id, worker |-> NoWorker]]
                         /\ Sends("runner", To("c9",
                                    Ask(m.id, "delete", d.run, runs[r[1]].worker)))

\* Mutant: the resolved entry stays in requestStore.
ResolvesWithoutDelete(e, n, ok, run) ==
  /\ Sends("runner", Reply([Message(e.id) EXCEPT !.ok = ok, !.run = run]))
  /\ UNCHANGED runStore
\* The stored request e is answered: with an error, or with the run it created.
Resolve(e, n, ok, run) ==
  /\ runStore' = [runStore EXCEPT ![n] = NoEntry]
  /\ Sends("runner", Reply([Message(e.id) EXCEPT !.ok = ok, !.run = run]))

\* Mutant: the run is dispatched under the id of the run before it.
PreviousRunId == Len(runs)
NewRunId      == Len(runs) + 1

\* handleDatabaseReturnsPipeline, which the loop also calls for the response to a
\* statistic record: its data is no pipeline, so the update is answered with an error.
\* A request that is no creation has no metadata: its run record stays behind.
RunnerDatabaseResponds ==
  /\ Takes("runner", "c16")
  /\ LET m == Head(chan["c16"])
         n == NonceOf(m.id)
         e == runStore[n]
     IN CASE e.id = Absent -> UNCHANGED <<pend, runVars>>
          [] e.id # Absent /\ (~m.ok \/ m.kind = "statistic") ->
               Resolve(e, n, FALSE, 0) /\ UNCHANGED runs
          [] OTHER ->
               /\ runs' = Append(runs, [worker |-> e.worker, for |-> e.id, status |-> "created"])
               /\ IF req[e.id].act # "Create"
                    THEN Resolve(e, n, FALSE, 0)
                    ELSE /\ Sends("runner", To("c9",
                                    Ask(e.id, "create", NewRunId, e.worker)))
                         /\ UNCHANGED runStore
  /\ UNCHANGED <<clientVars, procVars, outerVars, panicked>>

\* Mutant: the error of the socket thread is not looked at.
AnyCreateResponse(m) == m.kind = "create"
Dispatched(m) == m.kind = "create" /\ m.ok

\* handleSocketCreatesRun and handleSocketDeletesRun: a failed dispatch carries no run
\* id, and leaves the record as it was.
RunnerSocketResponds ==
  /\ Takes("runner", "c10")
  /\ LET m == Head(chan["c10"])
         n == NonceOf(m.id)
         e == runStore[n]
     IN CASE e.id = Absent -> UNCHANGED <<pend, runVars>>
          [] e.id # Absent /\ Dispatched(m) ->
               Resolve(e, n, TRUE, m.run) /\ SetStatus(m.run, "active")
          [] OTHER ->
               Resolve(e, n, m.ok, 0) /\ UNCHANGED runs
  /\ UNCHANGED <<clientVars, procVars, outerVars, panicked>>
-----------------------------------------------------------------------------
(* Database thread and socket thread. *)

\* A pipeline is looked up twice, and may be deleted in between.
DatabaseServesProcessor ==
  /\ Takes("database", "c11")
  /\ \E ok \in BOOLEAN :
       Sends("database", To("c12", [Head(chan["c11"]) EXCEPT !.ok = ok]))
  /\ UNCHANGED <<clientVars, procVars, runVars, outerVars, panicked>>

DatabaseServesRunner ==
  /\ Takes("database", "c15")
  /\ LET m == Head(chan["c15"]) IN
       \E ok \in BOOLEAN :
         /\ Sends("database", To("c16", [m EXCEPT !.ok = ok]))
         /\ stats' = IF ok /\ m.kind = "statistic" THEN Append(stats, m.run) ELSE stats
  /\ UNCHANGED <<clientVars, procVars, runVars, wire, ended, panicked>>

\* handleCreateRun and handleDeleteRun: the message reaches the connection of the worker,
\* or fails because an identifier is missing or the connection is gone.
SocketServesRunner ==
  /\ Takes("socket", "c9")
  /\ LET m == Head(chan["c9"]) IN
       \E ok \in BOOLEAN :
         /\ ok => m.worker # NoWorker /\ m.run # 0
         /\ wire' = IF ok THEN Append(wire, [kind |-> m.kind, run |-> m.run, worker |-> m.worker])
                          ELSE wire
         /\ Sends("socket", To("c10", [m EXCEPT !.ok = ok]))
  /\ UNCHANGED <<clientVars, procVars, runVars, stats, ended, panicked>>
-----------------------------------------------------------------------------
Init ==
  /\ req = <<>>
  /\ cur = [s \in Sources |-> 0]
  /\ chan = [ch \in InChans \cup OutChans |-> <<>>]
  /\ pend = [t \in Threads |-> <<>>]
  /\ iReq = Absent
  /\ procStore = [n \in Nonce |-> Absent]
  /\ load = [w \in Workers |-> 0]
  /\ runStore = [n \in Nonce |-> NoEntry]
  /\ runs = <<>>
  /\ stats = <<>>
  /\ wire = <<>>
  /\ ended = {}
  /\ answers = [id \in Ids |-> <<>>]
  /\ panicked = FALSE

Clients ==
  \/ \E s \in Sources : IssueQuery(s) \/ IssueCreateRun(s)
  \/ \E r \in RunArgs : IssueGetRun(r) \/ IssueStopRun(r)
  \/ \E r \in 1..Len(runs), rep \in Reports : WorkerReports(r, rep)
  \/ \E ch \in {"c6", "c8", "c19"} : ClientReceives(ch)

ProcessorThread ==
  \/ \E s \in Sources : ProcQuery(s) \/ ProcCreateRun(s) \/ ProcForward(s)
  \/ ProcPipeline
  \/ ProcRunnerResponds

RunnerThread ==
  \/ RunnerGetRun \/ RunnerCreateRun \/ RunnerUpdateRun \/ RunnerDeleteRun
  \/ RunnerDatabaseResponds \/ RunnerSocketResponds

Next ==
  \/ Clients
  \/ ProcessorThread
  \/ RunnerThread
  \/ DatabaseServesProcessor \/ DatabaseServesRunner
  \/ SocketServesRunner
  \/ \E t \in Threads : Flush(t)

Spec == Init /\ [][Next]_vars

\* A goroutine that can go on eventually does, and so does whoever drains an answer channel.
Fairness ==
  /\ WF_vars(ProcessorThread)
  /\ WF_vars(RunnerThread)
  /\ WF_vars(DatabaseServesProcessor \/ DatabaseServesRunner)
  /\ WF_vars(SocketServesRunner)
  /\ \A t \in Threads : WF_vars(Flush(t))
  /\ \A ch \in {"c6", "c8", "c19"} : WF_vars(ClientReceives(ch))

FairSpec == Spec /\ Fairness
-----------------------------------------------------------------------------
(* Type invariant. *)

Request == [src : Sources, act : ActionSet, nonce : Nonce, run : Nat,
            status : Status, stat : BOOLEAN]
Answer  == [from : Ids, ok : BOOLEAN, run : Nat]
Run     == [worker : Workers \cup {NoWorker}, for : Ids, status : Status]
Letter  == [kind : Kinds, run : Nat, worker : Workers]

\* Types: whatever is in flight or stored is about a request that was issued.
TypeOK ==
  /\ req \in Seq(Request) /\ Len(req) <= MaxRequests
  /\ cur \in [Sources -> Nonce]
  /\ chan \in [InChans \cup OutChans -> Seq(Msg)]
  /\ pend \in [Threads -> Seq([ch : OutChans, msg : Msg])]
  /\ iReq \in {Absent} \cup Ids
  /\ procStore \in [Nonce -> {Absent} \cup Ids]
  /\ load \in [Workers -> Nat]
  /\ runStore \in [Nonce -> Entry]
  /\ runs \in Seq(Run)
  /\ stats \in Seq(Nat)
  /\ wire \in Seq(Letter)
  /\ ended \in SUBSET Nat
  /\ answers \in [Ids -> Seq(Answer)]
  /\ panicked \in BOOLEAN
-----------------------------------------------------------------------------
(* Safety. *)

\* No request is answered twice, although the runner may send two responses for one
\* request, responses are matched to the wrong request and nonces of different pools
\* coincide: what saves it is that an answered request always leaves requestStore.
AtMostOneAnswer == \A id \in Ids : Len(answers[id]) <= 1

\* What the runner has stored is what it waits for: under every nonce with an entry some
\* message is still on its way to or from the database or the socket thread, so no
\* entry is ever forgotten in the runner's requestStore.
InTransit(n) ==
  \/ \E ch \in {"c15", "c16", "c9", "c10"} :
       \E i \in 1..Len(chan[ch]) : NonceOf(chan[ch][i].id) = n
  \/ \E t \in {"runner", "database", "socket"} :
       \E i \in 1..Len(pend[t]) : /\ pend[t][i].ch \in {"c15", "c16", "c9", "c10"}
                                 /\ NonceOf(pend[t][i].msg.id) = n
RunnerStoreIsAwaited == \A n \in Nonce : runStore[n].id # Absent => InTransit(n)

\* A run is sent to a worker at most once, and to the worker its record names, whatever
\* requests were mixed up under one nonce on the way.
DispatchedOnceAsRecorded ==
  \A i \in 1..Len(wire) : wire[i].kind = "create" =>
    /\ wire[i].run \in 1..Len(runs)
    /\ wire[i].worker = runs[wire[i].run].worker
    /\ \A j \in 1..Len(wire) : wire[j] = wire[i] => j = i

\* A run gets at most one statistic record, and none before its worker said it ended.
OneStatisticPerEndedRun ==
  \A i \in 1..Len(stats) :
    /\ stats[i] \in ended
    /\ \A j \in 1..Len(stats) : stats[j] = stats[i] => j = i

\* Only a run that was written to its worker's connection is ever active.
ActiveWasDispatched ==
  \A r \in 1..Len(runs) : runs[r].status = "active" => r \in Held

\* A stop that names a run cancels that run, whatever was mixed up on the way to the
\* runner; only one that names no run there is hits another (run 0 is every run).
StopHitsNamedRun ==
  [][\A r \in 1..Len(runs) :
       runs[r].status # "cancelled" /\ runs'[r].status = "cancelled"
         => req[Head(chan["c13"]).id].run \in {r} \cup (Nat \ 1..Len(runs))]_vars

\* NumOfRuns, by which the least loaded worker is picked, never counts fewer runs than
\* the worker has.
LoadCoversRuns ==
  \A w \in Workers : Cardinality({r \in 1..Len(runs) : runs[r].worker = w}) <= load[w]

\* Whatever the runner has stored is resolved: its entry leaves requestStore.
Stored(id) == \E n \in Nonce : runStore[n].id = id
RunnerResolves == \A id \in Ids : Stored(id) ~> (~Stored(id) \/ panicked)
=============================================================================
