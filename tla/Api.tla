-------------------------------- MODULE Api ---------------------------------
(***************************************************************************)
(* Operators use the core: a command of the API client sends one or more   *)
(* HTTP requests; the callback of the REST thread turns each into a        *)
(* request to a thread of the core, under a nonce, and looks for the       *)
(* answer under that nonce until it gives up; the thread performs the      *)
(* request whether or not anybody still waits.  Three layers judge each    *)
(* outcome: the helper the callback calls, the callback that picks a       *)
(* status, and the client that may or may not read it.                     *)
(*                                                                         *)
(* The processor thread works on the table of Registry; the stores of the  *)
(* database, scheduler and runner threads are sets.  Two hops are folded   *)
(* because nothing can tell them apart from a slower thread: what the      *)
(* socket thread asks on C7 happens when the processor thread takes it,    *)
(* and the REST thread files an answer as it is sent.  What happens inside *)
(* the creation of a run is the subject of RunControl.                     *)
(***************************************************************************)
EXTENDS Registry

CONSTANTS
  Users,       \* goroutines of operators' requests
  Namespaces,
  Pipelines,   \* pairs <<namespace, identifier>>
  Uses,        \* functions of each pipeline
  Jobs,        \* identifiers of jobs
  RunIds,      \* identifiers of runs an operator may name
  Calls,       \* what the operators may ask
  RangeSize,   \* largest nonce of the REST thread's pool (262114 in the code)
  MaxCalls,    \* bound: calls operators make
  MaxEvents    \* bound: what workers do

ASSUME ApiAssumption ==
  /\ Pipelines \subseteq Namespaces \X STRING
  /\ Uses \in [Pipelines -> SUBSET Functions]
  /\ RangeSize \in Nat \ {0}
  /\ MaxCalls \in Nat
  /\ MaxEvents \in Nat

VARIABLES
  pipelines,   \* stored pipelines
  recorded,    \* pipelines with stored statistics
  jobs,        \* stored jobs
  runs,        \* run database: the pipeline of each run and the request that made it
  chan,        \* requests on their way to each thread, in order
  responses,   \* response tables: by nonce, never cleared
  cur,         \* the nonce pool's counter
  issued,      \* how many requests were sent
  user,        \* what each user's call is at
  stable,      \* history: what a listing has to show, present since the call began
  performed,   \* history: requests a thread has performed
  calls, events

storeVars == <<pipelines, recorded, jobs, runs>>
restVars  == <<cur, issued, user, calls>>
vars == <<tableVars, storeVars, chan, responses, restVars, stable, performed, events>>

ThreadOf == [c5 |-> "processor", c1 |-> "database", c20 |-> "scheduler"]
Channels == DOMAIN ThreadOf
-----------------------------------------------------------------------------
(* The helpers: which thread is asked for what, and what type the data of  *)
(* the answer is cast to.                                                  *)

Rq(ch, act, rec, arg, wants) ==
  [ch |-> ch, act |-> act, rec |-> rec, arg |-> arg, wants |-> wants]
Nothing == Rq("none", "none", "none", <<>>, "none")

GetProcessorsRq      == Rq("c5", "Get", "Processor", <<>>, "processors")
GetModulesRq         == Rq("c5", "Get", "Module", <<>>, "modules")
MountModuleRq(m)     == Rq("c5", "Mount", "Module", <<m>>, "none")
UnmountModuleRq(m)   == Rq("c5", "UnMount", "Module", <<m>>, "none")
GetFunctionsRq(m)    == Rq("c5", "Get", "Function", <<m>>, "functions")
MountFunctionRq(f)   == Rq("c5", "Mount", "Function", f, "none")
UnmountFunctionRq(f) == Rq("c5", "UnMount", "Function", f, "none")
CreateRunRq(p)       == Rq("c5", "Create", "Run", p, "none")
GetRunRq(ns)         == Rq("c5", "Get", "Run", <<ns>>, "runs")
GetRunCountRq(ns)    == Rq("c5", "Count", "Run", <<ns>>, "count")
StopRunRq(id)        == Rq("c5", "Delete", "Run", <<id>>, "none")
GetPipelineRq(arg)   == Rq("c1", "Get", "Pipeline", arg, "pipelines")
GetStatisticRq(arg)  == Rq("c1", "Get", "Statistic", arg, "statistics")
SummaryRq(ns)        == Rq("c1", "Summary", "Statistic", <<ns>>, "fields")
GetNamespacesRq      == Rq("c1", "Get", "Namespace", <<>>, "namespaces")
StorePipelineRq(p)   == Rq("c1", "Create", "Pipeline", p, "none")
ReplacePipelineRq(p) == Rq("c1", "Update", "Pipeline", p, "none")
DeletePipelineRq(p)  == Rq("c1", "Delete", "Pipeline", p, "none")
GetJobsRq            == Rq("c20", "Get", "Job", <<>>, "jobs")
CreateJobRq(j)       == Rq("c20", "Create", "Job", <<j>>, "none")
DeleteJobRq(j)       == Rq("c20", "Delete", "Job", <<j>>, "none")
\* The thread answers with jobs, the helper casts to pointers to jobs.
JobQueueRq           == Rq("c20", "Get", "Queue", <<>>, "pointers to jobs")

\* What a helper makes of an answer; GetJobs does not ask whether it is a success.
Silence == [id |-> 0, ok |-> FALSE, kind |-> "none", data |-> {}]
Accepts(rq, ans) ==
  /\ ans # Silence
  /\ ans.ok \/ rq = GetJobsRq
  /\ rq.wants = "none" \/ ans.kind = rq.wants
-----------------------------------------------------------------------------
(* The callbacks: the request each sends, and the status when it fails.    *)

Callback(rq, failure) == [asks |-> rq, failure |-> failure]

getProcessorCallback        == Callback(GetProcessorsRq, "InternalServerError")
getModuleCallback           == Callback(GetModulesRq, "InternalServerError")
putModuleCallback(m, on)    == Callback(IF on THEN MountModuleRq(m) ELSE UnmountModuleRq(m),
                                        "InternalServerError")
getFunctionCallback(m)      == Callback(GetFunctionsRq(m), "NotFound")
putFunctionCallback(f, on)  == Callback(IF on THEN MountFunctionRq(f) ELSE UnmountFunctionRq(f),
                                        "NotFound")
postRunCallback(p)          == Callback(CreateRunRq(p), "BadRequest")
getRunCallback(ns)          == Callback(GetRunRq(ns), "OK")
getRunCountCallback(ns)     == Callback(GetRunCountRq(ns), "OK")
deleteRunCallback(id)       == Callback(StopRunRq(id), "BadRequest")
getNamespaceCallback        == Callback(GetNamespacesRq, "OK")
getPipelineCallback(arg)    == Callback(GetPipelineRq(arg), "NotFound")
\* The body has to name a namespace, an identifier and the pipeline's data.
postPipelineCallback(p, complete) ==
  IF complete THEN Callback(StorePipelineRq(p), "Conflict") ELSE Callback(Nothing, "BadRequest")
putPipelineCallback(p)      == Callback(ReplacePipelineRq(p), "InternalServerError")
deletePipelineCallback(p)   == Callback(DeletePipelineRq(p), "NotFound")
getStatisticCallback(arg)   == Callback(GetStatisticRq(arg), "NotFound")
getStatisticInfoCallback(ns) == Callback(SummaryRq(ns), "InternalServerError")
getJobCallback              == Callback(GetJobsRq, "OK")
postJobCallback(j)          == Callback(CreateJobRq(j), "OK")
deleteJobCallback(j)        == Callback(DeleteJobRq(j), "OK")
getJobQueueCallback         == Callback(JobQueueRq, "OK")
-----------------------------------------------------------------------------
(* The API client: the HTTP requests of a command, and whether a status    *)
(* other than 200 makes it fail.  A listing first asks for names, then for *)
(* what each of them holds.                                                *)

Http(callback, strict) == [via |-> callback, strict |-> strict]
Command(http)          == [first |-> http, each |-> "none"]
Listing(http, each)    == [first |-> http, each |-> each]

GetFunctionsInModule(m)     == Http(getFunctionCallback(m), FALSE)
GetPipelinesInNamespace(ns) == Http(getPipelineCallback(<<ns>>), FALSE)
GetRunsInNamespace(ns)      == Http(getRunCallback(ns), FALSE)

ListProcessors            == Command(Http(getProcessorCallback, TRUE))
ListModules               == Command(Http(getModuleCallback, TRUE))
ListFunctions             == Listing(Http(getModuleCallback, TRUE), "functions")
setModuleMounted(m, on)   == Command(Http(putModuleCallback(m, on), TRUE))
setFunctionMounted(f, on) == Command(Http(putFunctionCallback(f, on), TRUE))
IsPipelineOnCore(ns)      == Command(GetPipelinesInNamespace(ns))
\* The body is the pipeline's data alone: its namespace and its name are left out.
CreatePipelineOnCore(p)   == Command(Http(postPipelineCallback(p, FALSE), TRUE))
RemovePipelineFromCore(p) == Command(Http(deletePipelineCallback(p), TRUE))
RunPipelineOnCore(p)      == Command(Http(postRunCallback(p), TRUE))
StopRun(id)               == Command(Http(deleteRunCallback(id), TRUE))
ListNamespaces            == Command(Http(getNamespaceCallback, FALSE))
ListPipelines             == Listing(Http(getNamespaceCallback, FALSE), "pipelines")
GetPipeline(p)            == Command(Http(getPipelineCallback(p), TRUE))
ListRuns                  == Listing(Http(getNamespaceCallback, FALSE), "runs")
ListJobs                  == Command(Http(getJobCallback, TRUE))
CreateJob(j)              == Command(Http(postJobCallback(j), TRUE))
DeleteJob(j)              == Command(Http(deleteJobCallback(j), TRUE))
\* What has no command in the client is asked for with curl, as the documentation shows.
Curl(callback)            == Command(Http(callback, TRUE))

\* All an operator can ask.
OfNamespace(ns) ==
  {IsPipelineOnCore(ns), Curl(getRunCallback(ns)), Curl(getRunCountCallback(ns)),
   Curl(getStatisticCallback(<<ns>>)), Curl(getStatisticInfoCallback(ns))}
OfPipeline(p) ==
  {CreatePipelineOnCore(p), RemovePipelineFromCore(p), RunPipelineOnCore(p), GetPipeline(p),
   Curl(postPipelineCallback(p, TRUE)), Curl(putPipelineCallback(p)), Curl(getStatisticCallback(p))}
Commands ==
  {ListProcessors, ListModules, ListFunctions, ListNamespaces, ListPipelines, ListRuns, ListJobs,
   Curl(getJobQueueCallback)}
  \cup {setModuleMounted(m, on) : m \in Modules, on \in BOOLEAN}
  \cup {setFunctionMounted(f, on) : f \in Functions, on \in BOOLEAN}
  \cup (UNION {OfNamespace(ns) : ns \in Namespaces})
  \cup (UNION {OfPipeline(p) : p \in Pipelines})
  \cup {StopRun(id) : id \in RunIds}
  \cup {CreateJob(j) : j \in Jobs} \cup {DeleteJob(j) : j \in Jobs}

ASSUME CallsAssumption == Calls \subseteq Commands

Follows(each, x) ==
  CASE each = "functions" -> GetFunctionsInModule(x)
    [] each = "pipelines" -> GetPipelinesInNamespace(x)
    [] each = "runs"      -> GetRunsInNamespace(x)
-----------------------------------------------------------------------------
(* A user's call. *)

\* For the checks: a pool that never comes round, and one that does not move.
RunawayNonce == cur + 1
SameNonce    == cur

NextNonce == IF cur < RangeSize THEN cur + 1 ELSE 0
Wrapped   == issued > RangeSize + 1

Idle == [call |-> Command(Http(Callback(Nothing, "OK"), TRUE)), http |-> Http(Callback(Nothing, "OK"), TRUE),
         todo |-> {}, nonce |-> 0, id |-> 0, got |-> {}, lost |-> FALSE, told |-> "nothing yet"]

NamesOf(ps) == {p[1] : p \in ps}
\* What there is to list.  Runs are asked for by the namespaces of pipelines and statistics.
Items(each, table, ps, ss, rs) ==
  CASE each = "functions" -> {f \in Functions : table[f] # <<>>}
    [] each = "pipelines" -> ps
    [] each = "runs"      -> {r \in DOMAIN rs : rs[r].pipeline[1] \in NamesOf(ps \cup ss)}
    [] OTHER              -> {}

Busy(u) == user[u].told = "waiting"

\* The call is over when an answer is final; else the next request of the listing goes out.
\* Sending draws a nonce and puts the request on the thread's channel.
Sends(u, state, http) ==
  /\ user' = [user EXCEPT ![u] = [state EXCEPT !.http = http, !.nonce = NextNonce,
                                               !.id = issued + 1, !.told = "waiting"]]
  /\ cur' = NextNonce
  /\ issued' = issued + 1
  /\ chan' = [chan EXCEPT ![http.via.asks.ch] =
                Append(@, [rq |-> http.via.asks, nonce |-> NextNonce, id |-> issued + 1])]
Ends(u, state, told) ==
  /\ user' = [user EXCEPT ![u] = [state EXCEPT !.told = told]]
  /\ UNCHANGED <<cur, issued, chan>>

\* What the client is told when the last request of its call went this way.
Told(http, status) == IF status = "OK" \/ ~http.strict THEN "nil" ELSE "error"

Begin(u, c) ==
  /\ ~Busy(u)
  /\ calls < MaxCalls
  /\ calls' = calls + 1
  /\ stable' = [stable EXCEPT ![u] = Items(c.each, hosts, pipelines, recorded, runs)]
  /\ LET state == [Idle EXCEPT !.call = c] IN
       IF c.first.via.asks = Nothing
         THEN Ends(u, [state EXCEPT !.http = c.first], Told(c.first, c.first.via.failure))
         ELSE Sends(u, state, c.first)
  /\ UNCHANGED <<tableVars, storeVars, responses, performed, events>>

\* The waiting request of u is over with this answer, or with none.
Continue(u, ans) ==
  LET s       == user[u]
      good    == Accepts(s.http.via.asks, ans)
      told    == Told(s.http, IF good THEN "OK" ELSE s.http.via.failure)
      data    == IF good THEN ans.data ELSE {}
      naming  == s.call.each # "none" /\ s.http = s.call.first
      todo    == IF naming THEN {Follows(s.call.each, x) : x \in data} ELSE s.todo
      state   == [s EXCEPT !.got = IF naming THEN {} ELSE s.got \cup data,
                           !.lost = @ \/ ans = Silence]
  IN IF told = "error" \/ todo = {}
       THEN Ends(u, [state EXCEPT !.todo = {}], told)
       ELSE \E next \in todo : Sends(u, [state EXCEPT !.todo = todo \ {next}], next)

ReadsAnswer(u) ==
  /\ Busy(u)
  /\ LET ans == responses[user[u].http.via.asks.ch][user[u].nonce] IN
       ans # Silence /\ Continue(u, ans)
  /\ UNCHANGED <<tableVars, storeVars, responses, calls, stable, performed, events>>

TimesOut(u) ==
  /\ Busy(u)
  /\ Continue(u, Silence)
  /\ UNCHANGED <<tableVars, storeVars, responses, calls, stable, performed, events>>
-----------------------------------------------------------------------------
(* The threads. *)

Taken(ch, act, rec) ==
  IF chan[ch] # <<>> /\ Head(chan[ch]).rq.act = act /\ Head(chan[ch]).rq.rec = rec
    THEN {Head(chan[ch])} ELSE {}

Answers(r, ok, kind, data) ==
  /\ chan' = [chan EXCEPT ![r.rq.ch] = Tail(@)]
  /\ responses' = [responses EXCEPT ![r.rq.ch][r.nonce] =
                     [id |-> r.id, ok |-> ok, kind |-> kind, data |-> data]]
  /\ performed' = IF ok THEN performed \cup {r.id} ELSE performed
  /\ UNCHANGED <<restVars, events>>

\* A listing under way has to show what is there before and after the step.
StillThere ==
  stable' = [u \in Users |-> stable[u] \cap Items(user[u].call.each, hosts', pipelines', recorded', runs')]
Shows(ch, act, rec, kind, data) ==
  \E r \in Taken(ch, act, rec) :
    Answers(r, TRUE, kind, data) /\ UNCHANGED <<tableVars, storeVars, stable>>

handleGetProcessor == Shows("c5", "Get", "Processor", "processors", GetProcessors)
handleGetModule    == Shows("c5", "Get", "Module", "modules", GetModules)
handleGetFunctions ==
  \E r \in Taken("c5", "Get", "Function") :
    /\ Answers(r, HasModule(r.rq.arg[1]), "functions", GetFunctions(r.rq.arg[1]))
    /\ UNCHANGED <<tableVars, storeVars, stable>>

\* A change of the table, or the refusal of one, with the guard that decides.
Changes(r, can, change) ==
  /\ (can /\ change) \/ (~can /\ UNCHANGED tableVars)
  /\ Answers(r, can, "none", {})
  /\ UNCHANGED <<storeVars, stable>>

handleMountModule ==
  \E r \in Taken("c5", "Mount", "Module") :
    Changes(r, HasModule(r.rq.arg[1]), MountModule(r.rq.arg[1]))
handleUnMountModule ==
  \E r \in Taken("c5", "UnMount", "Module") :
    Changes(r, HasModule(r.rq.arg[1]), UnMountModule(r.rq.arg[1]))
handleMountFunction ==
  \E r \in Taken("c5", "Mount", "Function") :
    Changes(r, HasFunction(r.rq.arg), MountFunction(r.rq.arg))
handleUnMountFunction ==
  \E r \in Taken("c5", "UnMount", "Function") :
    Changes(r, HasFunction(r.rq.arg), UnMountFunction(r.rq.arg))

\* The pipeline is looked up, a worker is found for it, and the runner records the run.
handleCreateRun ==
  \E r \in Taken("c5", "Create", "Run") :
    LET p == r.rq.arg IN
      \/ /\ p \in pipelines
         /\ \E w \in Workers : FindCandidateProcessor(Uses[p], w)
         /\ runs' = Append(runs, [pipeline |-> p, by |-> r.id])
         /\ Answers(r, TRUE, "run", {Len(runs) + 1})
         /\ UNCHANGED <<pipelines, recorded, jobs>>
         /\ StillThere
      \/ /\ p \notin pipelines \/ ~Placeable(Uses[p])
         /\ Answers(r, FALSE, "none", {})
         /\ UNCHANGED <<tableVars, storeVars, stable>>

RunsIn(ns) == {i \in DOMAIN runs : runs[i].pipeline[1] = ns}
handleGetRun ==
  \E r \in Taken("c5", "Get", "Run") :
    Answers(r, TRUE, "runs", RunsIn(r.rq.arg[1])) /\ UNCHANGED <<tableVars, storeVars, stable>>
handleCountRuns ==
  \E r \in Taken("c5", "Count", "Run") :
    /\ Answers(r, TRUE, "count", {Cardinality(RunsIn(r.rq.arg[1]))})
    /\ UNCHANGED <<tableVars, storeVars, stable>>
handleDeleteRun ==
  \E r \in Taken("c5", "Delete", "Run") :
    Answers(r, TRUE, "none", {}) /\ UNCHANGED <<tableVars, storeVars, stable>>

\* For the checks: a namespace alone is taken for an identifier.
FoundByName(arg) == {p \in pipelines : p = arg}

\* A namespace alone asks for all its pipelines.
Found(arg) == {p \in pipelines : p = arg \/ <<p[1]>> = arg}
handleGetPipelineRecord ==
  \E r \in Taken("c1", "Get", "Pipeline") :
    /\ Answers(r, Found(r.rq.arg) # {}, "pipelines", Found(r.rq.arg))
    /\ UNCHANGED <<tableVars, storeVars, stable>>
handleGetNamespaceRecord == Shows("c1", "Get", "Namespace", "namespaces",
                                  NamesOf(pipelines \cup recorded))

StatisticsOf(arg) == {p \in recorded : p = arg \/ <<p[1]>> = arg}
handleGetStatisticRecord ==
  \E r \in Taken("c1", "Get", "Statistic") :
    /\ Answers(r, StatisticsOf(r.rq.arg) # {}, "statistics", StatisticsOf(r.rq.arg))
    /\ UNCHANGED <<tableVars, storeVars, stable>>
handleSummaryStatistics ==
  \E r \in Taken("c1", "Summary", "Statistic") :
    /\ Answers(r, TRUE, "fields", {p[2] : p \in StatisticsOf(r.rq.arg)})
    /\ UNCHANGED <<tableVars, storeVars, stable>>

StoresPipelines(r, ok, new) ==
  /\ pipelines' = IF ok THEN new ELSE pipelines
  /\ Answers(r, ok, "none", {})
  /\ UNCHANGED <<tableVars, recorded, jobs, runs>>
  /\ StillThere
handleCreatePipelineRecord ==
  \E r \in Taken("c1", "Create", "Pipeline") :
    StoresPipelines(r, r.rq.arg \notin pipelines, pipelines \cup {r.rq.arg})
handleUpdatePipelineRecord ==
  \E r \in Taken("c1", "Update", "Pipeline") :
    StoresPipelines(r, r.rq.arg \in pipelines, pipelines)
handleDeletePipelineRecord ==
  \E r \in Taken("c1", "Delete", "Pipeline") :
    StoresPipelines(r, r.rq.arg \in pipelines, pipelines \ {r.rq.arg})

handleGetJob ==
  \E r \in Taken("c20", "Get", "Job") :
    Answers(r, jobs # {}, "jobs", jobs) /\ UNCHANGED <<tableVars, storeVars, stable>>
handleGetQueue == Shows("c20", "Get", "Queue", "jobs", {})
StoresJobs(r, ok, new) ==
  /\ jobs' = IF ok THEN new ELSE jobs
  /\ Answers(r, ok, "none", {})
  /\ UNCHANGED <<tableVars, pipelines, recorded, runs, stable>>
handleCreateJob ==
  \E r \in Taken("c20", "Create", "Job") :
    LET j == r.rq.arg[1] IN StoresJobs(r, j \notin jobs, jobs \cup {j})
handleDeleteJob ==
  \E r \in Taken("c20", "Delete", "Job") :
    LET j == r.rq.arg[1] IN StoresJobs(r, j \in jobs, jobs \ {j})
-----------------------------------------------------------------------------
(* Workers come, describe their modules and go. *)

Event(a) ==
  /\ events < MaxEvents
  /\ a
  /\ events' = events + 1
  /\ UNCHANGED <<pipelines, jobs, runs, chan, responses, restVars, performed>>
  /\ StillThere
TableEvent(a) == Event(a /\ UNCHANGED recorded)

handleCreateProcessor == \E w \in Workers : TableEvent(AddProcessor(w))
handleCreateModule    == \E o \in Offers : TableEvent(AddModule(o))
handleDeleteProcessor == \E w \in Listed : TableEvent(RemoveProcessor(w))
\* A worker reports that a run is over, which ends in a statistic of its pipeline.
handleCreateStatisticRecord ==
  \E i \in DOMAIN runs :
    Event(recorded' = recorded \cup {runs[i].pipeline} /\ UNCHANGED tableVars)
-----------------------------------------------------------------------------
Init ==
  /\ Empty
  /\ pipelines = Pipelines
  /\ recorded = {}
  /\ jobs = {}
  /\ runs = <<>>
  /\ chan = [ch \in Channels |-> <<>>]
  /\ responses = [ch \in Channels |-> [n \in 0..RangeSize |-> Silence]]
  /\ cur = 0
  /\ issued = 0
  /\ user = [u \in Users |-> Idle]
  /\ stable = [u \in Users |-> {}]
  /\ performed = {}
  /\ calls = 0
  /\ events = 0

ProcessorServes ==
  \/ handleGetProcessor
  \/ handleGetModule
  \/ handleGetFunctions
  \/ handleMountModule
  \/ handleUnMountModule
  \/ handleMountFunction
  \/ handleUnMountFunction
  \/ handleCreateRun
  \/ handleGetRun
  \/ handleCountRuns
  \/ handleDeleteRun
  \/ handleCreateProcessor
  \/ handleCreateModule
  \/ handleDeleteProcessor
DatabaseServes ==
  \/ handleGetPipelineRecord
  \/ handleGetNamespaceRecord
  \/ handleCreatePipelineRecord
  \/ handleUpdatePipelineRecord
  \/ handleGetStatisticRecord
  \/ handleSummaryStatistics
  \/ handleCreateStatisticRecord
  \/ handleDeletePipelineRecord
SchedulerServes ==
  \/ handleGetJob
  \/ handleGetQueue
  \/ handleCreateJob
  \/ handleDeleteJob
UserActs ==
  \E u \in Users : (\E c \in Calls : Begin(u, c)) \/ ReadsAnswer(u) \/ TimesOut(u)

Next == ProcessorServes \/ DatabaseServes \/ SchedulerServes \/ UserActs
Spec == Init /\ [][Next]_vars
-----------------------------------------------------------------------------
(* Properties. *)

\* Types: nonces stay inside the pool, and every request, run and record on its way is about a
\* request that was sent.
TypeOK ==
  /\ TableTypeOK
  /\ pipelines \cup recorded \subseteq Pipelines
  /\ jobs \subseteq Jobs
  /\ \A i \in DOMAIN runs : runs[i].pipeline \in Pipelines /\ runs[i].by \in 1..issued
  /\ \A ch \in Channels : \A i \in DOMAIN chan[ch] :
       chan[ch][i].nonce \in 0..RangeSize /\ chan[ch][i].id \in 1..issued
  /\ cur \in 0..RangeSize
  /\ performed \subseteq 1..issued
  /\ \A u \in Users : user[u].told \in {"nothing yet", "waiting", "nil", "error"}

Changing == {"Mount", "UnMount", "Create", "Update", "Delete"}
Asked(u) == user[u].http.via.asks

\* What an operator is told of a change agrees with what became of that very request, until
\* the pool of nonces has gone round: no error means it was performed, and an error that is
\* not a timeout means it was not.  Jobs are left out of the first half: their callbacks
\* answer with status 200 whatever happened, and the client reads nothing else.
ToldTheTruth ==
  \A u \in Users :
    Asked(u).act \in Changing /\ ~Wrapped =>
      /\ user[u].told = "nil" /\ Asked(u).rec # "Job" => user[u].id \in performed
      /\ user[u].told = "error" /\ ~user[u].lost => user[u].id \notin performed
      /\ user[u].told = "nil" /\ Asked(u).rec = "Run" =>
           \A i \in user[u].got : runs[i].by = user[u].id

\* A listing put together from several requests shows what was there all the time it took,
\* unless one of them timed out, which the client does not notice, or the pool of nonces has
\* gone round.  Runs are found only in namespaces that have a pipeline or a statistic.
ListingIsWhole ==
  \A u \in Users :
    user[u].told = "nil" /\ user[u].call.each # "none" /\ ~user[u].lost /\ ~Wrapped =>
      stable[u] \subseteq user[u].got
=============================================================================
