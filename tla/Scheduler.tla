------------------------------ MODULE Scheduler ------------------------------
(***************************************************************************)
(* The scheduler of the core: Watch puts jobs that are due on a queue once *)
(* a minute, Loop takes them off and asks the processor thread to create a *)
(* run, and the main thread serves the operator and hands Loop the answers *)
(* of the processor thread.  Watch and Loop are goroutines of their own;   *)
(* the queue is protected by a Go RWMutex, in which a waiting writer holds *)
(* back every new reader.  Loop calls out while it holds the read lock.    *)
(***************************************************************************)
EXTENDS Integers, Sequences, FiniteSets

CONSTANTS
  Store,        \* the configured database of jobs: "sqlite" or "mongodb"
  JobIds,       \* identifiers an operator gives to jobs
  NoFilter,     \* a filter that names no identifier
  Intervals,    \* minutes an operator asks for between two runs of a job
  Stored,       \* sets of jobs earlier sessions may have left in the database
  LastStored,   \* the last row number earlier sessions gave to a job
  Asks,         \* kinds of requests the operator makes
  Outcomes,     \* how the processor thread answers a request to create a run
  Cap,          \* capacity of a channel (10 in the code)
  MaxRequests,  \* bound: requests of the operator
  MaxClock      \* bound: minutes that pass

AskKinds == {"queue", "jobs", "create", "delete"}

ASSUME SchedulerAssumption ==
  /\ Store \in {"sqlite", "mongodb"}
  /\ NoFilter \notin JobIds
  /\ Intervals \subseteq Nat
  /\ LastStored \in Nat
  /\ Stored \subseteq SUBSET [row : 1..LastStored, id : JobIds, minute : Nat]
  /\ \A J \in Stored : \A i, j \in J : i.row = j.row => i = j
  /\ Asks \subseteq AskKinds
  /\ Outcomes \subseteq {"ok", "error", "timeout"}
  /\ Cap \in Nat \ {0}
  /\ MaxRequests \in Nat
  /\ MaxClock \in Nat

Filters == JobIds \cup {NoFilter}
Readers == {"loop", "main"}

VARIABLES
  clock,        \* minutes since the start
  jobs,         \* records in the database of jobs
  lastRow,      \* the last row number the database gave to a job
  gone,         \* records deleted from it
  condition,    \* the filter in the sqlite query builder, which all queries share
  watch,        \* Watch: pc, jobs it has still to look at, minute in which it last slept
  loop,         \* Loop: pc, and the queue entry it took
  main,         \* main thread: pc, and the request it serves
  writer,       \* Watch has called mutex.Lock
  readers,      \* goroutines that hold the read lock
  waiting,      \* goroutines that have called mutex.RLock behind a waiting writer
  queue,        \* scheduler.queue: numbers of entries
  queued,       \* every entry ever queued, in order
  c18, c19,     \* entries sent to the processor thread; its answers
  c20,          \* requests of the operator
  table,        \* processorResponseTable
  provisioned,  \* entries the processor thread has received, in order
  answers,      \* answers to the operator, in order
  issued,       \* how many requests the operator has made
  panicked      \* a goroutine panicked: the process is gone

queueVars   == <<queue, queued>>
jobVars     == <<jobs, lastRow, gone>>
lockVars    == <<writer, readers, waiting>>
channelVars == <<c18, c19, table, provisioned>>
restVars    == <<c20, answers, issued>>
vars == <<clock, jobVars, condition, watch, loop, main, lockVars, queueVars,
          channelVars, restVars, panicked>>

Job == [row : Nat, id : Filters, minute : Nat]
Ask == [n : Nat, kind : AskKinds, filter : Filters, minute : Nat]
-----------------------------------------------------------------------------
(* The read-write lock of the queue. *)

\* RLock: behind a waiting writer even a goroutine that already holds the lock waits.
RLock(g) ==
  /\ IF writer
       THEN waiting' = waiting \cup {g} /\ UNCHANGED readers
       ELSE readers' = readers \cup {g} /\ UNCHANGED waiting
  /\ UNCHANGED writer

\* Mutant: a return path without the deferred unlock.
KeepsReading(g) == UNCHANGED lockVars
RUnlock(g) == readers' = readers \ {g} /\ UNCHANGED <<writer, waiting>>

Has(g) == g \in readers /\ g \notin waiting

\* Unlock lets in every reader that came while the writer waited.
Unlock == writer' = FALSE /\ readers' = waiting /\ waiting' = {}
-----------------------------------------------------------------------------
(* The database of jobs. *)

Selects(f, j) == f = NoFilter \/ j.id = f
\* Mutant: deleted jobs are found as well.
MatchingEver(f) == {j \in jobs \cup gone : Selects(f, j)}
Matching(f) == {j \in jobs : Selects(f, j)}

\* A query is built in the slices of the one query builder, under a read lock only.
Builds(f) == condition' = IF Store = "sqlite" THEN f ELSE condition
Built(f)  == IF Store = "sqlite" THEN condition ELSE f

\* CreateJob passes an empty filter: sqlite finds any job and refuses; mongodb inserts.
Refuses == Store = "sqlite" /\ jobs # {}

\* sqlite deletes all that match, mongodb one that has the identifier.
Deletable(f) ==
  IF Store = "sqlite" THEN {Matching(f)}
  ELSE IF f = NoFilter \/ Matching(f) = {} THEN {{}} ELSE {{j} : j \in Matching(f)}
-----------------------------------------------------------------------------
(* Watch. *)

Tick ==
  /\ ~panicked
  /\ clock < MaxClock
  /\ clock' = clock + 1
  /\ UNCHANGED <<jobVars, condition, watch, loop, main, lockVars, queueVars, channelVars,
                 restVars, panicked>>

\* Mutant: Watch does not sleep between two scans.
NeverSleeps == TRUE
\* time.Sleep of a minute ends in a later minute than it began.
Slept == clock > watch.slept

WatchGets ==
  /\ ~panicked
  /\ watch.pc = "sleep"
  /\ Slept
  /\ Builds(NoFilter)
  /\ watch' = [watch EXCEPT !.pc = "get"]
  /\ UNCHANGED <<clock, jobVars, loop, main, lockVars, queueVars, channelVars, restVars,
                 panicked>>

WatchScans ==
  /\ ~panicked
  /\ watch.pc = "get"
  /\ watch' = [watch EXCEPT !.pc = "scan", !.todo = Matching(Built(NoFilter))]
  /\ UNCHANGED <<clock, jobVars, condition, loop, main, lockVars, queueVars, channelVars,
                 restVars, panicked>>

\* IsTimeToRun: the interval divides the minute of the hour.
Due(j) == (clock % 60) % j.minute = 0

WatchChecks(j) ==
  /\ ~panicked
  /\ watch.pc = "scan"
  /\ j \in watch.todo
  /\ \/ /\ j.minute = 0
        /\ panicked' = TRUE
        /\ UNCHANGED <<watch, writer>>
     \/ /\ j.minute # 0
        /\ ~Due(j)
        /\ watch' = [watch EXCEPT !.todo = @ \ {j}]
        /\ UNCHANGED <<writer, panicked>>
     \/ /\ j.minute # 0
        /\ Due(j)
        /\ writer' = TRUE
        /\ watch' = [pc |-> "lock", todo |-> watch.todo \ {j}, slept |-> watch.slept,
                     row |-> j.row, due |-> clock]
        /\ UNCHANGED panicked
  /\ UNCHANGED <<clock, jobVars, condition, loop, main, readers, waiting, queueVars,
                 channelVars, restVars>>

WatchAppends ==
  /\ ~panicked
  /\ watch.pc = "lock"
  /\ readers = {}
  /\ queue' = Append(queue, Len(queued) + 1)
  /\ queued' = Append(queued, [row |-> watch.row, minute |-> watch.due,
                               late |-> \E j \in gone : j.row = watch.row])
  /\ Unlock
  /\ watch' = [watch EXCEPT !.pc = "scan"]
  /\ UNCHANGED <<clock, jobVars, condition, loop, main, channelVars, restVars, panicked>>

WatchSleeps ==
  /\ ~panicked
  /\ watch.pc = "scan"
  /\ watch.todo = {}
  /\ watch' = [watch EXCEPT !.pc = "sleep", !.slept = clock]
  /\ UNCHANGED <<clock, jobVars, condition, loop, main, lockVars, queueVars, channelVars,
                 restVars, panicked>>
-----------------------------------------------------------------------------
(* Loop. *)

LoopLocks ==
  /\ ~panicked
  /\ loop.pc = "idle"
  /\ RLock("loop")
  /\ loop' = [loop EXCEPT !.pc = "check"]
  /\ UNCHANGED <<clock, jobVars, condition, watch, main, queueVars, channelVars, restVars,
                 panicked>>

\* Mutant: the popped entry is left in the queue.
KeepsPopped == UNCHANGED queue
\* Mutant: the queue is cleared.
ClearsQueue == queue' = <<>>
Pop == queue' = Tail(queue)

LoopPops ==
  /\ ~panicked
  /\ loop.pc = "check"
  /\ Has("loop")
  /\ queue # <<>>
  /\ Pop
  /\ loop' = [pc |-> "send", entry |-> Head(queue)]
  /\ UNCHANGED <<clock, jobVars, condition, watch, main, lockVars, queued, channelVars,
                 restVars, panicked>>

\* CreateRun of helpers.go: draws a nonce, sends, then polls the response table.
LoopSends ==
  /\ ~panicked
  /\ loop.pc = "send"
  /\ Len(c18) < Cap
  /\ c18' = Append(c18, loop.entry)
  /\ loop' = [loop EXCEPT !.pc = "poll"]
  /\ UNCHANGED <<clock, jobVars, condition, watch, main, lockVars, queueVars, c19, table,
                 provisioned, restVars, panicked>>

LoopSucceeds ==
  /\ ~panicked
  /\ loop.pc = "poll"
  /\ [entry |-> loop.entry, ok |-> TRUE] \in table
  /\ loop' = [loop EXCEPT !.pc = "done"]
  /\ UNCHANGED <<clock, jobVars, condition, watch, main, lockVars, queueVars, channelVars,
                 restVars, panicked>>

\* After an error or a timeout the log asks for ItemsInQueue, which takes the read lock
\* that Loop still holds.
LoopFails ==
  /\ ~panicked
  /\ loop.pc = "poll"
  /\ [entry |-> loop.entry, ok |-> FALSE] \in table \/ "timeout" \in Outcomes
  /\ RLock("loop")
  /\ loop' = [loop EXCEPT !.pc = "done"]
  /\ UNCHANGED <<clock, jobVars, condition, watch, main, queueVars, channelVars, restVars,
                 panicked>>

LoopUnlocks ==
  /\ ~panicked
  /\ \/ loop.pc = "done"
     \/ loop.pc = "check" /\ queue = <<>>
  /\ Has("loop")
  /\ RUnlock("loop")
  /\ loop' = [loop EXCEPT !.pc = "idle"]
  /\ UNCHANGED <<clock, jobVars, condition, watch, main, queueVars, channelVars, restVars,
                 panicked>>
-----------------------------------------------------------------------------
(* The operator and the processor thread. *)

Issue(kind, f, m) ==
  /\ ~panicked
  /\ kind \in Asks
  /\ kind = "create" => f # NoFilter
  /\ issued < MaxRequests
  /\ Len(c20) < Cap
  /\ c20' = Append(c20, [n |-> issued + 1, kind |-> kind, filter |-> f, minute |-> m])
  /\ issued' = issued + 1
  /\ UNCHANGED <<clock, jobVars, condition, watch, loop, main, lockVars, queueVars,
                 channelVars, answers, panicked>>

\* The processor thread takes a request and answers it, in time or late.
ProcessorAnswers(ok) ==
  /\ ~panicked
  /\ c18 # <<>>
  /\ Len(c19) < Cap
  /\ (IF ok THEN "ok" ELSE "error") \in Outcomes
  /\ c18' = Tail(c18)
  /\ c19' = Append(c19, [entry |-> Head(c18), ok |-> ok])
  /\ provisioned' = Append(provisioned, Head(c18))
  /\ UNCHANGED <<clock, jobVars, condition, watch, loop, main, lockVars, queueVars, table,
                 restVars, panicked>>
-----------------------------------------------------------------------------
(* Main thread. *)

WriteTable(r) == table' = table \cup {r}

MainStores ==
  /\ ~panicked
  /\ main.pc = "select"
  /\ c19 # <<>>
  /\ c19' = Tail(c19)
  /\ WriteTable(Head(c19))
  /\ UNCHANGED <<clock, jobVars, condition, watch, loop, main, lockVars, queueVars, c18,
                 provisioned, restVars, panicked>>

\* Mutant: a request that fails has no response.
AnswersSuccess(a, ok) ==
  answers' = IF ok THEN Append(answers, [n |-> a.n, kind |-> a.kind, filter |-> a.filter, ok |-> ok])
                   ELSE answers
Answer(a, ok) ==
  answers' = Append(answers, [n |-> a.n, kind |-> a.kind, filter |-> a.filter, ok |-> ok])

MainTakes(kind) ==
  /\ ~panicked
  /\ main.pc = "select"
  /\ c20 # <<>>
  /\ Head(c20).kind = kind
  /\ c20' = Tail(c20)
  /\ UNCHANGED <<clock, watch, loop, queueVars, channelVars, issued, panicked>>

\* handleGetQueue
MainLocks ==
  /\ MainTakes("queue")
  /\ RLock("main")
  /\ main' = [pc |-> "copy", ask |-> Head(c20)]
  /\ UNCHANGED <<jobVars, condition, answers>>

\* The reply holds jobs, the client expects pointers to jobs: it is not accepted.
MainCopies ==
  /\ ~panicked
  /\ main.pc = "copy"
  /\ Has("main")
  /\ RUnlock("main")
  /\ Answer(main.ask, FALSE)
  /\ main' = [main EXCEPT !.pc = "select"]
  /\ UNCHANGED <<clock, jobVars, condition, watch, loop, queueVars, channelVars, c20, issued,
                 panicked>>

\* handleGetJob
MainGets ==
  /\ MainTakes("jobs")
  /\ Builds(Head(c20).filter)
  /\ main' = [pc |-> "get", ask |-> Head(c20)]
  /\ UNCHANGED <<jobVars, lockVars, answers>>

MainFinds ==
  /\ ~panicked
  /\ main.pc = "get"
  /\ Answer(main.ask, Matching(Built(main.ask.filter)) # {})
  /\ main' = [main EXCEPT !.pc = "select"]
  /\ UNCHANGED <<clock, jobVars, condition, watch, loop, lockVars, queueVars, channelVars, c20,
                 issued, panicked>>

\* Writing waits until no query of Watch is under way.
MainWrites(kind) ==
  /\ MainTakes(kind)
  /\ watch.pc # "get"
  /\ UNCHANGED <<main, lockVars>>

MainCreatesJob ==
  /\ MainWrites("create")
  /\ LET a == Head(c20) IN
       /\ Answer(a, ~Refuses)
       /\ IF Refuses
            THEN UNCHANGED <<jobs, lastRow>>
            ELSE /\ lastRow' = lastRow + 1
                 /\ jobs' = jobs \cup {[row |-> lastRow', id |-> a.filter, minute |-> a.minute]}
  /\ Builds(NoFilter)
  /\ UNCHANGED gone

\* An sqlite delete that finds nothing is an error, one of mongodb is not.
MainDeletesJob ==
  /\ MainWrites("delete")
  /\ \E D \in Deletable(Head(c20).filter) :
       /\ jobs' = jobs \ D
       /\ gone' = gone \cup D
       /\ Answer(Head(c20), Store = "mongodb" \/ D # {})
  /\ Builds(Head(c20).filter)
  /\ UNCHANGED lastRow
-----------------------------------------------------------------------------
NoAsk == [n |-> 0, kind |-> "jobs", filter |-> NoFilter, minute |-> 0]

Init ==
  /\ clock = 1
  /\ jobs \in Stored /\ lastRow = LastStored /\ gone = {}
  /\ condition = NoFilter
  /\ watch = [pc |-> "sleep", todo |-> {}, slept |-> 0, row |-> 0, due |-> 0]
  /\ loop = [pc |-> "idle", entry |-> 0]
  /\ main = [pc |-> "select", ask |-> NoAsk]
  /\ writer = FALSE /\ readers = {} /\ waiting = {}
  /\ queue = <<>> /\ queued = <<>>
  /\ c18 = <<>> /\ c19 = <<>> /\ table = {} /\ provisioned = <<>>
  /\ c20 = <<>> /\ answers = <<>> /\ issued = 0
  /\ panicked = FALSE

Watch == WatchGets \/ WatchScans \/ (\E j \in watch.todo : WatchChecks(j)) \/ WatchAppends \/ WatchSleeps

Loop == LoopLocks \/ LoopPops \/ LoopSends \/ LoopSucceeds \/ LoopFails \/ LoopUnlocks

MainServes ==
  \/ MainLocks \/ MainCopies
  \/ MainGets \/ MainFinds
  \/ MainCreatesJob \/ MainDeletesJob

Next ==
  \/ Tick
  \/ Watch
  \/ Loop
  \/ MainStores \/ MainServes
  \/ \E kind \in AskKinds, f \in Filters, m \in Intervals : Issue(kind, f, m)
  \/ \E ok \in BOOLEAN : ProcessorAnswers(ok)

Spec == Init /\ [][Next]_vars

\* Goroutines run on, the processor thread takes its requests, and the select of the main
\* thread, which picks one of the ready channels at random, passes over none for ever.
Fairness ==
  /\ WF_vars(Watch)
  /\ WF_vars(Loop)
  /\ SF_vars(MainStores)
  /\ SF_vars(MainServes)
  /\ WF_vars(\E ok \in BOOLEAN : ProcessorAnswers(ok))

FairSpec == Spec /\ Fairness
-----------------------------------------------------------------------------
(* Type invariant. *)

Entry == [row : Nat, minute : Nat, late : BOOLEAN]
Reply == [entry : Nat, ok : BOOLEAN]

\* Types: whatever is queued, asked or answered is about a job or an entry that exists.
TypeOK ==
  /\ clock \in Nat /\ issued \in Nat
  /\ jobs \in SUBSET Job /\ gone \in SUBSET Job /\ lastRow \in Nat
  /\ condition \in Filters
  /\ watch \in [pc : {"sleep", "get", "scan", "lock"}, todo : SUBSET Job,
                slept : Nat, row : Nat, due : Nat]
  /\ loop \in [pc : {"idle", "check", "send", "poll", "done"}, entry : Nat]
  /\ main \in [pc : {"select", "copy", "get"}, ask : Ask]
  /\ writer \in BOOLEAN
  /\ readers \in SUBSET Readers /\ waiting \in SUBSET Readers
  /\ queue \in Seq(Nat) /\ queued \in Seq(Entry)
  /\ c18 \in Seq(Nat) /\ c19 \in Seq(Reply) /\ c20 \in Seq(Ask)
  /\ table \in SUBSET Reply
  /\ provisioned \in Seq(Nat)
  /\ answers \in Seq([n : Nat, kind : AskKinds, filter : Filters, ok : BOOLEAN])
  /\ panicked \in BOOLEAN
-----------------------------------------------------------------------------
(* Safety. *)

\* The processor thread is asked for the runs of queued jobs in the order they were queued,
\* and for none of them twice, also when it answered an earlier one late or not at all.
ProvisionedInOrder == \A i \in 1..Len(provisioned) : provisioned[i] = i

\* "we shouldn't schedule a job twice in the same period" (job.go:41): a job is queued at
\* most once in a minute, although nothing ever sets the flag that comment is about.
QueuedOncePerMinute ==
  \A i, j \in 1..Len(queued) :
    i # j /\ queued[i].row = queued[j].row => queued[i].minute # queued[j].minute

\* A job that is deleted while Watch looks through its copy of the jobs may be queued after
\* its deletion, but once only.
DeletedJobQueuedOnce ==
  \A i, j \in 1..Len(queued) :
    queued[i].late /\ queued[j].late /\ queued[i].row = queued[j].row => i = j

\* Loop asks for the read lock it still holds, waits behind Watch for it, and Watch for Loop
\* to give it back.
LoopIsStuck == loop.pc = "done" /\ writer /\ "loop" \in readers \cap waiting

\* Watch gets the lock it waits for, unless Loop asks for its read lock a second time
\* meanwhile: nothing else keeps Watch waiting for ever.
WatchGetsLock == writer ~> (~writer \/ LoopIsStuck \/ panicked)

\* Every queued job is provisioned, late or after others that failed, unless Loop and Watch
\* wait for each other.
ProvisionedUnlessStuck ==
  \A i \in 1..(2 * MaxClock) :
    Len(queued) >= i ~> (Len(provisioned) >= i \/ LoopIsStuck \/ panicked)

\* The operator's requests on jobs are answered, also when Watch and Loop have stopped.
OperatorIsAnswered ==
  \A n \in 1..MaxRequests : issued >= n ~> (Len(answers) >= n \/ panicked)
=============================================================================
