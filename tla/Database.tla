------------------------------ MODULE Database ------------------------------
(***************************************************************************)
(* The database thread of the core and the stores behind it: pipelines     *)
(* and statistics, in sqlite (a record is spread over rows of several      *)
(* tables, written by one statement after the other without a transaction) *)
(* or in mongodb (a record is a document, written at once).  A statement   *)
(* may fail, and the core may crash between two statements; what was       *)
(* written stays.                                                          *)
(***************************************************************************)
EXTENDS Integers, FiniteSets

CONSTANTS
  Keys,          \* pipelines by namespace and name: [ns, name], names are numbers
  NumFunctions,  \* functions of a pipeline, entries of a statistic
  NumPipes,      \* pipes of a pipeline
  MaxRequests    \* bound: requests that are ever made

ASSUME DatabaseAssumption ==
  /\ \A k \in Keys : DOMAIN k = {"ns", "name"} /\ k.name \in Nat
  /\ NumFunctions \in Nat /\ NumPipes \in Nat /\ MaxRequests \in Nat

VARIABLES
  kind,       \* Database.Type of the configuration
  pipelines,  \* table pipeline
  irs,        \* table pipeline_ir
  functions,  \* table function_ir
  pipes,      \* table pipe_ir
  lastId,     \* the AUTOINCREMENT counter (one for all tables)
  stats,      \* table statistic
  data,       \* table statistics_data
  entries,    \* tables function_statistic, pipe_statistic, timing_statistic
  op,         \* the operation the thread is in, Idle in between
  requests,   \* how many requests were made; their numbers name what they store
  answer,     \* the answer just given
  doubt,      \* history: keys on which an operation was cut short and not repaired
  kept        \* history: statistics whose storing was acknowledged, and not deleted since

tables == <<pipelines, irs, functions, pipes>>
statistics == <<stats, data, entries>>
history == <<doubt, kept>>
vars == <<kind, tables, lastId, statistics, op, requests, answer, history>>

Idle     == [at |-> "idle"]
NoAnswer == [to |-> "none", ok |-> FALSE, found |-> {}]
Records  == 1..MaxRequests
Ids      == Nat \ {0}

Init ==
  /\ kind \in {"sqlite", "mongodb"}
  /\ pipelines = {} /\ irs = {} /\ functions = {} /\ pipes = {}
  /\ stats = {} /\ data = {} /\ entries = {}
  /\ lastId = 0
  /\ op = Idle /\ requests = 0 /\ answer = NoAnswer
  /\ doubt = {} /\ kept = {}

-----------------------------------------------------------------------------
(* Reading.                                                                *)

\* The rows of one key, and those a filter selects: sqlite asks for the
\* namespace only.
Rows(k)     == {p \in pipelines : p.key = k}
Selected(k) == IF kind = "sqlite" THEN {p \in pipelines : p.key.ns = k.ns} ELSE Rows(k)

IrsOf(p)       == {r \in irs : r.pipeline = p.id}
FunctionsOf(r) == {f \in functions : f.ir = r.id}
PipesOf(r)     == {f \in pipes : f.ir = r.id}

\* getPipelineIRByID: a row without a pipeline_ir is passed over.
Assembled(p, r) ==
  [key |-> p.key, rec |-> r.rec,
   functions |-> {<<f.rec, f.index>> : f \in FunctionsOf(r)},
   pipes |-> {<<f.rec, f.index>> : f \in PipesOf(r)}]

Whole(k, rec) ==
  [key |-> k, rec |-> rec,
   functions |-> {<<rec, i>> : i \in 1..NumFunctions},
   pipes |-> {<<rec, i>> : i \in 1..NumPipes}]

Found(k) == UNION {{Assembled(p, r) : r \in IrsOf(p)} : p \in Selected(k)}

\* A lookup that meets an error leaves out what it could not read, and the
\* caller is told of none; mongodb then returns no record at all.
Readable(k) == IF kind = "sqlite" THEN SUBSET Found(k) ELSE {Found(k), {}}

-----------------------------------------------------------------------------
(* Requests.  The thread serves one at a time and does nothing else until  *)
(* it has answered.                                                        *)

Requests == {"create", "replace", "delete", "get",
             "create_statistic", "delete_statistics", "get_statistics", "namespaces"}

Take(at, k) ==
  /\ op = Idle
  /\ requests < MaxRequests
  /\ requests' = requests + 1
  /\ op' = [at |-> at, key |-> k, rec |-> requests + 1, row |-> 0, ir |-> 0, next |-> 1]
  /\ answer' = NoAnswer
  /\ UNCHANGED <<kind, tables, lastId, statistics, history>>

At(label) == op # Idle /\ op.at = label
Continue(label, row, ir, next) ==
  /\ op' = [at |-> label, key |-> op.key, rec |-> op.rec, row |-> row, ir |-> ir, next |-> next]
  /\ UNCHANGED answer
Goto(label) == Continue(label, op.row, op.ir, op.next)
Finish(ok, found) == op' = Idle /\ answer' = [to |-> op.at, key |-> op.key, ok |-> ok, found |-> found]

-----------------------------------------------------------------------------
(* Pipelines in sqlite, statement by statement.                            *)

\* The functions of a record are written first, then its pipes.
Parts == NumFunctions + NumPipes

CreateChecks ==
  /\ At("create") /\ kind = "sqlite"
  /\ IF Rows(op.key) # {} THEN Finish(FALSE, {}) ELSE Goto("insert_pipeline")
  /\ UNCHANGED <<kind, tables, lastId, statistics, requests, history>>

\* Mutant: without AUTOINCREMENT an empty table numbers its rows from 1 again.
InsertPipelineReusesId ==
  LET id == IF pipelines = {} THEN 1 ELSE lastId + 1
  IN /\ At("insert_pipeline")
     /\ lastId' = IF id > lastId THEN id ELSE lastId
     /\ pipelines' = pipelines \cup {[id |-> id, key |-> op.key]}
     /\ Continue("insert_ir", id, op.ir, op.next)
     /\ UNCHANGED <<kind, irs, functions, pipes, statistics, requests, history>>

InsertPipeline ==
  /\ At("insert_pipeline")
  /\ lastId' = lastId + 1
  /\ pipelines' = pipelines \cup {[id |-> lastId + 1, key |-> op.key]}
  /\ Continue("insert_ir", lastId + 1, op.ir, op.next)
  /\ UNCHANGED <<kind, irs, functions, pipes, statistics, requests, history>>

ReplaceFinds ==
  /\ At("replace") /\ kind = "sqlite"
  /\ IF Rows(op.key) = {} THEN Finish(FALSE, {})
     ELSE \E p \in Rows(op.key) : Continue("find_ir", p.id, op.ir, op.next)
  /\ UNCHANGED <<kind, tables, lastId, statistics, requests, history>>

\* Mutant: the new parts are added to the pipeline_ir that is there.
ReplaceKeepsIr ==
  /\ At("find_ir")
  /\ LET old == {r \in irs : r.pipeline = op.row}
     IN IF old = {} THEN Goto("insert_ir")
        ELSE \E r \in old : Continue("insert_parts", op.row, r.id, op.next)
  /\ UNCHANGED <<kind, tables, lastId, statistics, requests, history>>

ReplaceFindsIr ==
  /\ At("find_ir")
  /\ LET old == {r \in irs : r.pipeline = op.row}
     IN IF old = {} THEN Goto("insert_ir")
        ELSE \E r \in old : Continue("delete_functions", op.row, r.id, op.next)
  /\ UNCHANGED <<kind, tables, lastId, statistics, requests, history>>

DeleteFunctions ==
  /\ At("delete_functions")
  /\ functions' = {f \in functions : f.ir # op.ir}
  /\ Goto("delete_pipes")
  /\ UNCHANGED <<kind, pipelines, irs, pipes, lastId, statistics, requests, history>>

DeletePipes ==
  /\ At("delete_pipes")
  /\ pipes' = {f \in pipes : f.ir # op.ir}
  /\ Goto("delete_ir")
  /\ UNCHANGED <<kind, pipelines, irs, functions, lastId, statistics, requests, history>>

DeleteIr ==
  /\ At("delete_ir")
  /\ irs' = {r \in irs : r.pipeline # op.row}
  /\ Goto("insert_ir")
  /\ UNCHANGED <<kind, pipelines, functions, pipes, lastId, statistics, requests, history>>

InsertIr ==
  /\ At("insert_ir")
  /\ lastId' = lastId + 1
  /\ irs' = irs \cup {[id |-> lastId + 1, pipeline |-> op.row, rec |-> op.rec]}
  /\ Continue("insert_parts", op.row, lastId + 1, 1)
  /\ UNCHANGED <<kind, pipelines, functions, pipes, statistics, requests, history>>

InsertPart ==
  /\ At("insert_parts") /\ op.next <= Parts
  /\ LET part(i) == [ir |-> op.ir, rec |-> op.rec, index |-> i]
     IN IF op.next <= NumFunctions
        THEN functions' = functions \cup {part(op.next)} /\ UNCHANGED pipes
        ELSE pipes' = pipes \cup {part(op.next - NumFunctions)} /\ UNCHANGED functions
  /\ Continue(op.at, op.row, op.ir, op.next + 1)
  /\ UNCHANGED <<kind, pipelines, irs, lastId, statistics, requests, history>>

\* Mutant: the last part is not waited for.
InsertedEarly ==
  /\ At("insert_parts") /\ op.next >= Parts
  /\ Finish(TRUE, {})
  /\ doubt' = doubt \ {op.key}
  /\ UNCHANGED <<kind, tables, lastId, statistics, requests, kept>>

Inserted ==
  /\ At("insert_parts") /\ op.next > Parts
  /\ Finish(TRUE, {})
  /\ doubt' = doubt \ {op.key}
  /\ UNCHANGED <<kind, tables, lastId, statistics, requests, kept>>

\* Mutant: the namespace is left out of the condition.
DeletePipelineByName ==
  /\ At("delete") /\ kind = "sqlite"
  /\ pipelines' = {p \in pipelines : p.key.name # op.key.name}
  /\ Finish(Rows(op.key) # {}, {})
  /\ doubt' = doubt \ {op.key}
  /\ UNCHANGED <<kind, irs, functions, pipes, lastId, statistics, requests, kept>>

\* The rows of the other tables stay: sqlite cascades only if told to enforce
\* foreign keys, and nobody tells it.
DeletePipeline ==
  /\ At("delete") /\ kind = "sqlite"
  /\ pipelines' = {p \in pipelines : p.key # op.key}
  /\ Finish(Rows(op.key) # {}, {})
  /\ doubt' = doubt \ {op.key}
  /\ UNCHANGED <<kind, irs, functions, pipes, lastId, statistics, requests, kept>>

-----------------------------------------------------------------------------
(* Pipelines in mongodb: a document is a row with all its parts.           *)

Document(id) ==
  /\ pipelines' = pipelines \cup {[id |-> id, key |-> op.key]}
  /\ irs' = irs \cup {[id |-> id, pipeline |-> id, rec |-> op.rec]}
  /\ functions' = functions \cup {[ir |-> id, rec |-> op.rec, index |-> i] : i \in 1..NumFunctions}
  /\ pipes' = pipes \cup {[ir |-> id, rec |-> op.rec, index |-> i] : i \in 1..NumPipes}

\* Create asks Get whether there is such a document, and Get returns none
\* when it fails.
CreateDocument ==
  /\ At("create") /\ kind = "mongodb"
  /\ \E seen \in Readable(op.key) :
       IF seen # {}
       THEN Finish(FALSE, {}) /\ UNCHANGED <<tables, lastId, doubt>>
       ELSE /\ Document(lastId + 1)
            /\ lastId' = lastId + 1
            /\ Finish(TRUE, {})
            /\ doubt' = IF Rows(op.key) = {} THEN doubt ELSE doubt \cup {op.key}
  /\ UNCHANGED <<kind, statistics, requests, kept>>

Without(p) ==
  /\ pipelines' = pipelines \ {p}
  /\ irs' = {r \in irs : r.pipeline # p.id}
  /\ functions' = {f \in functions : f.ir # p.id}
  /\ pipes' = {f \in pipes : f.ir # p.id}

ReplaceDocument ==
  /\ At("replace") /\ kind = "mongodb"
  /\ IF Rows(op.key) = {} THEN Finish(FALSE, {}) /\ UNCHANGED <<irs, functions, pipes>>
     ELSE \E p \in Rows(op.key) :
            LET part(i) == [ir |-> p.id, rec |-> op.rec, index |-> i]
            IN /\ irs' = {r \in irs : r.pipeline # p.id}
                           \cup {[id |-> p.id, pipeline |-> p.id, rec |-> op.rec]}
               /\ functions' = {f \in functions : f.ir # p.id} \cup {part(i) : i \in 1..NumFunctions}
               /\ pipes' = {f \in pipes : f.ir # p.id} \cup {part(i) : i \in 1..NumPipes}
               /\ Finish(TRUE, {})
  /\ UNCHANGED <<kind, pipelines, lastId, statistics, requests, history>>

\* Deleting nothing is a success: what DeleteOne counted is looked at only
\* when it returned an error.
DeleteDocument ==
  /\ At("delete") /\ kind = "mongodb"
  /\ \/ Rows(op.key) = {} /\ UNCHANGED tables
     \/ \E p \in Rows(op.key) : Without(p)
  /\ Finish(TRUE, {})
  /\ UNCHANGED <<kind, lastId, statistics, requests, history>>

GetPipeline ==
  /\ At("get")
  /\ \E found \in Readable(op.key) : Finish(found # {}, found)
  /\ UNCHANGED <<kind, tables, lastId, statistics, requests, history>>

-----------------------------------------------------------------------------
(* Statistics.  Nothing makes their keys unique; Delete is given the       *)
(* namespace only.                                                         *)

\* Each pipe has a row of its own and one for its timing.
Entries == NumFunctions + 2 * NumPipes

InsertStatistic ==
  /\ At("create_statistic") /\ kind = "sqlite"
  /\ lastId' = lastId + 1
  /\ stats' = stats \cup {[id |-> lastId + 1, key |-> op.key, rec |-> op.rec]}
  /\ Continue("insert_data", lastId + 1, op.ir, op.next)
  /\ UNCHANGED <<kind, tables, data, entries, requests, history>>

InsertData ==
  /\ At("insert_data")
  /\ lastId' = lastId + 1
  /\ data' = data \cup {[id |-> lastId + 1, stat |-> op.row]}
  /\ Continue("insert_entries", op.row, lastId + 1, op.next)
  /\ UNCHANGED <<kind, tables, stats, entries, requests, history>>

InsertEntry ==
  /\ At("insert_entries") /\ op.next <= Entries
  /\ entries' = entries \cup {[data |-> op.ir, rec |-> op.rec, index |-> op.next]}
  /\ Continue(op.at, op.row, op.ir, op.next + 1)
  /\ UNCHANGED <<kind, tables, lastId, stats, data, requests, history>>

\* Mutant: the timing of the last pipe is not waited for.
StatisticInsertedEarly ==
  /\ At("insert_entries") /\ op.next >= Entries
  /\ Finish(TRUE, {})
  /\ kept' = kept \cup {[key |-> op.key, rec |-> op.rec]}
  /\ UNCHANGED <<kind, tables, lastId, statistics, requests, doubt>>

StatisticInserted ==
  /\ At("insert_entries") /\ op.next > Entries
  /\ Finish(TRUE, {})
  /\ kept' = kept \cup {[key |-> op.key, rec |-> op.rec]}
  /\ UNCHANGED <<kind, tables, lastId, statistics, requests, doubt>>

InsertStatisticDocument ==
  /\ At("create_statistic") /\ kind = "mongodb"
  /\ lastId' = lastId + 1
  /\ stats' = stats \cup {[id |-> lastId + 1, key |-> op.key, rec |-> op.rec]}
  /\ data' = data \cup {[id |-> lastId + 1, stat |-> lastId + 1]}
  /\ entries' = entries \cup {[data |-> lastId + 1, rec |-> op.rec, index |-> i] : i \in 1..Entries}
  /\ kept' = kept \cup {[key |-> op.key, rec |-> op.rec]}
  /\ Finish(TRUE, {})
  /\ UNCHANGED <<kind, tables, requests, doubt>>

OtherNamespaces(set) == {s \in set : s.key.ns # op.key.ns}

\* mongodb does not say when there was nothing to delete.
DeleteStatistics ==
  /\ At("delete_statistics")
  /\ stats' = OtherNamespaces(stats)
  /\ kept' = OtherNamespaces(kept)
  /\ IF kind = "sqlite" THEN UNCHANGED <<data, entries>>
     ELSE /\ data' = {d \in data : \E s \in stats' : s.id = d.stat}
          /\ entries' = {e \in entries : \E d \in data' : d.id = e.data}
  /\ Finish(kind = "mongodb" \/ stats' # stats, {})
  /\ UNCHANGED <<kind, tables, lastId, requests, doubt>>

\* getStatisticsByID: an entry that is missing reads as zero.
Shown(s) ==
  [key |-> s.key, rec |-> s.rec,
   entries |-> {<<e.rec, e.index>> : e \in {x \in entries :
                  \E d \in data : d.id = x.data /\ d.stat = s.id}}]

GetStatistics ==
  /\ At("get_statistics")
  /\ LET all == {Shown(s) : s \in {x \in stats : x.key = op.key}}
     IN \E found \in (IF kind = "sqlite" THEN SUBSET all ELSE {all, {}}) : Finish(found # {}, found)
  /\ UNCHANGED <<kind, tables, lastId, statistics, requests, history>>

GetNamespaces ==
  /\ At("namespaces")
  /\ Finish(TRUE, {p.key.ns : p \in pipelines} \cup {s.key.ns : s \in stats})
  /\ UNCHANGED <<kind, tables, lastId, statistics, requests, history>>

-----------------------------------------------------------------------------
(* Failures.                                                               *)

\* Some of the operation's statements were executed.
Dirty == op # Idle /\ op.at \in {"insert_ir", "insert_parts", "delete_pipes", "delete_ir"}

Spoilt == IF Dirty THEN doubt \cup {op.key} ELSE doubt

\* A statement fails, or the store is not connected: the handler returns.
StatementFails ==
  /\ op # Idle
  /\ Finish(FALSE, {})
  /\ doubt' = Spoilt
  /\ UNCHANGED <<kind, tables, lastId, statistics, requests, kept>>

\* The core stops and is started again.
Crash ==
  /\ op # Idle
  /\ op' = Idle
  /\ doubt' = Spoilt
  /\ UNCHANGED <<kind, tables, lastId, statistics, requests, answer, kept>>

-----------------------------------------------------------------------------
CreatePipeline  == CreateChecks \/ InsertPipeline \/ CreateDocument
ReplacePipeline == ReplaceFinds \/ ReplaceFindsIr \/ DeleteFunctions \/ DeletePipes \/ DeleteIr
                     \/ ReplaceDocument
WritePipeline   == InsertIr \/ InsertPart \/ Inserted
CreateStatistic == InsertStatistic \/ InsertData \/ InsertEntry \/ StatisticInserted
                     \/ InsertStatisticDocument

Next ==
  \/ \E at \in Requests, k \in Keys : Take(at, k)
  \/ CreatePipeline \/ ReplacePipeline \/ WritePipeline
  \/ DeletePipeline \/ DeleteDocument \/ GetPipeline
  \/ CreateStatistic \/ DeleteStatistics \/ GetStatistics \/ GetNamespaces
  \/ StatementFails \/ Crash

Spec == Init /\ [][Next]_vars
-----------------------------------------------------------------------------
(* Properties.                                                             *)

\* Every variable has its type.
TypeOK ==
  /\ kind \in {"sqlite", "mongodb"}
  /\ \A p \in pipelines : p.id \in Ids /\ p.key \in Keys
  /\ \A r \in irs : r.id \in Ids /\ r.pipeline \in Ids /\ r.rec \in Records
  /\ \A f \in functions : f.ir \in Ids /\ f.rec \in Records /\ f.index \in 1..NumFunctions
  /\ \A f \in pipes : f.ir \in Ids /\ f.rec \in Records /\ f.index \in 1..NumPipes
  /\ \A s \in stats : s.id \in Ids /\ s.key \in Keys /\ s.rec \in Records
  /\ \A d \in data : d.id \in Ids /\ d.stat \in Ids
  /\ \A e \in entries : e.data \in Ids /\ e.rec \in Records /\ e.index \in 1..Entries
  /\ lastId \in Nat /\ requests \in 0..MaxRequests
  /\ op # Idle => /\ op.key \in Keys /\ op.rec \in Records /\ op.row \in Nat /\ op.ir \in Nat
                  /\ op.next \in 1..(Entries + 1)
  /\ doubt \subseteq Keys

\* Whatever statement fails and whenever the core crashes, in sqlite a pipeline
\* has at most one row and a row at most one pipeline_ir, although rows that
\* were deleted leave theirs behind: getPipelineIRByID reads the first it meets.
OneOfEach ==
  kind = "sqlite" =>
    /\ \A p, q \in pipelines : p.key = q.key => p = q
    /\ \A p \in pipelines : \A r, t \in IrsOf(p) : r = t

\* What is read under one pipeline_ir was written for one record: a replacement
\* that is cut short never leaves functions of one version with pipes of
\* another, and what is missing is missing at the end.
OneRecordEach ==
  \A r \in irs :
    /\ \A f \in FunctionsOf(r) \cup PipesOf(r) : f.rec = r.rec
    /\ \A f \in FunctionsOf(r) : \A i \in 1..f.index : \E g \in FunctionsOf(r) : g.index = i
    /\ \A f \in PipesOf(r) : \A i \in 1..f.index : \E g \in PipesOf(r) : g.index = i

\* A lookup, which the threads that start runs trust, shows pipelines of the namespace it
\* was asked for only, and each of them whole, unless an operation on it was cut short.  (It
\* may show others of that namespace than the one it names: sqlite does not look at the name.)
ShownAsStored ==
  answer.to = "get" =>
    \A a \in answer.found :
      a.key.ns = answer.key.ns /\ (a.key \in doubt \/ a = Whole(a.key, a.rec))

\* A statistic whose storing was acknowledged is shown whole, once, and with
\* nothing else's entries until its namespace is deleted.
AcknowledgedStatisticsAreShown ==
  \A a \in kept :
    {Shown(s) : s \in {x \in stats : x.rec = a.rec}} =
      {[key |-> a.key, rec |-> a.rec, entries |-> {<<a.rec, i>> : i \in 1..Entries}]}

\* The pipelines are a store whose operations take effect at once, but for the
\* keys on which an operation was cut short.
None     == 0
Doubtful == -1
Garbled  == -2
Stored ==
  [k \in Keys |->
    IF k \in doubt \/ (Dirty /\ op.key = k) THEN Doubtful
    ELSE IF Rows(k) = {} THEN None
    ELSE IF \E rec \in Records :
              UNION {{Assembled(p, r) : r \in IrsOf(p)} : p \in Rows(k)} = {Whole(k, rec)}
         THEN (CHOOSE a \in UNION {{Assembled(p, r) : r \in IrsOf(p)} : p \in Rows(k)} : TRUE).rec
         ELSE Garbled]

Store == INSTANCE RecordStore WITH stored <- Stored
StoredAtOnce == Store!Spec
=============================================================================
