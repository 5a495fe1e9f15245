--------------------------- MODULE DatabaseProofs ---------------------------
(***************************************************************************)
(* Proofs about Database, for any pipelines, sizes and number of requests, *)
(* wherever statements fail and the core crashes: rows stay one for one,   *)
(* versions of a pipeline do not mix, acknowledged statistics stay whole,  *)
(* lookups show whole pipelines, and the pipelines implement RecordStore.  *)
(* The invariant is put together in that order, each part from those       *)
(* before it; Steps lists what a step can be for all of them.              *)
(***************************************************************************)
EXTENDS Database, TLAPS

USE DatabaseAssumption

\* What the operation has come to.
OpFits ==
  op # Idle =>
    /\ op.rec = requests /\ op.row <= lastId /\ op.ir <= lastId
    /\ op.at \notin {"insert_parts", "insert_entries"} => op.next = 1
    /\ op.at = "insert_parts" => op.next <= Parts + 1
    /\ op.at \notin Requests => kind = "sqlite"
    /\ op.at \notin Requests \cup {"insert_pipeline"} => op.row \in Ids
    /\ op.at \in {"delete_functions", "delete_pipes", "delete_ir", "insert_parts", "insert_entries"}
          => op.ir \in Ids

\* No identifier is ahead of the counter that hands them out.
Fresh ==
  /\ \A p \in pipelines : p.id <= lastId
  /\ \A r \in irs : r.id <= lastId /\ r.pipeline <= lastId
  /\ \A f \in functions : f.ir <= lastId
  /\ \A f \in pipes : f.ir <= lastId
  /\ \A s \in stats : s.id <= lastId
  /\ \A d \in data : d.id <= lastId /\ d.stat <= lastId
  /\ \A e \in entries : e.data <= lastId

Typed == TypeOK /\ OpFits /\ Fresh

LEMMA Sizes == Parts \in Nat /\ Entries \in Nat /\ Parts <= Entries
BY DEF Parts, Entries

LEMMA Continues ==
  ASSUME NEW label, label # "idle", NEW row, NEW ir, NEW next, Continue(label, row, ir, next)
  PROVE  /\ op' # Idle /\ op'.at = label /\ op'.key = op.key /\ op'.rec = op.rec
         /\ op'.row = row /\ op'.ir = ir /\ op'.next = next
BY DEF Continue, Idle

\* The step ends the operation and writes nothing.
Quits ==
  /\ op # Idle /\ op' = Idle
  /\ UNCHANGED <<kind, tables, lastId, statistics, requests, kept>>
  /\ doubt' = Spoilt

\* The step goes on and writes nothing.
CreateGoesOn ==
  /\ At("create") /\ kind = "sqlite" /\ Rows(op.key) = {}
  /\ Continue("insert_pipeline", op.row, op.ir, op.next)
  /\ UNCHANGED <<kind, tables, lastId, statistics, requests, history>>

ReplaceGoesOn ==
  /\ At("replace") /\ kind = "sqlite"
  /\ \E p \in Rows(op.key) : Continue("find_ir", p.id, op.ir, op.next)
  /\ UNCHANGED <<kind, tables, lastId, statistics, requests, history>>

LEMMA Clean ==
  ASSUME op # Idle, op.at \notin {"insert_ir", "insert_parts", "delete_pipes", "delete_ir"}
  PROVE  ~Dirty /\ Spoilt = doubt
BY DEF Dirty, Spoilt

LEMMA AtQuits ==
  ASSUME NEW label, label \notin {"insert_ir", "insert_parts", "delete_pipes", "delete_ir"},
         At(label), NEW ok, NEW found, Finish(ok, found),
         UNCHANGED <<kind, tables, lastId, statistics, requests, history>>
  PROVE  Quits
BY Clean DEF At, Finish, Quits, history

\* What CreateDocument does when it meets no document.
AddsDocument ==
  /\ At("create") /\ kind = "mongodb"
  /\ Document(lastId + 1) /\ lastId' = lastId + 1 /\ op' = Idle
  /\ doubt' = IF Rows(op.key) = {} THEN doubt ELSE doubt \cup {op.key}
  /\ UNCHANGED <<kind, statistics, requests, kept>>

LEMMA CreateDocumentCases ==
  ASSUME CreateDocument
  PROVE  Quits \/ AddsDocument
<1>1. PICK seen \in Readable(op.key) :
        IF seen # {}
        THEN Finish(FALSE, {}) /\ UNCHANGED <<tables, lastId, doubt>>
        ELSE /\ Document(lastId + 1)
             /\ lastId' = lastId + 1
             /\ Finish(TRUE, {})
             /\ doubt' = IF Rows(op.key) = {} THEN doubt ELSE doubt \cup {op.key}
  BY DEF CreateDocument
<1>2. At("create") /\ kind = "mongodb" /\ UNCHANGED <<kind, statistics, requests, kept>>
  BY DEF CreateDocument
<1>3. CASE seen # {}
  BY <1>1, <1>2, <1>3, Clean DEF At, Finish, Quits
<1>4. CASE seen = {}
  BY <1>1, <1>2, <1>4 DEF AddsDocument, Finish
<1> QED
  BY <1>3, <1>4

\* What ReplaceDocument and DeleteDocument do with the document they meet.
Replaces(p) ==
  /\ At("replace") /\ kind = "mongodb"
  /\ irs' = {r \in irs : r.pipeline # p.id}
               \cup {[id |-> p.id, pipeline |-> p.id, rec |-> op.rec]}
  /\ functions' = {f \in functions : f.ir # p.id}
                     \cup {[ir |-> p.id, rec |-> op.rec, index |-> i] : i \in 1..NumFunctions}
  /\ pipes' = {f \in pipes : f.ir # p.id}
                 \cup {[ir |-> p.id, rec |-> op.rec, index |-> i] : i \in 1..NumPipes}
  /\ op' = Idle
  /\ UNCHANGED <<kind, pipelines, lastId, statistics, requests, history>>

Deletes(p) ==
  /\ At("delete") /\ kind = "mongodb"
  /\ Without(p) /\ op' = Idle
  /\ UNCHANGED <<kind, lastId, statistics, requests, history>>

LEMMA ReplaceDocumentCases ==
  ASSUME ReplaceDocument
  PROVE  Quits \/ \E p \in Rows(op.key) : Replaces(p)
<1>1. At("replace") /\ kind = "mongodb" /\ UNCHANGED <<kind, pipelines, lastId, statistics, requests, history>>
  BY DEF ReplaceDocument
<1>2. CASE Rows(op.key) = {}
  <2>1. op' = Idle /\ UNCHANGED <<irs, functions, pipes>>
    BY <1>2 DEF ReplaceDocument, Finish
  <2> QED
    BY <1>1, <2>1, Clean DEF At, Quits, tables, history
<1>3. CASE Rows(op.key) # {}
  BY <1>1, <1>3 DEF ReplaceDocument, Finish, Replaces
<1> QED
  BY <1>2, <1>3

LEMMA DeleteDocumentCases ==
  ASSUME DeleteDocument
  PROVE  Quits \/ \E p \in Rows(op.key) : Deletes(p)
<1>1. /\ At("delete") /\ kind = "mongodb" /\ op' = Idle
      /\ UNCHANGED <<kind, lastId, statistics, requests, history>>
  BY DEF DeleteDocument, Finish
<1>2. CASE Rows(op.key) = {} /\ UNCHANGED tables
  BY <1>1, <1>2, Clean DEF At, Quits, history
<1>3. CASE \E p \in Rows(op.key) : Without(p)
  BY <1>1, <1>3 DEF Deletes
<1> QED
  BY <1>2, <1>3 DEF DeleteDocument

\* Every step.
Steps ==
  \/ UNCHANGED vars
  \/ \E at \in Requests, k \in Keys : Take(at, k)
  \/ Quits \/ CreateGoesOn \/ ReplaceGoesOn \/ ReplaceFindsIr
  \/ InsertPipeline \/ DeleteFunctions \/ DeletePipes \/ DeleteIr \/ InsertIr \/ InsertPart
  \/ Inserted \/ DeletePipeline \/ AddsDocument
  \/ (\E p \in Rows(op.key) : Replaces(p) \/ Deletes(p))
  \/ InsertStatistic \/ InsertData \/ InsertEntry \/ StatisticInserted
  \/ InsertStatisticDocument \/ DeleteStatistics

LEMMA EachStep ==
  ASSUME [Next]_vars
  PROVE  Steps
<1>1. CASE CreateChecks
  <2>1. CASE Rows(op.key) # {}
    BY <1>1, <2>1, AtQuits DEF CreateChecks, Steps
  <2>2. CASE Rows(op.key) = {}
    BY <1>1, <2>2 DEF CreateChecks, CreateGoesOn, Goto, Steps
  <2> QED
    BY <2>1, <2>2
<1>2. CASE ReplaceFinds
  <2>1. CASE Rows(op.key) = {}
    BY <1>2, <2>1, AtQuits DEF ReplaceFinds, Steps
  <2>2. CASE Rows(op.key) # {}
    BY <1>2, <2>2 DEF ReplaceFinds, ReplaceGoesOn, Steps
  <2> QED
    BY <2>1, <2>2
<1>3. CASE GetPipeline
  BY <1>3, AtQuits DEF GetPipeline, Steps
<1>4. CASE GetStatistics
  BY <1>4, AtQuits DEF GetStatistics, Steps
<1>5. CASE GetNamespaces
  BY <1>5, AtQuits DEF GetNamespaces, Steps
<1>6. CASE StatementFails \/ Crash
  BY <1>6 DEF StatementFails, Crash, Finish, Quits, Steps
<1>7. CASE CreateDocument \/ ReplaceDocument \/ DeleteDocument
  BY <1>7, CreateDocumentCases, ReplaceDocumentCases, DeleteDocumentCases DEF Steps
<1> QED
  BY <1>1, <1>2, <1>3, <1>4, <1>5, <1>6, <1>7
     DEF Next, CreatePipeline, ReplacePipeline, WritePipeline, CreateStatistic, Steps

LEMMA InitTyped == Init => Typed
BY DEF Init, Typed, TypeOK, OpFits, Fresh

LEMMA TakeTyped ==
  ASSUME Typed, NEW at \in Requests, NEW k \in Keys, Take(at, k)
  PROVE  Typed'
<1>1. /\ op' # Idle /\ op'.at = at /\ op'.key = k /\ op'.rec = requests + 1
      /\ op'.row = 0 /\ op'.ir = 0 /\ op'.next = 1
  BY DEF Take, Idle, Requests
<1>2. requests' = requests + 1 /\ requests + 1 \in Records /\ requests' \in 0..MaxRequests
  BY DEF Take, Typed, TypeOK, Records
<1>3. UNCHANGED <<kind, tables, lastId, statistics, history>>
  BY DEF Take
<1>4. at \notin {"insert_parts", "insert_entries"}
  BY DEF Requests
<1>5. TypeOK'
  BY <1>1, <1>2, <1>3, Sizes DEF Typed, TypeOK, tables, statistics, history, Entries, Records, Ids
<1>6. OpFits'
  BY <1>1, <1>2, <1>3, <1>4 DEF Typed, TypeOK, OpFits, Requests
<1>7. Fresh'
  BY <1>3 DEF Typed, Fresh, tables, statistics
<1> QED
  BY <1>5, <1>6, <1>7 DEF Typed

\* A step that ends an operation, whatever it writes.
LEMMA EndsTyped ==
  ASSUME op' = Idle
  PROVE  OpFits'
BY DEF OpFits

LEMMA QuitsTyped ==
  ASSUME Typed, Quits
  PROVE  Typed'
<1>1. op' = Idle /\ UNCHANGED <<kind, tables, lastId, statistics, requests>> /\ doubt' \subseteq Keys
  BY DEF Quits, Spoilt, Dirty, Typed, TypeOK
<1>2. TypeOK'
  BY <1>1 DEF Typed, TypeOK, tables, statistics, Entries, Records, Ids
<1>3. Fresh'
  BY <1>1 DEF Typed, Fresh, tables, statistics
<1> QED
  BY <1>1, <1>2, <1>3, EndsTyped DEF Typed

LEMMA CreateGoesOnTyped ==
  ASSUME Typed, CreateGoesOn
  PROVE  Typed'
<1>1. TypeOK'
  BY Sizes, Continues DEF CreateGoesOn, Typed, TypeOK, OpFits, tables, statistics, history, At, Goto,
       Parts, Entries, Records, Ids, Requests
<1>2. OpFits'
  BY Sizes, Continues DEF CreateGoesOn, Typed, TypeOK, OpFits, Fresh, At, Goto, Records, Ids, Requests
<1>3. Fresh'
  BY Continues DEF CreateGoesOn, Typed, TypeOK, OpFits, Fresh, tables, statistics, Ids, At, Requests
<1> QED
  BY <1>1, <1>2, <1>3 DEF Typed

LEMMA ReplaceFindsIrTyped ==
  ASSUME Typed, ReplaceFindsIr
  PROVE  Typed'
<1>1. TypeOK'
  BY Sizes, Continues DEF ReplaceFindsIr, Typed, TypeOK, OpFits, tables, statistics, history, At, Goto,
       Parts, Entries, Records, Ids, Requests
<1>2. OpFits'
  BY Sizes, Continues DEF ReplaceFindsIr, Typed, TypeOK, OpFits, Fresh, At, Goto, Records, Ids, Requests
<1>3. Fresh'
  BY Continues DEF ReplaceFindsIr, Typed, TypeOK, OpFits, Fresh, tables, statistics, Ids, At, Requests
<1> QED
  BY <1>1, <1>2, <1>3 DEF Typed

LEMMA InsertPipelineTyped ==
  ASSUME Typed, InsertPipeline
  PROVE  Typed'
<1>1. TypeOK'
  BY Sizes, Continues DEF InsertPipeline, Typed, TypeOK, OpFits, tables, statistics, history, At, Goto,
       Parts, Entries, Records, Ids, Requests
<1>2. OpFits'
  BY Sizes, Continues DEF InsertPipeline, Typed, TypeOK, OpFits, Fresh, At, Goto, Records, Ids, Requests
<1>3. Fresh'
  BY Continues DEF InsertPipeline, Typed, TypeOK, OpFits, Fresh, tables, statistics, Ids, At, Requests
<1> QED
  BY <1>1, <1>2, <1>3 DEF Typed

LEMMA DeleteFunctionsTyped ==
  ASSUME Typed, DeleteFunctions
  PROVE  Typed'
<1>1. TypeOK'
  BY Sizes, Continues DEF DeleteFunctions, Typed, TypeOK, OpFits, tables, statistics, history, At, Goto,
       Parts, Entries, Records, Ids, Requests
<1>2. OpFits'
  BY Sizes, Continues DEF DeleteFunctions, Typed, TypeOK, OpFits, Fresh, At, Goto, Records, Ids, Requests
<1>3. Fresh'
  BY Continues DEF DeleteFunctions, Typed, TypeOK, OpFits, Fresh, tables, statistics, Ids, At, Requests
<1> QED
  BY <1>1, <1>2, <1>3 DEF Typed

LEMMA DeletePipesTyped ==
  ASSUME Typed, DeletePipes
  PROVE  Typed'
<1>1. TypeOK'
  BY Sizes, Continues DEF DeletePipes, Typed, TypeOK, OpFits, tables, statistics, history, At, Goto,
       Parts, Entries, Records, Ids, Requests
<1>2. OpFits'
  BY Sizes, Continues DEF DeletePipes, Typed, TypeOK, OpFits, Fresh, At, Goto, Records, Ids, Requests
<1>3. Fresh'
  BY Continues DEF DeletePipes, Typed, TypeOK, OpFits, Fresh, tables, statistics, Ids, At, Requests
<1> QED
  BY <1>1, <1>2, <1>3 DEF Typed

LEMMA DeleteIrTyped ==
  ASSUME Typed, DeleteIr
  PROVE  Typed'
<1>1. TypeOK'
  BY Sizes, Continues DEF DeleteIr, Typed, TypeOK, OpFits, tables, statistics, history, At, Goto, Parts,
       Entries, Records, Ids, Requests
<1>2. OpFits'
  BY Sizes, Continues DEF DeleteIr, Typed, TypeOK, OpFits, Fresh, At, Goto, Records, Ids, Requests
<1>3. Fresh'
  BY Continues DEF DeleteIr, Typed, TypeOK, OpFits, Fresh, tables, statistics, Ids, At, Requests
<1> QED
  BY <1>1, <1>2, <1>3 DEF Typed

LEMMA InsertIrTyped ==
  ASSUME Typed, InsertIr
  PROVE  Typed'
<1>1. TypeOK'
  BY Sizes, Continues DEF InsertIr, Typed, TypeOK, OpFits, tables, statistics, history, At, Goto, Parts,
       Entries, Records, Ids, Requests
<1>2. OpFits'
  BY Sizes, Continues DEF InsertIr, Typed, TypeOK, OpFits, Fresh, At, Goto, Records, Ids, Requests
<1>3. Fresh'
  BY Continues DEF InsertIr, Typed, TypeOK, OpFits, Fresh, tables, statistics, Ids, At, Requests
<1> QED
  BY <1>1, <1>2, <1>3 DEF Typed

LEMMA InsertPartTyped ==
  ASSUME Typed, InsertPart
  PROVE  Typed'
<1>1. TypeOK'
  BY Sizes, Continues DEF InsertPart, Typed, TypeOK, OpFits, tables, statistics, history, At, Goto,
       Parts, Entries, Records, Ids, Requests
<1>2. OpFits'
  BY Sizes, Continues DEF InsertPart, Typed, TypeOK, OpFits, Fresh, At, Goto, Records, Ids, Requests
<1>3. Fresh'
  BY Continues DEF InsertPart, Typed, TypeOK, OpFits, Fresh, tables, statistics, Ids, At, Requests
<1> QED
  BY <1>1, <1>2, <1>3 DEF Typed

LEMMA InsertStatisticTyped ==
  ASSUME Typed, InsertStatistic
  PROVE  Typed'
<1>1. TypeOK'
  BY Sizes, Continues DEF InsertStatistic, Typed, TypeOK, OpFits, tables, statistics, history, At, Goto,
       Parts, Entries, Records, Ids, Requests
<1>2. OpFits'
  BY Sizes, Continues DEF InsertStatistic, Typed, TypeOK, OpFits, Fresh, At, Goto, Records, Ids, Requests
<1>3. Fresh'
  BY Continues DEF InsertStatistic, Typed, TypeOK, OpFits, Fresh, tables, statistics, Ids, At, Requests
<1> QED
  BY <1>1, <1>2, <1>3 DEF Typed

LEMMA InsertDataTyped ==
  ASSUME Typed, InsertData
  PROVE  Typed'
<1>1. TypeOK'
  BY Sizes, Continues DEF InsertData, Typed, TypeOK, OpFits, tables, statistics, history, At, Goto,
       Parts, Entries, Records, Ids, Requests
<1>2. OpFits'
  BY Sizes, Continues DEF InsertData, Typed, TypeOK, OpFits, Fresh, At, Goto, Records, Ids, Requests
<1>3. Fresh'
  BY Continues DEF InsertData, Typed, TypeOK, OpFits, Fresh, tables, statistics, Ids, At, Requests
<1> QED
  BY <1>1, <1>2, <1>3 DEF Typed

LEMMA InsertEntryTyped ==
  ASSUME Typed, InsertEntry
  PROVE  Typed'
<1>1. TypeOK'
  BY Sizes, Continues DEF InsertEntry, Typed, TypeOK, OpFits, tables, statistics, history, At, Goto,
       Parts, Entries, Records, Ids, Requests
<1>2. OpFits'
  BY Sizes, Continues DEF InsertEntry, Typed, TypeOK, OpFits, Fresh, At, Goto, Records, Ids, Requests
<1>3. Fresh'
  BY Continues DEF InsertEntry, Typed, TypeOK, OpFits, Fresh, tables, statistics, Ids, At, Requests
<1> QED
  BY <1>1, <1>2, <1>3 DEF Typed

LEMMA InsertedTyped ==
  ASSUME Typed, Inserted
  PROVE  Typed'
<1>1. op' = Idle
  BY DEF Inserted, Finish
<1>2. TypeOK'
  BY <1>1, Sizes DEF Inserted, Document, Without, OtherNamespaces, Typed, TypeOK, tables, statistics, At,
       Entries, Records, Ids, Rows
<1>3. Fresh'
  BY DEF Inserted, Document, Without, OtherNamespaces, Typed, TypeOK, Fresh, tables, statistics, At, Ids,
       Rows
<1> QED
  BY <1>1, <1>2, <1>3, EndsTyped DEF Typed

LEMMA DeletePipelineTyped ==
  ASSUME Typed, DeletePipeline
  PROVE  Typed'
<1>1. op' = Idle
  BY DEF DeletePipeline, Finish
<1>2. TypeOK'
  BY <1>1, Sizes DEF DeletePipeline, Document, Without, OtherNamespaces, Typed, TypeOK, tables,
       statistics, At, Entries, Records, Ids, Rows
<1>3. Fresh'
  BY DEF DeletePipeline, Document, Without, OtherNamespaces, Typed, TypeOK, Fresh, tables, statistics,
       At, Ids, Rows
<1> QED
  BY <1>1, <1>2, <1>3, EndsTyped DEF Typed

LEMMA StatisticInsertedTyped ==
  ASSUME Typed, StatisticInserted
  PROVE  Typed'
<1>1. op' = Idle
  BY DEF StatisticInserted, Finish
<1>2. TypeOK'
  BY <1>1, Sizes DEF StatisticInserted, Document, Without, OtherNamespaces, Typed, TypeOK, tables,
       statistics, At, Entries, Records, Ids, Rows
<1>3. Fresh'
  BY DEF StatisticInserted, Document, Without, OtherNamespaces, Typed, TypeOK, Fresh, tables, statistics,
       At, Ids, Rows
<1> QED
  BY <1>1, <1>2, <1>3, EndsTyped DEF Typed

LEMMA InsertStatisticDocumentTyped ==
  ASSUME Typed, InsertStatisticDocument
  PROVE  Typed'
<1>1. op' = Idle
  BY DEF InsertStatisticDocument, Finish
<1>2. TypeOK'
  BY <1>1, Sizes DEF InsertStatisticDocument, Document, Without, OtherNamespaces, Typed, TypeOK, tables,
       statistics, At, Entries, Records, Ids, Rows
<1>3. Fresh'
  BY DEF InsertStatisticDocument, Document, Without, OtherNamespaces, Typed, TypeOK, Fresh, tables,
       statistics, At, Ids, Rows
<1> QED
  BY <1>1, <1>2, <1>3, EndsTyped DEF Typed

LEMMA DeleteStatisticsTyped ==
  ASSUME Typed, DeleteStatistics
  PROVE  Typed'
<1>1. op' = Idle
  BY DEF DeleteStatistics, Finish
<1>2. TypeOK'
  BY <1>1, Sizes DEF DeleteStatistics, Document, Without, OtherNamespaces, Typed, TypeOK, tables,
       statistics, At, Entries, Records, Ids, Rows
<1>3. Fresh'
  BY DEF DeleteStatistics, Document, Without, OtherNamespaces, Typed, TypeOK, Fresh, tables, statistics,
       At, Ids, Rows
<1> QED
  BY <1>1, <1>2, <1>3, EndsTyped DEF Typed

LEMMA ReplaceGoesOnTyped ==
  ASSUME Typed, ReplaceGoesOn
  PROVE  Typed'
<1>1. PICK p \in Rows(op.key) : Continue("find_ir", p.id, op.ir, op.next)
  BY DEF ReplaceGoesOn
<1>2. /\ op' # Idle /\ op'.at = "find_ir" /\ op'.key = op.key /\ op'.rec = op.rec
      /\ op'.row = p.id /\ op'.ir = op.ir /\ op'.next = op.next
  BY <1>1, Continues
<1>3. p.id \in Ids /\ p.id <= lastId
  BY DEF Rows, Typed, TypeOK, Fresh
<1>4. /\ UNCHANGED <<kind, tables, lastId, statistics, requests, history>>
      /\ op # Idle /\ op.at = "replace" /\ kind = "sqlite"
  BY DEF ReplaceGoesOn, At
<1>5. TypeOK'
  BY <1>2, <1>3, <1>4 DEF Typed, TypeOK, tables, statistics, history, Entries, Records, Ids
<1>6. OpFits'
  BY <1>2, <1>3, <1>4 DEF Typed, TypeOK, OpFits, Requests, Ids
<1>7. Fresh'
  BY <1>4 DEF Typed, Fresh, tables, statistics
<1> QED
  BY <1>5, <1>6, <1>7 DEF Typed

LEMMA AddsDocumentTyped ==
  ASSUME Typed, AddsDocument
  PROVE  Typed'
<1>1. /\ op' = Idle /\ lastId' = lastId + 1 /\ doubt' \subseteq doubt \cup {op.key}
      /\ UNCHANGED <<kind, statistics, requests>>
      /\ op.key \in Keys /\ op.rec \in Records /\ lastId + 1 \in Ids /\ lastId \in Nat
  BY DEF AddsDocument, At, Typed, TypeOK, Ids
<1> DEFINE id == lastId + 1
<1>2. /\ pipelines' = pipelines \cup {[id |-> id, key |-> op.key]}
      /\ irs' = irs \cup {[id |-> id, pipeline |-> id, rec |-> op.rec]}
      /\ functions' = functions \cup {[ir |-> id, rec |-> op.rec, index |-> i] : i \in 1..NumFunctions}
      /\ pipes' = pipes \cup {[ir |-> id, rec |-> op.rec, index |-> i] : i \in 1..NumPipes}
  BY DEF AddsDocument, Document
<1>3. \A f \in functions' : f \in functions \/ (f.ir = id /\ f.rec = op.rec /\ f.index \in 1..NumFunctions)
  BY <1>2
<1>4. \A f \in pipes' : f \in pipes \/ (f.ir = id /\ f.rec = op.rec /\ f.index \in 1..NumPipes)
  BY <1>2
<1>5. TypeOK'
  BY <1>1, <1>2, <1>3, <1>4 DEF Typed, TypeOK, statistics, Entries, Records, Ids
<1>6. Fresh'
  BY <1>1, <1>2, <1>3, <1>4 DEF Typed, Fresh, TypeOK, statistics, Ids
<1> QED
  BY <1>1, <1>5, <1>6, EndsTyped DEF Typed

LEMMA ReplacesTyped ==
  ASSUME Typed, NEW p \in Rows(op.key), Replaces(p)
  PROVE  Typed'
<1>1. /\ op' = Idle /\ UNCHANGED <<kind, pipelines, lastId, statistics, requests, history>>
      /\ op.rec \in Records /\ p.id \in Ids /\ p.id <= lastId
  BY DEF Replaces, At, Rows, Typed, TypeOK, Fresh
<1>2. \A r \in irs' : r \in irs \/ (r.id = p.id /\ r.pipeline = p.id /\ r.rec = op.rec)
  BY DEF Replaces
<1>3. \A f \in functions' : f \in functions \/ (f.ir = p.id /\ f.rec = op.rec /\ f.index \in 1..NumFunctions)
  BY DEF Replaces
<1>4. \A f \in pipes' : f \in pipes \/ (f.ir = p.id /\ f.rec = op.rec /\ f.index \in 1..NumPipes)
  BY DEF Replaces
<1>5. TypeOK'
  BY <1>1, <1>2, <1>3, <1>4 DEF Typed, TypeOK, statistics, history, Entries, Records, Ids
<1>6. Fresh'
  BY <1>1, <1>2, <1>3, <1>4 DEF Typed, Fresh, TypeOK, statistics, Ids
<1> QED
  BY <1>1, <1>5, <1>6, EndsTyped DEF Typed

LEMMA DeletesTyped ==
  ASSUME Typed, NEW p, Deletes(p)
  PROVE  Typed'
<1>1. /\ op' = Idle /\ UNCHANGED <<kind, lastId, statistics, requests, history>>
      /\ pipelines' \subseteq pipelines /\ irs' \subseteq irs
      /\ functions' \subseteq functions /\ pipes' \subseteq pipes
  BY DEF Deletes, Without
<1>2. TypeOK'
  BY <1>1 DEF Typed, TypeOK, statistics, history, Entries, Records, Ids
<1>3. Fresh'
  BY <1>1 DEF Typed, Fresh, statistics
<1> QED
  BY <1>1, <1>2, <1>3, EndsTyped DEF Typed

LEMMA StepTyped ==
  ASSUME Typed, [Next]_vars
  PROVE  Typed'
<1>1. Steps
  BY EachStep
<1>2. CASE UNCHANGED vars
  BY <1>2 DEF Typed, TypeOK, OpFits, Fresh, vars, tables, statistics, history, Parts, Entries, Records,
       Ids, Requests
<1> QED
  BY <1>1, <1>2, TakeTyped, QuitsTyped, ReplaceGoesOnTyped, AddsDocumentTyped, ReplacesTyped, DeletesTyped,
     CreateGoesOnTyped, ReplaceFindsIrTyped, InsertPipelineTyped, DeleteFunctionsTyped, DeletePipesTyped,
     DeleteIrTyped, InsertIrTyped, InsertPartTyped, InsertStatisticTyped, InsertDataTyped,
     InsertEntryTyped, InsertedTyped, DeletePipelineTyped, StatisticInsertedTyped,
     InsertStatisticDocumentTyped, DeleteStatisticsTyped
     DEF Steps

-----------------------------------------------------------------------------
(* Rows of the pipeline tables.                                            *)

Working == {"find_ir", "delete_functions", "delete_pipes", "delete_ir", "insert_ir", "insert_parts"}

\* Rows have identifiers of their own, and so have the pipeline_irs; a pipeline, also one that
\* was deleted, has at most one pipeline_ir.  In sqlite a pipeline has at most one row.
UniqueRows ==
  /\ \A p, q \in pipelines : p.id = q.id => p = q
  /\ \A r, t \in irs : r.id = t.id => r = t
  /\ \A r, t \in irs : r.pipeline = t.pipeline => r = t
  /\ kind = "sqlite" => \A p, q \in pipelines : p.key = q.key => p = q
  /\ kind = "mongodb" => \A r \in irs : r.id = r.pipeline

\* What the operation in progress works on.
RowAtWork ==
  op # Idle =>
    /\ op.at = "insert_pipeline" => Rows(op.key) = {}
    /\ op.at \in Working => \E p \in pipelines : p.id = op.row /\ p.key = op.key
    /\ op.at = "insert_ir" => \A r \in irs : r.pipeline # op.row
    /\ op.at \in {"delete_functions", "delete_pipes", "delete_ir"} =>
          \E r \in irs : r.id = op.ir /\ r.pipeline = op.row
    /\ op.at = "insert_parts" =>
          \E r \in irs : r.id = op.ir /\ r.pipeline = op.row /\ r.rec = op.rec

RowsFit == UniqueRows /\ RowAtWork

LEMMA InitRows == Init => RowsFit
BY DEF Init, RowsFit, UniqueRows, RowAtWork, IrsOf, Idle

LEMMA EndsRows ==
  ASSUME op' = Idle
  PROVE  RowAtWork'
BY DEF RowAtWork, Idle

\* A step that leaves the rows alone.
LEMMA SameRows ==
  ASSUME UniqueRows, UNCHANGED <<kind, pipelines, irs>>
  PROVE  UniqueRows'
BY DEF UniqueRows

\* Fields that are on the way keep what they have.
LEMMA SameWork ==
  ASSUME RowAtWork, UNCHANGED <<pipelines, irs>>, op # Idle, op' # Idle,
         op'.row = op.row, op'.key = op.key, op'.ir = op.ir, op'.rec = op.rec, op'.at = op.at
  PROVE  RowAtWork'
BY DEF RowAtWork, Working, Rows

LEMMA StepRows ==
  ASSUME Typed, RowsFit, [Next]_vars
  PROVE  RowsFit'
<1> USE DEF RowsFit
<1>1. CASE UNCHANGED vars
  BY <1>1 DEF UniqueRows, RowAtWork, Working, Rows, vars, tables, Idle
<1>2. ASSUME NEW at \in Requests, NEW k \in Keys, Take(at, k) PROVE RowsFit'
  <2>1. op'.at = at /\ UNCHANGED <<kind, pipelines, irs>>
    BY <1>2 DEF Take, tables
  <2> QED
    BY <2>1, SameRows DEF RowAtWork, Requests, Working
<1>3. CASE Quits
  BY <1>3, SameRows, EndsRows DEF Quits, tables
<1>4. CASE CreateGoesOn
  <2>1. op'.at = "insert_pipeline" /\ op'.key = op.key /\ Rows(op.key) = {} /\ UNCHANGED <<kind, pipelines, irs>>
    BY <1>4, Continues DEF CreateGoesOn, tables
  <2> QED
    BY <2>1, SameRows DEF RowAtWork, Working, Rows
<1>5. CASE ReplaceGoesOn
  <2>1. PICK p \in Rows(op.key) : Continue("find_ir", p.id, op.ir, op.next)
    BY <1>5 DEF ReplaceGoesOn
  <2>2. op'.at = "find_ir" /\ op'.key = op.key /\ op'.row = p.id /\ UNCHANGED <<kind, pipelines, irs>>
    BY <1>5, <2>1, Continues DEF ReplaceGoesOn, tables
  <2> QED
    BY <2>2, SameRows DEF RowAtWork, Working, Rows
<1>6. CASE ReplaceFindsIr
  <2>1. UNCHANGED <<kind, pipelines, irs>> /\ op # Idle /\ op.at = "find_ir"
    BY <1>6 DEF ReplaceFindsIr, At, tables
  <2>2. CASE {r \in irs : r.pipeline = op.row} = {}
    <3>1. op'.at = "insert_ir" /\ op'.key = op.key /\ op'.row = op.row
      BY <1>6, <2>2, Continues DEF ReplaceFindsIr, Goto
    <3> QED
      BY <2>1, <2>2, <3>1, SameRows DEF RowAtWork, Working
  <2>3. ASSUME NEW r \in irs, r.pipeline = op.row, Continue("delete_functions", op.row, r.id, op.next)
        PROVE  RowsFit'
    <3>1. op'.at = "delete_functions" /\ op'.key = op.key /\ op'.row = op.row /\ op'.ir = r.id
      BY <2>3, Continues
    <3> QED
      BY <2>1, <2>3, <3>1, SameRows DEF RowAtWork, Working
  <2> QED
    BY <1>6, <2>2, <2>3 DEF ReplaceFindsIr
<1>7. CASE InsertPipeline
  <2>1. /\ op'.at = "insert_ir" /\ op'.key = op.key /\ op'.row = lastId + 1
        /\ pipelines' = pipelines \cup {[id |-> lastId + 1, key |-> op.key]} /\ UNCHANGED <<kind, irs>>
    BY <1>7, Continues DEF InsertPipeline
  <2>2. \A p \in pipelines : p.id # lastId + 1 /\ p.key # op.key
    BY <1>7 DEF InsertPipeline, At, RowAtWork, Rows, Typed, Fresh, TypeOK, Ids
  <2>3. \A r \in irs : r.pipeline # lastId + 1
    BY DEF Typed, Fresh, TypeOK, Ids
  <2>4. UniqueRows'
    BY <2>1, <2>2 DEF UniqueRows
  <2>5. RowAtWork'
    <3> DEFINE new == [id |-> lastId + 1, key |-> op.key]
    <3>1. new \in pipelines' /\ new.id = op'.row /\ new.key = op'.key
      BY <2>1
    <3> HIDE DEF new
    <3> QED
      BY <2>1, <2>3, <3>1 DEF RowAtWork, Working
  <2> QED
    BY <2>4, <2>5
<1>8. CASE DeleteFunctions \/ DeletePipes
  <2>1. /\ op # Idle /\ op.at \in {"delete_functions", "delete_pipes"} /\ UNCHANGED <<kind, pipelines, irs>>
        /\ op'.at \in {"delete_pipes", "delete_ir"}
        /\ op'.key = op.key /\ op'.row = op.row /\ op'.ir = op.ir
    BY <1>8, Continues DEF DeleteFunctions, DeletePipes, At, Goto
  <2> QED
    BY <2>1, SameRows DEF RowAtWork, Working
<1>9. CASE DeleteIr
  <2>1. /\ op # Idle /\ op.at = "delete_ir" /\ UNCHANGED <<kind, pipelines>>
        /\ irs' = {r \in irs : r.pipeline # op.row}
        /\ op'.at = "insert_ir" /\ op'.key = op.key /\ op'.row = op.row
    BY <1>9, Continues DEF DeleteIr, At, Goto
  <2>2. UniqueRows'
    BY <2>1 DEF UniqueRows
  <2>3. RowAtWork'
    BY <2>1 DEF RowAtWork, Working
  <2> QED
    BY <2>2, <2>3
<1>10. CASE InsertIr
  <2>1. /\ op # Idle /\ op.at = "insert_ir" /\ UNCHANGED <<kind, pipelines>> /\ kind = "sqlite"
        /\ irs' = irs \cup {[id |-> lastId + 1, pipeline |-> op.row, rec |-> op.rec]}
        /\ op'.at = "insert_parts" /\ op'.key = op.key /\ op'.row = op.row /\ op'.ir = lastId + 1
        /\ op'.rec = op.rec
    BY <1>10, Continues DEF InsertIr, At, Typed, OpFits, Requests
  <2>2. \A r \in irs : r.id # lastId + 1 /\ r.pipeline # op.row
    BY <2>1 DEF RowAtWork, Typed, Fresh, TypeOK, Ids
  <2>3. UniqueRows'
    BY <2>1, <2>2 DEF UniqueRows
  <2>5. RowAtWork'
    <3> DEFINE new == [id |-> lastId + 1, pipeline |-> op.row, rec |-> op.rec]
    <3>1. new \in irs' /\ new.id = op'.ir /\ new.pipeline = op'.row /\ new.rec = op'.rec
      BY <2>1
    <3> HIDE DEF new
    <3> QED
      BY <2>1, <3>1 DEF RowAtWork, Working
  <2> QED
    BY <2>3, <2>5
<1>11. CASE InsertPart
  <2>1. /\ op # Idle /\ op.at = "insert_parts" /\ UNCHANGED <<kind, pipelines, irs>>
        /\ op' # Idle /\ op'.at = "insert_parts" /\ op'.key = op.key /\ op'.row = op.row /\ op'.ir = op.ir
        /\ op'.rec = op.rec
    BY <1>11, Continues DEF InsertPart, At
  <2> QED
    BY <2>1, SameRows, SameWork
<1>12. CASE Inserted
  BY <1>12, SameRows, EndsRows DEF Inserted, Finish, tables
<1>13. CASE DeletePipeline
  <2>1. op' = Idle /\ UNCHANGED <<kind, irs>> /\ pipelines' \subseteq pipelines
    BY <1>13 DEF DeletePipeline, Finish
  <2>2. UniqueRows'
    BY <2>1 DEF UniqueRows
  <2> QED
    BY <2>1, <2>2, EndsRows
<1>14. CASE AddsDocument
  <2>1. /\ op' = Idle /\ UNCHANGED kind /\ kind = "mongodb"
        /\ pipelines' = pipelines \cup {[id |-> lastId + 1, key |-> op.key]}
        /\ irs' = irs \cup {[id |-> lastId + 1, pipeline |-> lastId + 1, rec |-> op.rec]}
    BY <1>14 DEF AddsDocument, Document
  <2>2. /\ \A p \in pipelines : p.id # lastId + 1
        /\ \A r \in irs : r.id # lastId + 1 /\ r.pipeline # lastId + 1
    BY DEF Typed, Fresh, TypeOK, Ids
  <2>3. UniqueRows'
    BY <2>1, <2>2 DEF UniqueRows
  <2> QED
    BY <2>1, <2>3, EndsRows
<1>15. ASSUME NEW p \in Rows(op.key), Replaces(p) PROVE RowsFit'
  <2>1. /\ op' = Idle /\ UNCHANGED <<kind, pipelines>> /\ kind = "mongodb"
        /\ irs' = {r \in irs : r.pipeline # p.id} \cup {[id |-> p.id, pipeline |-> p.id, rec |-> op.rec]}
    BY <1>15 DEF Replaces
  <2>2. UniqueRows'
    BY <2>1 DEF UniqueRows
  <2> QED
    BY <2>1, <2>2, EndsRows
<1>16. ASSUME NEW p \in Rows(op.key), Deletes(p) PROVE RowsFit'
  <2>1. op' = Idle /\ UNCHANGED kind /\ pipelines' \subseteq pipelines /\ irs' \subseteq irs
    BY <1>16 DEF Deletes, Without
  <2>2. UniqueRows'
    BY <2>1 DEF UniqueRows
  <2> QED
    BY <2>1, <2>2, EndsRows
<1>17. CASE InsertStatistic \/ InsertData \/ InsertEntry
  <2>1. op'.at \in {"insert_data", "insert_entries"} /\ UNCHANGED <<kind, pipelines, irs>>
    BY <1>17, Continues DEF InsertStatistic, InsertData, InsertEntry, At, tables
  <2> QED
    BY <2>1, SameRows DEF RowAtWork, Working
<1>18. CASE StatisticInserted \/ InsertStatisticDocument \/ DeleteStatistics
  <2>1. op' = Idle /\ UNCHANGED <<kind, pipelines, irs>>
    BY <1>18 DEF StatisticInserted, InsertStatisticDocument, DeleteStatistics, Finish, tables
  <2> QED
    BY <2>1, SameRows, EndsRows
<1> QED
  BY EachStep, <1>1, <1>2, <1>3, <1>4, <1>5, <1>6, <1>7, <1>8, <1>9, <1>10, <1>11, <1>12, <1>13,
     <1>14, <1>15, <1>16, <1>17, <1>18 DEF Steps

\* Every variable keeps its type.
THEOREM TypeCorrect == Spec => []TypeOK
<1>1. Typed /\ [Next]_vars => Typed'
  BY StepTyped
<1>2. Typed => TypeOK
  BY DEF Typed
<1> QED
  BY <1>1, <1>2, InitTyped, PTL DEF Spec

LEMMA RowsAlways == Spec => [](Typed /\ RowsFit)
<1>1. Typed /\ RowsFit /\ [Next]_vars => (Typed /\ RowsFit)'
  BY StepTyped, StepRows
<1> QED
  BY <1>1, InitTyped, InitRows, PTL DEF Spec

\* In sqlite a pipeline has one row and a row one pipeline_ir, whatever fails.
THEOREM OneRow == Spec => []OneOfEach
<1>1. RowsFit => OneOfEach
  BY DEF RowsFit, UniqueRows, OneOfEach, IrsOf
<1> QED
  BY <1>1, RowsAlways, PTL

-----------------------------------------------------------------------------
(* Functions and pipes.                                                    *)

Filled(set, ir, n) == \A i \in 1..n : \E f \in set : f.ir = ir /\ f.index = i

Closed(set) == \A f \in set : Filled(set, f.ir, f.index)

\* Parts belong to the record their pipeline_ir was written for, and none is there without
\* those before it.
WholeParts ==
  /\ \A r \in irs : \A f \in functions : f.ir = r.id => f.rec = r.rec
  /\ \A r \in irs : \A f \in pipes : f.ir = r.id => f.rec = r.rec
  /\ Closed(functions)
  /\ Closed(pipes)

\* What the operation in progress has written so far.
Written ==
  op # Idle /\ op.at = "insert_parts" =>
    /\ Filled(functions, op.ir, IF op.next <= NumFunctions THEN op.next - 1 ELSE NumFunctions)
    /\ Filled(pipes, op.ir, op.next - 1 - NumFunctions)

PartsFit == WholeParts /\ Written

LEMMA InitParts == Init => PartsFit
BY DEF Init, PartsFit, WholeParts, Written, Closed, Idle

LEMMA OtherWork ==
  ASSUME op' = Idle \/ op'.at # "insert_parts"
  PROVE  Written'
BY DEF Written, Idle

\* Parts in a set keep what is before them when the set grows, or when all parts of a
\* pipeline_ir leave it.
LEMMA Grows ==
  ASSUME NEW A, NEW B, A \subseteq B, NEW ir, NEW n, Filled(A, ir, n)
  PROVE  Filled(B, ir, n)
BY DEF Filled

LEMMA AllLeave ==
  ASSUME NEW A, NEW B, NEW gone, \A f : f \in B <=> f \in A /\ f.ir # gone,
         Closed(A)
  PROVE  Closed(B)
BY DEF Closed, Filled

LEMMA OneMore ==
  ASSUME NEW A, NEW ir, NEW rec, NEW n \in Nat, Filled(A, ir, n),
         Closed(A),
         NEW B, B = A \cup {[ir |-> ir, rec |-> rec, index |-> n + 1]}
  PROVE  Filled(B, ir, n + 1) /\ Closed(B)
<1> DEFINE new == [ir |-> ir, rec |-> rec, index |-> n + 1]
<1>1. new.ir = ir /\ new.index = n + 1 /\ new \in B /\ A \subseteq B /\ \A f \in B : f \in A \/ f = new
  OBVIOUS
<1> HIDE DEF new
<1>2. Filled(B, ir, n + 1)
  <2> SUFFICES ASSUME NEW i \in 1..(n + 1) PROVE \E f \in B : f.ir = ir /\ f.index = i
    BY DEF Filled
  <2>1. CASE i = n + 1
    BY <1>1, <2>1
  <2>2. CASE i \in 1..n
    BY <1>1, <2>2 DEF Filled
  <2> QED
    BY <2>1, <2>2
<1>3. ASSUME NEW f \in B PROVE Filled(B, f.ir, f.index)
  <2>1. CASE f \in A
    BY <1>1, <2>1, Grows DEF Closed
  <2>2. CASE f = new
    BY <1>1, <1>2, <2>2
  <2> QED
    BY <1>1, <2>1, <2>2
<1> QED
  BY <1>2, <1>3 DEF Closed

\* All parts of a pipeline_ir are put in at once.
Part(ir, rec, i) == [ir |-> ir, rec |-> rec, index |-> i]

PutIn(A, B, ir, rec, n) ==
  /\ A \subseteq B /\ \A i \in 1..n : Part(ir, rec, i) \in B
  /\ \A f \in B : f \in A \/ (f.ir = ir /\ f.rec = rec /\ f.index \in 1..n)

LEMMA AllAtOnce ==
  ASSUME NEW A, NEW B, NEW ir, NEW rec, NEW n \in Nat, Closed(A), PutIn(A, B, ir, rec, n)
  PROVE  Filled(B, ir, n) /\ Closed(B)
<1>1. \A i : Part(ir, rec, i).ir = ir /\ Part(ir, rec, i).index = i
  BY DEF Part
<1>2. Filled(B, ir, n)
  BY <1>1 DEF Filled, PutIn
<1>3. ASSUME NEW f \in B PROVE Filled(B, f.ir, f.index)
  <2>1. CASE f \in A
    BY <2>1, Grows DEF Closed, PutIn
  <2>2. CASE f.ir = ir /\ f.index \in 1..n
    BY <1>2, <2>2 DEF Filled
  <2> QED
    BY <2>1, <2>2 DEF PutIn
<1> QED
  BY <1>2, <1>3 DEF Closed

LEMMA UnionPutsIn ==
  ASSUME NEW A, NEW ir, NEW rec, NEW n \in Nat
  PROVE  PutIn(A, A \cup {[ir |-> ir, rec |-> rec, index |-> i] : i \in 1..n}, ir, rec, n)
BY DEF Part, PutIn

LEMMA SameParts ==
  ASSUME PartsFit, UNCHANGED <<irs, functions, pipes>>
  PROVE  WholeParts'
BY DEF PartsFit, WholeParts, Closed, Filled

LEMMA StepParts ==
  ASSUME Typed, RowsFit, PartsFit, [Next]_vars
  PROVE  PartsFit'
<1>1. CASE UNCHANGED vars
  BY <1>1 DEF PartsFit, WholeParts, Written, Closed, Filled, vars, tables, Idle
<1>2. ASSUME NEW at \in Requests, NEW k \in Keys, Take(at, k) PROVE PartsFit'
  <2>1. op'.at = at /\ at # "insert_parts" /\ UNCHANGED <<irs, functions, pipes>>
    BY <1>2 DEF Take, tables, Requests
  <2> QED
    BY <2>1, SameParts, OtherWork DEF PartsFit
<1>3. CASE Quits \/ Inserted \/ StatisticInserted \/ InsertStatisticDocument \/ DeleteStatistics \/ DeletePipeline
  <2>1. op' = Idle /\ UNCHANGED <<irs, functions, pipes>>
    BY <1>3 DEF Quits, Inserted, StatisticInserted, InsertStatisticDocument, DeleteStatistics,
         DeletePipeline,
                Finish, tables
  <2> QED
    BY <2>1, SameParts, OtherWork DEF PartsFit
<1>4. CASE CreateGoesOn \/ ReplaceGoesOn \/ ReplaceFindsIr \/ InsertPipeline
             \/ InsertStatistic \/ InsertData \/ InsertEntry
  <2>1. UNCHANGED <<irs, functions, pipes>>
    BY <1>4 DEF CreateGoesOn, ReplaceGoesOn, ReplaceFindsIr, InsertPipeline, InsertStatistic, InsertData,
                InsertEntry, tables
  <2>2. op'.at # "insert_parts"
    BY <1>4, Continues DEF CreateGoesOn, ReplaceGoesOn, ReplaceFindsIr, InsertPipeline, InsertStatistic,
                InsertData, InsertEntry, Goto, At
  <2> QED
    BY <2>1, <2>2, SameParts, OtherWork DEF PartsFit
<1>5. CASE DeleteFunctions
  <2>1. op'.at # "insert_parts" /\ UNCHANGED <<irs, pipes>> /\ functions' = {f \in functions : f.ir # op.ir}
    BY <1>5, Continues DEF DeleteFunctions, Goto
  <2>2. Closed(functions') 
    BY <2>1, AllLeave DEF PartsFit, WholeParts, Closed, Filled
  <2>3. WholeParts'
    BY <2>1, <2>2 DEF PartsFit, WholeParts, Closed, Filled
  <2> QED
    BY <2>1, <2>3, OtherWork DEF PartsFit
<1>6. CASE DeletePipes
  <2>1. op'.at # "insert_parts" /\ UNCHANGED <<irs, functions>> /\ pipes' = {f \in pipes : f.ir # op.ir}
    BY <1>6, Continues DEF DeletePipes, Goto
  <2>2. Closed(pipes')
    BY <2>1, AllLeave DEF PartsFit, WholeParts, Closed, Filled
  <2>3. WholeParts'
    BY <2>1, <2>2 DEF PartsFit, WholeParts, Closed, Filled
  <2> QED
    BY <2>1, <2>3, OtherWork DEF PartsFit
<1>7. CASE DeleteIr
  <2>1. op'.at # "insert_parts" /\ UNCHANGED <<functions, pipes>> /\ irs' \subseteq irs
    BY <1>7, Continues DEF DeleteIr, Goto
  <2>2. WholeParts'
    BY <2>1 DEF PartsFit, WholeParts, Closed, Filled
  <2> QED
    BY <2>1, <2>2, OtherWork DEF PartsFit
<1>8. CASE InsertIr
  <2>1. /\ UNCHANGED <<functions, pipes>>
        /\ irs' = irs \cup {[id |-> lastId + 1, pipeline |-> op.row, rec |-> op.rec]}
        /\ op'.at = "insert_parts" /\ op'.next = 1 /\ op'.ir = lastId + 1
    BY <1>8, Continues DEF InsertIr
  <2>2. /\ \A f \in functions : f.ir # lastId + 1
        /\ \A f \in pipes : f.ir # lastId + 1
    BY DEF Typed, Fresh, TypeOK, Ids
  <2>3. WholeParts'
    BY <2>1, <2>2 DEF PartsFit, WholeParts, Closed, Filled
  <2>4. Written'
    BY <2>1 DEF Written, Filled
  <2> QED
    BY <2>3, <2>4 DEF PartsFit
<1>9. CASE InsertPart
  <2>1. /\ op # Idle /\ op.at = "insert_parts" /\ op.next <= Parts /\ UNCHANGED irs
        /\ op'.ir = op.ir /\ op'.next = op.next + 1
        /\ op.next \in Nat \ {0} /\ op.next - 1 \in Nat
    BY <1>9, Continues DEF InsertPart, At, Typed, TypeOK
  <2>2. PICK r \in irs : r.id = op.ir /\ r.rec = op.rec
    BY <2>1 DEF RowsFit, RowAtWork
  <2>3. \A t \in irs : t.id = op.ir => t.rec = op.rec
    BY <2>2 DEF RowsFit, UniqueRows
  <2>4. CASE op.next <= NumFunctions
    <3> DEFINE n == op.next - 1
    <3>1. /\ functions' = functions \cup {[ir |-> op.ir, rec |-> op.rec, index |-> n + 1]}
          /\ UNCHANGED pipes
      BY <1>9, <2>1, <2>4 DEF InsertPart
    <3>2. Filled(functions, op.ir, n)
      BY <2>1, <2>4 DEF PartsFit, Written
    <3>3. /\ Filled(functions', op.ir, n + 1)
          /\ Closed(functions')
      BY <2>1, <3>1, <3>2, OneMore DEF PartsFit, WholeParts
    <3>4. \A f \in functions' : f \in functions \/ (f.ir = op.ir /\ f.rec = op.rec)
      BY <3>1
    <3>5. WholeParts'
      BY <2>1, <2>3, <3>1, <3>3, <3>4 DEF PartsFit, WholeParts, Closed, Filled
    <3>6. Written'
      <4>1. Filled(functions', op'.ir, n + 1)
        BY <2>1, <3>3
      <4>2. Filled(pipes', op'.ir, op'.next - 1 - NumFunctions)
        BY <2>1, <2>4 DEF Filled
      <4>3. n + 1 = IF op'.next <= NumFunctions THEN op'.next - 1 ELSE NumFunctions
        BY <2>1, <2>4
      <4> QED
        BY <2>1, <4>1, <4>2, <4>3 DEF Written, Filled
    <3> QED
      BY <3>5, <3>6 DEF PartsFit
  <2>5. CASE ~(op.next <= NumFunctions)
    <3> DEFINE n == op.next - 1 - NumFunctions
    <3>1. n \in Nat /\ n + 1 = op.next - NumFunctions
      BY <2>1, <2>5
    <3>2. /\ pipes' = pipes \cup {[ir |-> op.ir, rec |-> op.rec, index |-> n + 1]}
          /\ UNCHANGED functions
      BY <1>9, <2>1, <2>5, <3>1 DEF InsertPart
    <3>3. Filled(pipes, op.ir, n)
      BY <2>1 DEF PartsFit, Written
    <3>4. /\ Filled(pipes', op.ir, n + 1)
          /\ Closed(pipes')
      BY <3>1, <3>2, <3>3, OneMore DEF PartsFit, WholeParts
    <3>5. \A f \in pipes' : f \in pipes \/ (f.ir = op.ir /\ f.rec = op.rec)
      BY <3>2
    <3>6. WholeParts'
      BY <2>1, <2>3, <3>2, <3>4, <3>5 DEF PartsFit, WholeParts, Closed, Filled
    <3>7. Written'
      <4>1. Filled(functions', op'.ir, NumFunctions)
        BY <2>1, <2>5, <3>2 DEF PartsFit, Written, Filled
      <4>2. n + 1 = op'.next - 1 - NumFunctions /\ ~(op'.next <= NumFunctions)
        BY <2>1, <2>5
      <4> QED
        BY <2>1, <3>4, <4>1, <4>2 DEF Written, Filled
    <3> QED
      BY <3>6, <3>7 DEF PartsFit
  <2> QED
    BY <2>4, <2>5
<1>10. CASE AddsDocument
  <2>1. PICK id : id = lastId + 1
    OBVIOUS
  <2>2. /\ op' = Idle /\ irs' = irs \cup {[id |-> id, pipeline |-> id, rec |-> op.rec]}
    BY <1>10, <2>1 DEF AddsDocument, Document
  <2>3. PutIn(functions, functions', id, op.rec, NumFunctions)
    BY <1>10, <2>1, UnionPutsIn DEF AddsDocument, Document
  <2>4. PutIn(pipes, pipes', id, op.rec, NumPipes)
    BY <1>10, <2>1, UnionPutsIn DEF AddsDocument, Document
  <2>5. /\ \A f \in functions : f.ir # id
        /\ \A f \in pipes : f.ir # id
        /\ \A r \in irs : r.id # id
    BY <2>1 DEF Typed, Fresh, TypeOK, Ids
  <2>6. Closed(functions')
    BY <2>3, AllAtOnce DEF PartsFit, WholeParts
  <2>7. Closed(pipes')
    BY <2>4, AllAtOnce DEF PartsFit, WholeParts
  <2>8. \A r \in irs' : r \in irs \/ (r.id = id /\ r.rec = op.rec)
    BY <2>2
  <2>9. WholeParts'
    BY <2>3, <2>4, <2>5, <2>6, <2>7, <2>8 DEF PartsFit, WholeParts, PutIn
  <2> QED
    BY <2>2, <2>9, OtherWork DEF PartsFit
<1>11. ASSUME NEW p \in Rows(op.key), Replaces(p) PROVE PartsFit'
  <2>1. PICK F, G : /\ \A f : f \in F <=> f \in functions /\ f.ir # p.id
                    /\ \A f : f \in G <=> f \in pipes /\ f.ir # p.id
                    /\ functions' = F \cup {[ir |-> p.id, rec |-> op.rec, index |-> i] : i \in 1..NumFunctions}
                    /\ pipes' = G \cup {[ir |-> p.id, rec |-> op.rec, index |-> i] : i \in 1..NumPipes}
    <3> WITNESS {f \in functions : f.ir # p.id}, {f \in pipes : f.ir # p.id}
    <3> QED
      BY <1>11 DEF Replaces
  <2>2. /\ op' = Idle
        /\ irs' = {r \in irs : r.pipeline # p.id} \cup {[id |-> p.id, pipeline |-> p.id, rec |-> op.rec]}
    BY <1>11 DEF Replaces
  <2>3. \A r \in irs' : (r \in irs /\ r.id # p.id) \/ (r.id = p.id /\ r.rec = op.rec)
    BY <1>11, <2>2 DEF Replaces, RowsFit, UniqueRows
  <2>4. PutIn(F, functions', p.id, op.rec, NumFunctions)
    BY <2>1, UnionPutsIn
  <2>5. PutIn(G, pipes', p.id, op.rec, NumPipes)
    BY <2>1, UnionPutsIn
  <2>6. /\ Closed(F)
        /\ Closed(G)
    BY <2>1 DEF PartsFit, WholeParts, Closed, Filled
  <2>7. Closed(functions')
    BY <2>4, <2>6, AllAtOnce
  <2>8. Closed(pipes')
    BY <2>5, <2>6, AllAtOnce
  <2>9. WholeParts'
    BY <2>1, <2>3, <2>4, <2>5, <2>7, <2>8 DEF PartsFit, WholeParts, PutIn
  <2> QED
    BY <2>2, <2>9, OtherWork DEF PartsFit
<1>12. ASSUME NEW p \in Rows(op.key), Deletes(p) PROVE PartsFit'
  <2>1. /\ op' = Idle /\ irs' \subseteq irs
        /\ \A f : f \in functions' <=> f \in functions /\ f.ir # p.id
        /\ \A f : f \in pipes' <=> f \in pipes /\ f.ir # p.id
    BY <1>12 DEF Deletes, Without
  <2>2. WholeParts'
    BY <2>1 DEF PartsFit, WholeParts, Closed, Filled
  <2> QED
    BY <2>1, <2>2, OtherWork DEF PartsFit
<1> QED
  BY EachStep, <1>1, <1>2, <1>3, <1>4, <1>5, <1>6, <1>7, <1>8, <1>9, <1>10, <1>11, <1>12 DEF Steps

LEMMA PartsAlways == Spec => [](Typed /\ RowsFit /\ PartsFit)
<1>1. Typed /\ RowsFit /\ PartsFit /\ [Next]_vars => (Typed /\ RowsFit /\ PartsFit)'
  BY StepTyped, StepRows, StepParts
<1> QED
  BY <1>1, InitTyped, InitRows, InitParts, PTL DEF Spec

\* What is read under one pipeline_ir was written for one record and misses nothing but its
\* end, for any sizes and wherever statements fail and the core crashes.
THEOREM OneVersion == Spec => []OneRecordEach
<1>1. PartsFit => OneRecordEach
  BY DEF PartsFit, WholeParts, Closed, Filled, OneRecordEach, FunctionsOf, PipesOf
<1> QED
  BY <1>1, PartsAlways, PTL

-----------------------------------------------------------------------------
(* Statistics.                                                             *)

\* Rows and records are told apart, and entries belong to the record of their statistic.
UniqueStatistics ==
  /\ \A s, t \in stats : s.id = t.id \/ s.rec = t.rec => s = t
  /\ \A c, d \in data : c.id = d.id => c = d
  /\ \A s \in stats : \A d \in data : \A e \in entries : e.data = d.id /\ d.stat = s.id => e.rec = s.rec

\* Records are numbered in the order of the requests.
Numbered ==
  /\ \A s \in stats : s.rec <= requests
  /\ op # Idle /\ op.at = "create_statistic" => \A s \in stats : s.rec # op.rec

HasEntry(s, i) == \E d \in data : \E e \in entries : d.stat = s.id /\ e.data = d.id /\ e.index = i

\* What the operation in progress has stored of its statistic.
StatisticAtWork ==
  op # Idle =>
    /\ op.at \in {"insert_data", "insert_entries"} =>
          \E s \in stats : s.id = op.row /\ s.key = op.key /\ s.rec = op.rec
    /\ op.at = "insert_entries" =>
          /\ \E d \in data : d.id = op.ir /\ d.stat = op.row
          /\ \A i \in 1..(op.next - 1) : \E e \in entries : e.data = op.ir /\ e.index = i

KeptIsWhole ==
  \A a \in kept : \E s \in stats : s.key = a.key /\ s.rec = a.rec /\ \A i \in 1..Entries : HasEntry(s, i)

StatisticsFit == UniqueStatistics /\ Numbered /\ StatisticAtWork /\ KeptIsWhole

LEMMA InitStatistics == Init => StatisticsFit
BY DEF Init, StatisticsFit, UniqueStatistics, Numbered, StatisticAtWork, KeptIsWhole

LEMMA SameStatistics ==
  ASSUME StatisticsFit, UNCHANGED <<statistics, requests>>, kept' \subseteq kept,
         op' = Idle \/ op'.at \notin {"create_statistic", "insert_data", "insert_entries"}
  PROVE  StatisticsFit'
<1>1. UNCHANGED <<stats, data, entries, requests>>
  BY DEF statistics
<1>2. UniqueStatistics'
  BY <1>1 DEF StatisticsFit, UniqueStatistics
<1>3. Numbered'
  BY <1>1 DEF StatisticsFit, Numbered
<1>4. StatisticAtWork'
  BY DEF StatisticAtWork
<1>5. KeptIsWhole'
  BY <1>1 DEF StatisticsFit, KeptIsWhole, HasEntry, Entries
<1> QED
  BY <1>2, <1>3, <1>4, <1>5 DEF StatisticsFit

\* What is kept stays whole when rows are added.
LEMMA MoreRows ==
  ASSUME KeptIsWhole, stats \subseteq stats', data \subseteq data', entries \subseteq entries',
         kept' = kept
  PROVE  KeptIsWhole'
BY DEF KeptIsWhole, HasEntry, Entries

LEMMA StepStatistics ==
  ASSUME Typed, StatisticsFit, [Next]_vars
  PROVE  StatisticsFit'
<1>0. /\ lastId \in Nat /\ requests \in Nat
      /\ \A s \in stats : s.id # lastId + 1
      /\ \A d \in data : d.id # lastId + 1 /\ d.stat # lastId + 1
      /\ \A e \in entries : e.data # lastId + 1
  BY DEF Typed, Fresh, TypeOK, Ids
<1>1. CASE UNCHANGED vars
  BY <1>1 DEF StatisticsFit, UniqueStatistics, Numbered, StatisticAtWork, KeptIsWhole, HasEntry, Entries,
              vars, statistics, history
<1>2. ASSUME NEW at \in Requests, NEW k \in Keys, Take(at, k) PROVE StatisticsFit'
  <2>1. /\ op' # Idle /\ op'.at = at /\ op'.rec = requests + 1 /\ requests' = requests + 1
        /\ UNCHANGED <<stats, data, entries, kept>>
    BY <1>2 DEF Take, statistics, history, Requests, Idle
  <2>2. \A s \in stats : s.rec \in Nat
    BY DEF Typed, TypeOK, Records
  <2>3. UniqueStatistics'
    BY <2>1 DEF StatisticsFit, UniqueStatistics
  <2>4. Numbered'
    BY <1>0, <2>1, <2>2 DEF StatisticsFit, Numbered
  <2>5. StatisticAtWork'
    BY <2>1 DEF StatisticAtWork, Requests
  <2>6. KeptIsWhole'
    BY <2>1, MoreRows DEF StatisticsFit
  <2> QED
    BY <2>3, <2>4, <2>5, <2>6 DEF StatisticsFit
<1>3. CASE Quits \/ Inserted \/ DeletePipeline \/ AddsDocument
             \/ (\E p \in Rows(op.key) : Replaces(p) \/ Deletes(p))
  <2>1. op' = Idle /\ UNCHANGED <<statistics, requests, kept>>
    BY <1>3 DEF Quits, Inserted, DeletePipeline, AddsDocument, Replaces, Deletes, Finish, history
  <2> QED
    BY <2>1, SameStatistics
<1>4. CASE CreateGoesOn \/ ReplaceGoesOn \/ ReplaceFindsIr \/ InsertPipeline \/ DeleteFunctions \/ DeletePipes
             \/ DeleteIr \/ InsertIr \/ InsertPart
  <2>1. UNCHANGED <<statistics, requests, kept>>
    BY <1>4 DEF CreateGoesOn, ReplaceGoesOn, ReplaceFindsIr, InsertPipeline, DeleteFunctions, DeletePipes,
                DeleteIr, InsertIr, InsertPart, history
  <2>2. op'.at \notin {"create_statistic", "insert_data", "insert_entries"}
    BY <1>4, Continues DEF CreateGoesOn, ReplaceGoesOn, ReplaceFindsIr, InsertPipeline, DeleteFunctions,
                DeletePipes, DeleteIr, InsertIr, InsertPart, Goto, At
  <2> QED
    BY <2>1, <2>2, SameStatistics
<1>5. CASE InsertStatistic
  <2> DEFINE new == [id |-> lastId + 1, key |-> op.key, rec |-> op.rec]
  <2>1. /\ op # Idle /\ op.at = "create_statistic" /\ stats' = stats \cup {new}
        /\ UNCHANGED <<data, entries, requests, kept>>
        /\ op' # Idle /\ op'.at = "insert_data" /\ op'.row = lastId + 1 /\ op'.key = op.key
        /\ op'.rec = op.rec /\ op.rec = requests
    BY <1>5, Continues DEF InsertStatistic, At, history, Typed, OpFits
  <2>2. new.id = lastId + 1 /\ new.key = op.key /\ new.rec = op.rec /\ new \in stats'
    BY <2>1
  <2> HIDE DEF new
  <2>3. UniqueStatistics'
    BY <1>0, <2>1, <2>2 DEF StatisticsFit, UniqueStatistics, Numbered
  <2>4. Numbered'
    BY <1>0, <2>1, <2>2 DEF StatisticsFit, Numbered
  <2>5. StatisticAtWork'
    BY <2>1, <2>2 DEF StatisticAtWork
  <2>6. KeptIsWhole'
    BY <2>1, MoreRows DEF StatisticsFit
  <2> QED
    BY <2>3, <2>4, <2>5, <2>6 DEF StatisticsFit
<1>6. CASE InsertData
  <2> DEFINE new == [id |-> lastId + 1, stat |-> op.row]
  <2>1. /\ op # Idle /\ op.at = "insert_data" /\ data' = data \cup {new}
        /\ UNCHANGED <<stats, entries, requests, kept>>
        /\ op' # Idle /\ op'.at = "insert_entries" /\ op'.row = op.row /\ op'.key = op.key
        /\ op'.rec = op.rec /\ op'.ir = lastId + 1 /\ op'.next = 1
    BY <1>6, Continues DEF InsertData, At, history, Typed, OpFits
  <2>2. new.id = lastId + 1 /\ new.stat = op.row /\ new \in data'
    BY <2>1
  <2> HIDE DEF new
  <2>3. UniqueStatistics'
    BY <1>0, <2>1, <2>2 DEF StatisticsFit, UniqueStatistics
  <2>4. Numbered'
    BY <2>1 DEF StatisticsFit, Numbered
  <2>5. StatisticAtWork'
    BY <2>1, <2>2 DEF StatisticsFit, StatisticAtWork
  <2>6. KeptIsWhole'
    BY <2>1, MoreRows DEF StatisticsFit
  <2> QED
    BY <2>3, <2>4, <2>5, <2>6 DEF StatisticsFit
<1>7. CASE InsertEntry
  <2> DEFINE new == [data |-> op.ir, rec |-> op.rec, index |-> op.next]
  <2>1. /\ op # Idle /\ op.at = "insert_entries" /\ entries' = entries \cup {new}
        /\ UNCHANGED <<stats, data, requests, kept>>
        /\ op' # Idle /\ op'.at = "insert_entries" /\ op'.row = op.row /\ op'.key = op.key
        /\ op'.rec = op.rec /\ op'.ir = op.ir /\ op'.next = op.next + 1 /\ op.next \in Nat
    BY <1>7, Continues DEF InsertEntry, At, history, Typed, TypeOK
  <2>2. new.data = op.ir /\ new.rec = op.rec /\ new.index = op.next /\ new \in entries'
    BY <2>1
  <2> HIDE DEF new
  <2>3. PICK s \in stats, d \in data : /\ s.id = op.row /\ s.key = op.key /\ s.rec = op.rec
                                      /\ d.id = op.ir /\ d.stat = op.row
    BY <2>1 DEF StatisticsFit, StatisticAtWork
  <2>4. UniqueStatistics'
    BY <2>1, <2>2, <2>3 DEF StatisticsFit, UniqueStatistics
  <2>5. Numbered'
    BY <2>1 DEF StatisticsFit, Numbered
  <2>6. \A i \in 1..(op'.next - 1) : \E e \in entries' : e.data = op.ir /\ e.index = i
    BY <2>1, <2>2 DEF StatisticsFit, StatisticAtWork
  <2>7. StatisticAtWork'
    BY <2>1, <2>3, <2>6 DEF StatisticAtWork
  <2>8. KeptIsWhole'
    BY <2>1, MoreRows DEF StatisticsFit
  <2> QED
    BY <2>4, <2>5, <2>7, <2>8 DEF StatisticsFit
<1>8. CASE StatisticInserted
  <2> DEFINE new == [key |-> op.key, rec |-> op.rec]
  <2>1. /\ op # Idle /\ op.at = "insert_entries" /\ op.next > Entries /\ op.next \in Nat
        /\ op' = Idle /\ kept' = kept \cup {new} /\ UNCHANGED <<stats, data, entries, requests>>
    BY <1>8 DEF StatisticInserted, At, Finish, statistics, Typed, TypeOK
  <2>2. new.key = op.key /\ new.rec = op.rec
    OBVIOUS
  <2> HIDE DEF new
  <2>3. PICK s \in stats, d \in data : /\ s.id = op.row /\ s.key = op.key /\ s.rec = op.rec
                                      /\ d.id = op.ir /\ d.stat = op.row
    BY <2>1 DEF StatisticsFit, StatisticAtWork
  <2>4. \A i \in 1..Entries : HasEntry(s, i)
    BY <2>1, <2>3, Sizes DEF StatisticsFit, StatisticAtWork, HasEntry
  <2>5. KeptIsWhole'
    BY <2>1, <2>2, <2>3, <2>4 DEF StatisticsFit, KeptIsWhole, HasEntry, Entries
  <2>6. UniqueStatistics' /\ Numbered' /\ StatisticAtWork'
    BY <2>1 DEF StatisticsFit, UniqueStatistics, Numbered, StatisticAtWork
  <2> QED
    BY <2>5, <2>6 DEF StatisticsFit
<1>9. CASE InsertStatisticDocument
  <2> DEFINE id == lastId + 1
             s == [id |-> id, key |-> op.key, rec |-> op.rec]
             d == [id |-> id, stat |-> id]
             new(i) == [data |-> id, rec |-> op.rec, index |-> i]
             a == [key |-> op.key, rec |-> op.rec]
  <2>1. /\ op # Idle /\ op.at = "create_statistic" /\ op' = Idle /\ UNCHANGED requests
        /\ stats' = stats \cup {s} /\ data' = data \cup {d} /\ kept' = kept \cup {a}
        /\ entries' = entries \cup {new(i) : i \in 1..Entries} /\ op.rec = requests
    BY <1>9 DEF InsertStatisticDocument, At, Finish, Typed, OpFits
  <2>2. /\ s.id = id /\ s.key = op.key /\ s.rec = op.rec /\ s \in stats'
        /\ d.id = id /\ d.stat = id /\ d \in data'
        /\ a.key = op.key /\ a.rec = op.rec
    BY <2>1
  <2>3. /\ \A e \in entries' : e \in entries \/ (e.data = id /\ e.rec = op.rec)
        /\ \A i \in 1..Entries : new(i) \in entries' /\ new(i).data = id /\ new(i).index = i
    BY <2>1
  <2>4. /\ \A t \in stats' : t \in stats \/ t = s
        /\ \A c \in data' : c \in data \/ c = d
        /\ \A b \in kept' : b \in kept \/ b = a
        /\ stats \subseteq stats' /\ data \subseteq data' /\ entries \subseteq entries'
    BY <2>1
  <2>5. /\ \A t \in stats : t.id # id
        /\ \A c \in data : c.id # id /\ c.stat # id
        /\ \A e \in entries : e.data # id
    BY <1>0
  <2>6. \A t \in stats : t.rec # op.rec
    BY <2>1 DEF StatisticsFit, Numbered
  <2> HIDE DEF id, s, d, new, a
  <2>7. UniqueStatistics'
    BY <2>2, <2>3, <2>4, <2>5, <2>6 DEF StatisticsFit, UniqueStatistics
  <2>8. Numbered'
    BY <1>0, <2>1, <2>2, <2>4 DEF StatisticsFit, Numbered
  <2>9. KeptIsWhole'
    <3>1. \A i \in 1..Entries : \E c \in data', e \in entries' : c.stat = s.id /\ e.data = c.id /\ e.index = i
      BY <2>2, <2>3
    <3>2. ASSUME NEW b \in kept
          PROVE  \E t \in stats' : /\ t.key = b.key /\ t.rec = b.rec
                                   /\ \A i \in 1..Entries : \E c \in data', e \in entries' :
                                        c.stat = t.id /\ e.data = c.id /\ e.index = i
      BY <2>4 DEF StatisticsFit, KeptIsWhole, HasEntry
    <3> QED
      BY <2>2, <2>4, <3>1, <3>2 DEF KeptIsWhole, HasEntry, Entries
  <2> QED
    BY <2>1, <2>7, <2>8, <2>9 DEF StatisticsFit, StatisticAtWork
<1>10. CASE DeleteStatistics
  <2>1. /\ op' = Idle /\ UNCHANGED requests
        /\ stats' = {s \in stats : s.key.ns # op.key.ns} /\ kept' = {a \in kept : a.key.ns # op.key.ns}
    BY <1>10 DEF DeleteStatistics, OtherNamespaces, Finish
  <2>2. data' \subseteq data /\ entries' \subseteq entries
    BY <1>10 DEF DeleteStatistics
  <2>3. \A s \in stats' : \A d \in data : \A e \in entries :
          d.stat = s.id /\ e.data = d.id => d \in data' /\ e \in entries'
    BY <1>10 DEF DeleteStatistics
  <2>4. UniqueStatistics' /\ Numbered' /\ StatisticAtWork'
    BY <2>1, <2>2 DEF StatisticsFit, UniqueStatistics, Numbered, StatisticAtWork
  <2>5. KeptIsWhole'
    BY <2>1, <2>3 DEF StatisticsFit, KeptIsWhole, HasEntry, Entries
  <2> QED
    BY <2>4, <2>5 DEF StatisticsFit
<1> QED
  BY EachStep, <1>1, <1>2, <1>3, <1>4, <1>5, <1>6, <1>7, <1>8, <1>9, <1>10 DEF Steps

LEMMA KeptIsShown ==
  ASSUME Typed, StatisticsFit
  PROVE  AcknowledgedStatisticsAreShown
<1> SUFFICES ASSUME NEW a \in kept
             PROVE  {Shown(s) : s \in {x \in stats : x.rec = a.rec}} =
                      {[key |-> a.key, rec |-> a.rec, entries |-> {<<a.rec, i>> : i \in 1..Entries}]}
  BY DEF AcknowledgedStatisticsAreShown
<1>1. PICK s \in stats : s.key = a.key /\ s.rec = a.rec /\ \A i \in 1..Entries : HasEntry(s, i)
  BY DEF StatisticsFit, KeptIsWhole
<1>2. {x \in stats : x.rec = a.rec} = {s}
  BY <1>1 DEF StatisticsFit, UniqueStatistics
<1> DEFINE own == {x \in entries : \E d \in data : d.id = x.data /\ d.stat = s.id}
<1>3. \A e \in own : e.rec = a.rec /\ e.index \in 1..Entries
  BY <1>1 DEF StatisticsFit, UniqueStatistics, Typed, TypeOK
<1>4. \A i \in 1..Entries : \E e \in own : e.index = i
  BY <1>1 DEF HasEntry
<1>5. Shown(s) = [key |-> a.key, rec |-> a.rec, entries |-> {<<e.rec, e.index>> : e \in own}]
  BY <1>1 DEF Shown
<1> HIDE DEF own
<1>6. {<<e.rec, e.index>> : e \in own} = {<<a.rec, i>> : i \in 1..Entries}
  BY <1>3, <1>4
<1>7. {Shown(x) : x \in {s}} = {Shown(s)}
  OBVIOUS
<1>8. Shown(s) = [key |-> a.key, rec |-> a.rec, entries |-> {<<a.rec, i>> : i \in 1..Entries}]
  BY <1>5, <1>6
<1> QED
  BY <1>2, <1>7, <1>8

\* An acknowledged statistic is shown whole and once, for any sizes, until its namespace is
\* deleted.
THEOREM StatisticsAreKept == Spec => []AcknowledgedStatisticsAreShown
<1>1. Typed /\ StatisticsFit /\ [Next]_vars => (Typed /\ StatisticsFit)'
  BY StepTyped, StepStatistics
<1>2. Typed /\ StatisticsFit => AcknowledgedStatisticsAreShown
  BY KeptIsShown
<1> QED
  BY <1>1, <1>2, InitTyped, InitStatistics, PTL DEF Spec

-----------------------------------------------------------------------------
(* The pipelines are a store whose operations take effect at once.         *)

InDoubt(k) == k \in doubt \/ (Dirty /\ op.key = k)

\* A pipeline is read from one row, and all of its parts are there.
OnlyRow(p) == \A q \in pipelines : q.key = p.key => q = p
Complete(r) == Filled(functions, r.id, NumFunctions) /\ Filled(pipes, r.id, NumPipes)
CompleteRow(p) == \E r \in irs : r.pipeline = p.id /\ Complete(r)

\* Unless an operation on it was cut short.
SettledAt(k) == InDoubt(k) \/ \A p \in pipelines : p.key = k => OnlyRow(p) /\ CompleteRow(p)
Settled == \A k \in Keys : SettledAt(k)

Inv == Typed /\ RowsFit /\ PartsFit /\ Settled

\* What is stored under a key.
Values ==
  \A k \in Keys :
    /\ InDoubt(k) => Stored[k] = Doubtful
    /\ ~InDoubt(k) /\ Rows(k) = {} => Stored[k] = None
    /\ \A p \in pipelines : \A r \in irs :
         ~InDoubt(k) /\ p.key = k /\ OnlyRow(p) /\ r.pipeline = p.id /\ Complete(r) => Stored[k] = r.rec

LEMMA ReadWhole ==
  ASSUME Typed, RowsFit, PartsFit, NEW p \in pipelines, NEW r \in irs,
         OnlyRow(p), r.pipeline = p.id, Complete(r)
  PROVE  UNION {{Assembled(q, t) : t \in IrsOf(q)} : q \in Rows(p.key)} = {Whole(p.key, r.rec)}
<1>1. Rows(p.key) = {p} /\ IrsOf(p) = {r}
  BY DEF Rows, OnlyRow, IrsOf, RowsFit, UniqueRows
<1>2. {<<f.rec, f.index>> : f \in FunctionsOf(r)} = {<<r.rec, i>> : i \in 1..NumFunctions}
  <2>1. \A f \in FunctionsOf(r) : f.rec = r.rec /\ f.index \in 1..NumFunctions
    BY DEF FunctionsOf, Typed, TypeOK, PartsFit, WholeParts
  <2>2. \A i \in 1..NumFunctions : \E f \in FunctionsOf(r) : f.index = i
    BY DEF FunctionsOf, Complete, Filled
  <2> QED
    BY <2>1, <2>2
<1>3. {<<f.rec, f.index>> : f \in PipesOf(r)} = {<<r.rec, i>> : i \in 1..NumPipes}
  <2>1. \A f \in PipesOf(r) : f.rec = r.rec /\ f.index \in 1..NumPipes
    BY DEF PipesOf, Typed, TypeOK, PartsFit, WholeParts
  <2>2. \A i \in 1..NumPipes : \E f \in PipesOf(r) : f.index = i
    BY DEF PipesOf, Complete, Filled
  <2> QED
    BY <2>1, <2>2
<1>4. Assembled(p, r) = Whole(p.key, r.rec)
  BY <1>2, <1>3 DEF Assembled, Whole
<1>5. {Assembled(p, t) : t \in {r}} = {Assembled(p, r)}
  OBVIOUS
<1>6. {{Assembled(q, t) : t \in IrsOf(q)} : q \in {p}} = {{Assembled(p, t) : t \in IrsOf(p)}}
  OBVIOUS
<1>7. UNION {{Whole(p.key, r.rec)}} = {Whole(p.key, r.rec)}
  OBVIOUS
<1> QED
  BY <1>1, <1>4, <1>5, <1>6, <1>7

LEMMA ValuesHold == Typed /\ RowsFit /\ PartsFit => Values
<1> SUFFICES ASSUME Typed, RowsFit, PartsFit, NEW k \in Keys
             PROVE  /\ InDoubt(k) => Stored[k] = Doubtful
                    /\ ~InDoubt(k) /\ Rows(k) = {} => Stored[k] = None
                    /\ \A p \in pipelines : \A r \in irs :
                         ~InDoubt(k) /\ p.key = k /\ OnlyRow(p) /\ r.pipeline = p.id /\ Complete(r)
                           => Stored[k] = r.rec
  BY DEF Values
<1>1. InDoubt(k) => Stored[k] = Doubtful
  BY DEF Stored, InDoubt
<1>2. ~InDoubt(k) /\ Rows(k) = {} => Stored[k] = None
  BY DEF Stored, InDoubt
<1>3. ASSUME NEW p \in pipelines, NEW r \in irs,
             ~InDoubt(k), p.key = k, OnlyRow(p), r.pipeline = p.id, Complete(r)
      PROVE  Stored[k] = r.rec
  <2> DEFINE all == UNION {{Assembled(q, t) : t \in IrsOf(q)} : q \in Rows(k)}
  <2>1. all = {Whole(k, r.rec)}
    BY <1>3, ReadWhole
  <2>2. Rows(k) # {} /\ r.rec \in Records
    BY <1>3 DEF Rows, Typed, TypeOK
  <2>3. Stored[k] = IF \E rec \in Records : all = {Whole(k, rec)} THEN (CHOOSE a \in all : TRUE).rec ELSE Garbled
    BY <1>3, <2>2 DEF Stored, InDoubt
  <2> HIDE DEF all
  <2>4. (CHOOSE a \in all : TRUE) = Whole(k, r.rec)
    BY <2>1
  <2>5. Whole(k, r.rec).rec = r.rec
    BY DEF Whole
  <2> QED
    BY <2>1, <2>2, <2>3, <2>4, <2>5
<1> QED
  BY <1>1, <1>2, <1>3

LEMMA ValuesHoldNext == (Typed /\ RowsFit /\ PartsFit => Values)'
BY ValuesHold, PTL

\* The step leaves what is stored under the key as it was.
SameAt(k) ==
  /\ InDoubt(k)' <=> InDoubt(k)
  /\ \A p : p \in pipelines' /\ p.key = k <=> p \in pipelines /\ p.key = k
  /\ \A p \in pipelines : \A r \in irs : p.key = k /\ r.pipeline = p.id =>
       /\ r \in irs'
       /\ \A f \in functions : f.ir = r.id => f \in functions'
       /\ \A f \in pipes : f.ir = r.id => f \in pipes'

LEMMA SameValue ==
  ASSUME Inv, (Typed /\ RowsFit /\ PartsFit)', NEW k \in Keys, SameAt(k)
  PROVE  Stored'[k] = Stored[k] /\ SettledAt(k)'
<1>1. Values /\ Values'
  BY ValuesHold, ValuesHoldNext DEF Inv
<1>2. CASE InDoubt(k)
  BY <1>1, <1>2 DEF Values, SettledAt, SameAt, Doubtful
<1>3. CASE ~InDoubt(k) /\ Rows(k) = {}
  <2>1. Rows(k)' = {} /\ ~InDoubt(k)'
    BY <1>3 DEF SameAt, Rows
  <2> QED
    BY <1>1, <1>3, <2>1 DEF Values, SettledAt, Rows, None
<1>4. CASE ~InDoubt(k) /\ Rows(k) # {}
  <2>1. PICK p \in pipelines : p.key = k
    BY <1>4 DEF Rows
  <2>2. OnlyRow(p) /\ CompleteRow(p)
    BY <1>4, <2>1 DEF Inv, Settled, SettledAt
  <2>3. PICK r \in irs : r.pipeline = p.id /\ Complete(r)
    BY <2>2 DEF CompleteRow
  <2>4. p \in pipelines' /\ OnlyRow(p)' /\ ~InDoubt(k)'
    BY <1>4, <2>1, <2>2 DEF SameAt, OnlyRow
  <2>5. r \in irs' /\ Complete(r)'
    BY <2>1, <2>3 DEF SameAt, Complete, Filled
  <2>6. Stored'[k] = r.rec /\ Stored[k] = r.rec
    BY <1>1, <1>4, <2>1, <2>2, <2>3, <2>4, <2>5 DEF Values
  <2>7. \A q \in pipelines' : q.key = k => q = p
    BY <2>1, <2>4 DEF OnlyRow
  <2>8. CompleteRow(p)'
    BY <2>3, <2>5 DEF CompleteRow
  <2> QED
    BY <2>4, <2>6, <2>7, <2>8 DEF SettledAt
<1> QED
  BY <1>2, <1>3, <1>4

LEMMA StoredIsFunction == Stored = [k \in Keys |-> Stored[k]]
BY DEF Stored

LEMMA StoredIsFunctionNext == (Stored = [k \in Keys |-> Stored[k]])'
BY StoredIsFunction, PTL

\* A step that leaves every key as it was.
LEMMA AllSame ==
  ASSUME Inv, (Typed /\ RowsFit /\ PartsFit)', \A k \in Keys : SameAt(k)
  PROVE  Stored' = Stored /\ Settled'
<1>1. \A k \in Keys : Stored'[k] = Stored[k] /\ SettledAt(k)'
  BY SameValue
<1>2. Stored' = Stored
  BY <1>1, StoredIsFunction, StoredIsFunctionNext
<1> QED
  BY <1>1, <1>2 DEF Settled

\* A step that leaves every key but one as it was.
LEMMA OthersSame ==
  ASSUME Inv, (Typed /\ RowsFit /\ PartsFit)', NEW k \in Keys, NEW v, Stored'[k] = v,
         \A j \in Keys \ {k} : SameAt(j)
  PROVE  /\ Stored' = [Stored EXCEPT ![k] = v]
         /\ SettledAt(k)' => Settled'
<1>1. \A j \in Keys \ {k} : Stored'[j] = Stored[j] /\ SettledAt(j)'
  BY SameValue
<1>2. Stored' = [Stored EXCEPT ![k] = v]
  BY <1>1, StoredIsFunction, StoredIsFunctionNext
<1> QED
  BY <1>1, <1>2 DEF Settled

\* What a step does to the store.
Effect == Settled' /\ (Stored' = Stored \/ Store!Next)

LEMMA NoEffect ==
  ASSUME Inv, (Typed /\ RowsFit /\ PartsFit)', \A k \in Keys : SameAt(k)
  PROVE  Effect
BY AllSame DEF Effect

\* The operation puts its key in doubt, or leaves it there.
LEMMA FailEffect ==
  ASSUME Inv, (Typed /\ RowsFit /\ PartsFit)', NEW k \in Keys, InDoubt(k)', \A j \in Keys \ {k} : SameAt(j)
  PROVE  Effect
<1>1. Stored'[k] = Doubtful
  BY ValuesHoldNext DEF Values, Doubtful
<1>2. Stored' = [Stored EXCEPT ![k] = Doubtful] /\ Settled'
  BY <1>1, OthersSame DEF SettledAt
<1>3. Store!Fail(k)
  BY <1>2 DEF Store!Fail
<1> QED
  BY <1>2, <1>3 DEF Effect, Store!Next

\* The operation leaves its key without a record.
LEMMA DeleteEffect ==
  ASSUME Inv, (Typed /\ RowsFit /\ PartsFit)', NEW k \in Keys, ~InDoubt(k)', Rows(k)' = {},
         \A j \in Keys \ {k} : SameAt(j)
  PROVE  Effect
<1>1. Stored'[k] = None
  BY ValuesHoldNext DEF Values, None
<1>2. SettledAt(k)'
  BY DEF SettledAt, Rows
<1>3. Stored' = [Stored EXCEPT ![k] = None] /\ Settled'
  BY <1>1, <1>2, OthersSame
<1>4. CASE Stored[k] = None
  BY <1>3, <1>4, StoredIsFunction DEF Effect
<1>5. CASE Stored[k] # None
  BY <1>3, <1>5 DEF Effect, Store!Next, Store!Delete
<1> QED
  BY <1>4, <1>5

\* The operation leaves the record it was given.
LEMMA WriteEffect ==
  ASSUME Inv, (Typed /\ RowsFit /\ PartsFit)', NEW k \in Keys, NEW p \in pipelines', NEW r \in irs',
         ~InDoubt(k)', p.key = k, \A q \in pipelines' : q.key = k => q = p,
         r.pipeline = p.id, Complete(r)', \A j \in Keys \ {k} : SameAt(j)
  PROVE  Effect
<1>1. OnlyRow(p)' /\ CompleteRow(p)'
  BY DEF OnlyRow, CompleteRow
<1>2. Stored'[k] = r.rec
  BY <1>1, ValuesHoldNext DEF Values
<1>3. SettledAt(k)'
  BY <1>1 DEF SettledAt
<1>4. Stored' = [Stored EXCEPT ![k] = r.rec] /\ Settled'
  BY <1>2, <1>3, OthersSame
<1>5. r.rec \in Records
  BY DEF Typed, TypeOK, Records
<1>6. CASE Stored[k] = None
  BY <1>4, <1>5, <1>6 DEF Effect, Store!Next, Store!Create
<1>7. CASE Stored[k] # None
  BY <1>4, <1>5, <1>7 DEF Effect, Store!Next, Store!Replace
<1> QED
  BY <1>6, <1>7

\* A step that leaves the tables and the keys in doubt alone.
LEMMA QuietStep ==
  ASSUME Inv, (Typed /\ RowsFit /\ PartsFit)', UNCHANGED tables,
         \A k \in Keys : InDoubt(k)' <=> InDoubt(k)
  PROVE  Effect
<1>1. \A k \in Keys : SameAt(k)
  BY DEF SameAt, tables
<1> QED
  BY <1>1, NoEffect

\* What is found under another key than that of the row at work has other identifiers.
LEMMA Elsewhere ==
  ASSUME RowsFit, op # Idle, op.at \in Working
  PROVE  \A p \in pipelines : p.key # op.key => p.id # op.row
BY DEF RowsFit, RowAtWork, UniqueRows

LEMMA IrElsewhere ==
  ASSUME RowsFit, op # Idle, op.at \in {"delete_functions", "delete_pipes", "delete_ir", "insert_parts"}
  PROVE  \A p \in pipelines : \A r \in irs : p.key # op.key /\ r.pipeline = p.id => r.id # op.ir
<1>1. PICK t \in irs : t.id = op.ir /\ t.pipeline = op.row
  BY DEF RowsFit, RowAtWork
<1>2. \A p \in pipelines : p.key # op.key => p.id # op.row
  BY Elsewhere DEF Working
<1> QED
  BY <1>1, <1>2 DEF RowsFit, UniqueRows

LEMMA StepEffect ==
  ASSUME Inv, [Next]_vars, (Typed /\ RowsFit /\ PartsFit)'
  PROVE  Effect
<1> USE DEF Working
<1>1. CASE UNCHANGED vars
  BY <1>1, QuietStep DEF vars, InDoubt, Dirty, history
<1>2. ASSUME NEW at \in Requests, NEW k \in Keys, Take(at, k) PROVE Effect
  <2>1. op = Idle /\ op'.at = at /\ doubt' = doubt /\ UNCHANGED tables
    BY <1>2 DEF Take, history
  <2>2. ~Dirty /\ ~Dirty'
    BY <2>1 DEF Dirty, Requests
  <2> QED
    BY <2>1, <2>2, QuietStep DEF InDoubt
<1>3. CASE Quits
  <2>1. UNCHANGED tables /\ doubt' = Spoilt /\ op' = Idle
    BY <1>3 DEF Quits
  <2>2. \A k \in Keys : InDoubt(k)' <=> InDoubt(k)
    BY <2>1 DEF InDoubt, Dirty, Spoilt
  <2> QED
    BY <2>1, <2>2, QuietStep
<1>4. CASE CreateGoesOn \/ ReplaceGoesOn \/ InsertStatistic \/ InsertData \/ InsertEntry
  <2>1. UNCHANGED <<tables, doubt>>
    BY <1>4 DEF CreateGoesOn, ReplaceGoesOn, InsertStatistic, InsertData, InsertEntry, history
  <2>2. op.at \in {"create", "replace", "create_statistic", "insert_data", "insert_entries"}
    BY <1>4 DEF CreateGoesOn, ReplaceGoesOn, InsertStatistic, InsertData, InsertEntry, At
  <2>3. op'.at \in {"insert_pipeline", "find_ir", "insert_data", "insert_entries"}
    BY <1>4, Continues DEF CreateGoesOn, ReplaceGoesOn, InsertStatistic, InsertData, InsertEntry, At
  <2>4. ~Dirty /\ ~Dirty'
    BY <2>2, <2>3 DEF Dirty
  <2> QED
    BY <2>1, <2>4, QuietStep DEF InDoubt
<1>5. CASE StatisticInserted \/ InsertStatisticDocument \/ DeleteStatistics
  <2>1. UNCHANGED <<tables, doubt>> /\ op' = Idle
    BY <1>5 DEF StatisticInserted, InsertStatisticDocument, DeleteStatistics, Finish
  <2>2. op.at \in {"insert_entries", "create_statistic", "delete_statistics"}
    BY <1>5 DEF StatisticInserted, InsertStatisticDocument, DeleteStatistics, At
  <2>3. ~Dirty /\ ~Dirty'
    BY <2>1, <2>2 DEF Dirty
  <2> QED
    BY <2>1, <2>3, QuietStep DEF InDoubt
<1>6. CASE ReplaceFindsIr
  <2>1. UNCHANGED <<tables, doubt>> /\ op # Idle /\ op.at = "find_ir" /\ op.key \in Keys
    BY <1>6 DEF ReplaceFindsIr, At, history, Inv, Typed, TypeOK
  <2>2. op' # Idle /\ op'.at \in {"insert_ir", "delete_functions"} /\ op'.key = op.key
    BY <1>6, Continues DEF ReplaceFindsIr, Goto
  <2>3. ~Dirty
    BY <2>1 DEF Dirty
  <2>4. CASE op'.at = "insert_ir"
    <3>1. InDoubt(op.key)' /\ Dirty'
      BY <2>2, <2>4 DEF InDoubt, Dirty
    <3>2. \A j \in Keys \ {op.key} : SameAt(j)
      BY <2>1, <2>2, <2>3 DEF SameAt, InDoubt, tables
    <3>3. ASSUME NEW k \in Keys, k = op.key PROVE InDoubt(k)'
      BY <2>2, <2>4, <3>3 DEF InDoubt, Dirty
    <3> QED
      BY <2>1, <3>2, <3>3, FailEffect
  <2>5. CASE op'.at = "delete_functions"
    <3>1. ~Dirty'
      BY <2>5 DEF Dirty
    <3> QED
      BY <2>1, <2>3, <3>1, QuietStep DEF InDoubt
  <2> QED
    BY <2>2, <2>4, <2>5
<1>7. CASE InsertPipeline \/ DeleteFunctions \/ DeletePipes \/ DeleteIr \/ InsertIr \/ InsertPart
  <2>1. op # Idle /\ op.key \in Keys /\ UNCHANGED doubt
    BY <1>7 DEF InsertPipeline, DeleteFunctions, DeletePipes, DeleteIr, InsertIr, InsertPart, At, history,
                Inv, Typed, TypeOK
  <2>2. op' # Idle /\ op'.at \in {"insert_ir", "insert_parts", "delete_pipes", "delete_ir"} /\ op'.key = op.key
    BY <1>7, Continues DEF InsertPipeline, DeleteFunctions, DeletePipes, DeleteIr, InsertIr, InsertPart,
         At, Goto
  <2>3. PICK k \in Keys : k = op.key
    BY <2>1
  <2>4. \A j \in Keys \ {k} : InDoubt(j)' <=> InDoubt(j)
    BY <2>1, <2>2, <2>3 DEF InDoubt
  <2>5. \A j \in Keys \ {k} : SameAt(j)
    <3>1. CASE InsertPipeline
      <4>1. /\ UNCHANGED <<irs, functions, pipes>>
            /\ \A p : p \in pipelines' /\ p.key # op.key <=> p \in pipelines /\ p.key # op.key
        BY <3>1 DEF InsertPipeline
      <4> QED
        BY <2>3, <2>4, <4>1 DEF SameAt
    <3>2. CASE DeleteFunctions
      <4>1. UNCHANGED <<pipelines, irs, pipes>> /\ functions' = {f \in functions : f.ir # op.ir}
        BY <3>2 DEF DeleteFunctions
      <4>2. \A p \in pipelines : \A r \in irs : p.key # op.key /\ r.pipeline = p.id => r.id # op.ir
        BY <3>2, IrElsewhere DEF DeleteFunctions, At, Inv
      <4> QED
        BY <2>3, <2>4, <4>1, <4>2 DEF SameAt
    <3>3. CASE DeletePipes
      <4>1. UNCHANGED <<pipelines, irs, functions>> /\ pipes' = {f \in pipes : f.ir # op.ir}
        BY <3>3 DEF DeletePipes
      <4>2. \A p \in pipelines : \A r \in irs : p.key # op.key /\ r.pipeline = p.id => r.id # op.ir
        BY <3>3, IrElsewhere DEF DeletePipes, At, Inv
      <4> QED
        BY <2>3, <2>4, <4>1, <4>2 DEF SameAt
    <3>4. CASE DeleteIr
      <4>1. UNCHANGED <<pipelines, functions, pipes>> /\ irs' = {r \in irs : r.pipeline # op.row}
        BY <3>4 DEF DeleteIr
      <4>2. \A p \in pipelines : p.key # op.key => p.id # op.row
        BY <3>4, Elsewhere DEF DeleteIr, At, Inv
      <4> QED
        BY <2>3, <2>4, <4>1, <4>2 DEF SameAt
    <3>5. CASE InsertIr \/ InsertPart
      <4>1. UNCHANGED pipelines /\ irs \subseteq irs' /\ functions \subseteq functions' /\ pipes \subseteq pipes'
        BY <3>5 DEF InsertIr, InsertPart
      <4> QED
        BY <2>3, <2>4, <4>1 DEF SameAt
    <3> QED
      BY <1>7, <3>1, <3>2, <3>3, <3>4, <3>5
  <2>6. InDoubt(k)'
    BY <2>2, <2>3 DEF InDoubt, Dirty
  <2> QED
    BY <2>5, <2>6, FailEffect
<1>8. CASE Inserted
  <2>1. /\ op # Idle /\ op.at = "insert_parts" /\ op.next > Parts /\ op.next \in Nat /\ op' = Idle
        /\ UNCHANGED tables /\ doubt' = doubt \ {op.key} /\ op.key \in Keys /\ kind = "sqlite" /\ UNCHANGED kind
    BY <1>8 DEF Inserted, At, Finish, Inv, Typed, TypeOK, OpFits, Requests
  <2>2. PICK k \in Keys : k = op.key
    BY <2>1
  <2>3. ~InDoubt(k)' /\ \A j \in Keys \ {k} : InDoubt(j)' <=> InDoubt(j)
    BY <2>1, <2>2 DEF InDoubt, Dirty
  <2>4. PICK p \in pipelines, r \in irs : p.id = op.row /\ p.key = k /\ r.id = op.ir /\ r.pipeline = op.row
    BY <2>1, <2>2 DEF Inv, RowsFit, RowAtWork
  <2>5. \A q \in pipelines : q.key = k => q = p
    BY <2>1, <2>4 DEF Inv, RowsFit, UniqueRows
  <2>6. ~(op.next <= NumFunctions) /\ \A i \in 1..NumPipes : i \in 1..(op.next - 1 - NumFunctions)
    BY <2>1 DEF Parts
  <2>7. Filled(functions, op.ir, NumFunctions) /\ Filled(pipes, op.ir, op.next - 1 - NumFunctions)
    BY <2>1, <2>6 DEF Inv, PartsFit, Written
  <2>8. Filled(pipes, op.ir, NumPipes)
    BY <2>6, <2>7 DEF Filled
  <2>9. Complete(r)'
    BY <2>1, <2>4, <2>7, <2>8 DEF Complete, Filled, tables
  <2>10. \A j \in Keys \ {k} : SameAt(j)
    BY <2>1, <2>3 DEF SameAt, tables
  <2> QED
    BY <2>1, <2>3, <2>4, <2>5, <2>9, <2>10, WriteEffect DEF tables
<1>9. CASE DeletePipeline
  <2>1. /\ op # Idle /\ op.at = "delete" /\ op' = Idle /\ pipelines' = {p \in pipelines : p.key # op.key}
        /\ UNCHANGED <<irs, functions, pipes>> /\ doubt' = doubt \ {op.key} /\ op.key \in Keys
    BY <1>9 DEF DeletePipeline, At, Finish, Inv, Typed, TypeOK
  <2>2. PICK k \in Keys : k = op.key
    BY <2>1
  <2>3. ~InDoubt(k)' /\ \A j \in Keys \ {k} : InDoubt(j)' <=> InDoubt(j)
    BY <2>1, <2>2 DEF InDoubt, Dirty
  <2>4. Rows(k)' = {}
    BY <2>1, <2>2 DEF Rows
  <2>5. \A j \in Keys \ {k} : SameAt(j)
    BY <2>1, <2>2, <2>3 DEF SameAt
  <2> QED
    BY <2>3, <2>4, <2>5, DeleteEffect
<1>10. CASE AddsDocument
  <2> DEFINE id == lastId + 1
             p == [id |-> id, key |-> op.key]
             r == [id |-> id, pipeline |-> id, rec |-> op.rec]
  <2>1. /\ op # Idle /\ op.at = "create" /\ op' = Idle /\ op.key \in Keys
        /\ pipelines' = pipelines \cup {p} /\ irs' = irs \cup {r}
        /\ doubt' = IF Rows(op.key) = {} THEN doubt ELSE doubt \cup {op.key}
    BY <1>10 DEF AddsDocument, Document, At, Inv, Typed, TypeOK
  <2>2. p.id = id /\ p.key = op.key /\ r.id = id /\ r.pipeline = id /\ r.rec = op.rec
    OBVIOUS
  <2>3. /\ PutIn(functions, functions', id, op.rec, NumFunctions)
        /\ PutIn(pipes, pipes', id, op.rec, NumPipes)
    BY <1>10, UnionPutsIn DEF AddsDocument, Document
  <2> HIDE DEF id, p, r
  <2>4. PICK k \in Keys : k = op.key
    BY <2>1
  <2>5. \A j \in Keys : InDoubt(j) <=> j \in doubt
    BY <2>1 DEF InDoubt, Dirty
  <2>6. \A j \in Keys : InDoubt(j)' <=> j \in doubt'
    BY <2>1 DEF InDoubt, Dirty
  <2>7. \A j \in Keys \ {k} : SameAt(j)
    BY <2>1, <2>2, <2>3, <2>4, <2>5, <2>6 DEF SameAt, PutIn
  <2>8. CASE Rows(k) # {} \/ k \in doubt
    <3>1. InDoubt(k)'
      BY <2>1, <2>4, <2>6, <2>8
    <3> QED
      BY <2>7, <3>1, FailEffect
  <2>9. CASE Rows(k) = {} /\ k \notin doubt
    <3>1. ~InDoubt(k)'
      BY <2>1, <2>4, <2>6, <2>9
    <3>2. p \in pipelines' /\ r \in irs' /\ \A q \in pipelines' : q.key = k => q = p
      BY <2>1, <2>4, <2>9 DEF Rows
    <3>3. Filled(functions', id, NumFunctions) /\ Filled(pipes', id, NumPipes)
      BY <2>3, AllAtOnce DEF Inv, PartsFit, WholeParts
    <3>4. PICK t \in irs' : t.id = id /\ t.pipeline = id
      BY <2>2, <3>2
    <3>5. Complete(t)'
      BY <3>3, <3>4 DEF Complete
    <3>6. PICK q \in pipelines' : q = p
      BY <3>2
    <3> QED
      BY <2>2, <2>4, <2>7, <3>1, <3>2, <3>4, <3>5, <3>6, WriteEffect
  <2> QED
    BY <2>8, <2>9
<1>11. ASSUME NEW p \in Rows(op.key), Replaces(p) PROVE Effect
  <2>1. /\ op # Idle /\ op.at = "replace" /\ op' = Idle /\ op.key \in Keys /\ UNCHANGED <<pipelines, doubt>>
        /\ p \in pipelines /\ p.key = op.key /\ kind = "mongodb"
    BY <1>11 DEF Replaces, At, Rows, history, Inv, Typed, TypeOK
  <2>2. PICK k \in Keys : k = op.key
    BY <2>1
  <2>3. \A j \in Keys : InDoubt(j)' <=> InDoubt(j)
    BY <2>1 DEF InDoubt, Dirty
  <2>4. \A q \in pipelines : q.key # k => q.id # p.id
    BY <2>1, <2>2 DEF Inv, RowsFit, UniqueRows
  <2>5. \A t \in irs : t.id = t.pipeline
    BY <2>1 DEF Inv, RowsFit, UniqueRows
  <2>6. PICK F, G : /\ \A f : f \in F <=> f \in functions /\ f.ir # p.id
                    /\ \A f : f \in G <=> f \in pipes /\ f.ir # p.id
                    /\ functions' = F \cup {[ir |-> p.id, rec |-> op.rec, index |-> i] : i \in 1..NumFunctions}
                    /\ pipes' = G \cup {[ir |-> p.id, rec |-> op.rec, index |-> i] : i \in 1..NumPipes}
    <3> WITNESS {f \in functions : f.ir # p.id}, {f \in pipes : f.ir # p.id}
    <3> QED
      BY <1>11 DEF Replaces
  <2>7. PutIn(F, functions', p.id, op.rec, NumFunctions) /\ PutIn(G, pipes', p.id, op.rec, NumPipes)
    BY <2>6, UnionPutsIn
  <2>8. \A j \in Keys \ {k} : SameAt(j)
    <3>1. \A t \in irs : t.pipeline # p.id => t \in irs'
      BY <1>11 DEF Replaces
    <3>2. /\ \A f \in functions : f.ir # p.id => f \in functions'
          /\ \A f \in pipes : f.ir # p.id => f \in pipes'
      BY <2>6
    <3> QED
      BY <2>1, <2>3, <2>4, <2>5, <3>1, <3>2 DEF SameAt
  <2>9. CASE InDoubt(k)
    BY <2>3, <2>8, <2>9, FailEffect
  <2>10. CASE ~InDoubt(k)
    <3> DEFINE r == [id |-> p.id, pipeline |-> p.id, rec |-> op.rec]
    <3>1. r \in irs' /\ r.id = p.id /\ r.pipeline = p.id
      BY <1>11 DEF Replaces
    <3> HIDE DEF r
    <3>2. Closed(F) /\ Closed(G)
      BY <2>6 DEF Inv, PartsFit, WholeParts, Closed, Filled
    <3>3. Filled(functions', p.id, NumFunctions) /\ Filled(pipes', p.id, NumPipes)
      BY <2>7, <3>2, AllAtOnce
    <3>4. PICK t \in irs' : t.id = p.id /\ t.pipeline = p.id
      BY <3>1
    <3>5. Complete(t)'
      BY <3>3, <3>4 DEF Complete
    <3>6. \A q \in pipelines' : q.key = k => q = p
      BY <2>1, <2>2, <2>10 DEF Inv, Settled, SettledAt, OnlyRow
    <3> QED
      BY <2>1, <2>2, <2>3, <2>8, <2>10, <3>4, <3>5, <3>6, WriteEffect
  <2> QED
    BY <2>9, <2>10
<1>12. ASSUME NEW p \in Rows(op.key), Deletes(p) PROVE Effect
  <2>1. /\ op # Idle /\ op.at = "delete" /\ op' = Idle /\ op.key \in Keys /\ UNCHANGED doubt
        /\ p \in pipelines /\ p.key = op.key /\ kind = "mongodb"
        /\ pipelines' = pipelines \ {p} /\ irs' = {r \in irs : r.pipeline # p.id}
        /\ functions' = {f \in functions : f.ir # p.id} /\ pipes' = {f \in pipes : f.ir # p.id}
    BY <1>12 DEF Deletes, Without, At, Rows, history, Inv, Typed, TypeOK
  <2>2. PICK k \in Keys : k = op.key
    BY <2>1
  <2>3. \A j \in Keys : InDoubt(j)' <=> InDoubt(j)
    BY <2>1 DEF InDoubt, Dirty
  <2>4. \A q \in pipelines : q.key # k => q.id # p.id /\ q # p
    BY <2>1, <2>2 DEF Inv, RowsFit, UniqueRows
  <2>5. \A t \in irs : t.id = t.pipeline
    BY <2>1 DEF Inv, RowsFit, UniqueRows
  <2>6. \A j \in Keys \ {k} : SameAt(j)
    BY <2>1, <2>2, <2>3, <2>4, <2>5 DEF SameAt
  <2>7. CASE InDoubt(k)
    BY <2>3, <2>6, <2>7, FailEffect
  <2>8. CASE ~InDoubt(k)
    <3>1. \A q \in pipelines : q.key = k => q = p
      BY <2>1, <2>2, <2>8 DEF Inv, Settled, SettledAt, OnlyRow
    <3>2. Rows(k)' = {}
      BY <2>1, <3>1 DEF Rows
    <3> QED
      BY <2>3, <2>6, <2>8, <3>2, DeleteEffect
  <2> QED
    BY <2>7, <2>8
<1> QED
  BY EachStep, <1>1, <1>2, <1>3, <1>4, <1>5, <1>6, <1>7, <1>8, <1>9, <1>10, <1>11, <1>12 DEF Steps

LEMMA InitStore == Init => Settled /\ Store!Init
<1> SUFFICES ASSUME Init PROVE Settled /\ Store!Init
  OBVIOUS
<1>1. Settled
  BY DEF Init, Settled, SettledAt
<1>2. Values
  BY ValuesHold, InitTyped, InitRows, InitParts
<1>3. \A k \in Keys : ~InDoubt(k) /\ Rows(k) = {}
  BY DEF Init, InDoubt, Dirty, Rows
<1>4. Stored = [k \in Keys |-> None]
  BY <1>2, <1>3, StoredIsFunction DEF Values
<1> QED
  BY <1>1, <1>4 DEF Store!Init

\* For any keys, sizes and number of requests, wherever statements fail and the core crashes:
\* apart from the keys on which an operation was cut short, the pipelines are a store whose
\* operations take effect at once.
THEOREM AtOnce == Spec => StoredAtOnce
<1>1. Init => Inv /\ Store!Init
  BY InitTyped, InitRows, InitParts, InitStore DEF Inv
<1>2. Inv /\ [Next]_vars => (Typed /\ RowsFit /\ PartsFit)'
  BY StepTyped, StepRows, StepParts DEF Inv
<1>3. Inv /\ [Next]_vars => Effect
  BY <1>2, StepEffect
<1>4. Inv /\ [Next]_vars => Inv' /\ [Store!Next]_Stored
  BY <1>2, <1>3 DEF Inv, Effect
<1> QED
  BY <1>1, <1>4, PTL DEF Spec, StoredAtOnce, Store!Spec

-----------------------------------------------------------------------------
(* Answers.                                                                *)

\* While an operation is in progress there is no answer.
Answers == ShownAsStored /\ (op # Idle => answer.to = "none")

LEMMA NoneShown ==
  ASSUME answer'.to # "get"
  PROVE  ShownAsStored'
BY DEF ShownAsStored

LEMMA FinishAnswers ==
  ASSUME NEW ok, NEW found, Finish(ok, found), op.at # "get" \/ found = {}
  PROVE  Answers'
<1>1. op' = Idle /\ answer' = [to |-> op.at, key |-> op.key, ok |-> ok, found |-> found]
  BY DEF Finish
<1>2. answer'.to = op.at /\ answer'.found = found
  BY <1>1
<1> QED
  BY <1>1, <1>2 DEF Answers, ShownAsStored

LEMMA ContinueAnswers ==
  ASSUME Answers, op # Idle, UNCHANGED answer
  PROVE  Answers'
BY NoneShown DEF Answers

LEMMA ReadsWhole ==
  ASSUME Inv, At("get"), NEW a \in Found(op.key)
  PROVE  a.key.ns = op.key.ns /\ (a.key \in doubt \/ a = Whole(a.key, a.rec))
<1>1. PICK p \in Selected(op.key) : \E r \in IrsOf(p) : a = Assembled(p, r)
  BY DEF Found
<1>6. PICK r \in IrsOf(p) : a = Assembled(p, r)
  BY <1>1
<1>2. p \in pipelines /\ p.key.ns = op.key.ns /\ r \in irs /\ r.pipeline = p.id /\ p.key \in Keys
  BY DEF Selected, Rows, IrsOf, Inv, Typed, TypeOK
<1>3. a.key = p.key /\ a.rec = r.rec
  BY <1>6 DEF Assembled
<1>4. CASE p.key \in doubt
  BY <1>2, <1>3, <1>4
<1>5. CASE p.key \notin doubt
  <2>1. OnlyRow(p) /\ CompleteRow(p)
    BY <1>2, <1>5 DEF At, Inv, Settled, SettledAt, InDoubt, Dirty
  <2>2. Complete(r)
    BY <1>2, <2>1 DEF CompleteRow, Inv, RowsFit, UniqueRows
  <2>3. Assembled(p, r) \in UNION {{Assembled(q, t) : t \in IrsOf(q)} : q \in Rows(p.key)}
    BY <1>2 DEF IrsOf, Rows
  <2>4. Assembled(p, r) = Whole(p.key, r.rec)
    BY <1>2, <2>1, <2>2, <2>3, ReadWhole DEF Inv
  <2> QED
    BY <1>2, <1>3, <1>6, <2>4
<1> QED
  BY <1>4, <1>5

LEMMA StepAnswers ==
  ASSUME Inv, Answers, [Next]_vars
  PROVE  Answers'
<1>1. CASE UNCHANGED vars
  BY <1>1 DEF Answers, ShownAsStored, Whole, vars, history
<1>2. ASSUME NEW at \in Requests, NEW k \in Keys, Take(at, k) PROVE Answers'
  BY <1>2, NoneShown DEF Take, NoAnswer, Answers
<1>3. CASE CreateChecks \/ ReplaceFinds \/ ReplaceFindsIr
  BY <1>3, FinishAnswers, ContinueAnswers DEF CreateChecks, ReplaceFinds, ReplaceFindsIr, Goto, Continue, At
<1>4. CASE InsertPipeline \/ DeleteFunctions \/ DeletePipes \/ DeleteIr \/ InsertIr \/ InsertPart
             \/ InsertStatistic \/ InsertData \/ InsertEntry
  BY <1>4, ContinueAnswers DEF InsertPipeline, DeleteFunctions, DeletePipes, DeleteIr, InsertIr, InsertPart,
       InsertStatistic, InsertData, InsertEntry, Goto, Continue, At
<1>5. CASE Inserted \/ StatisticInserted \/ DeletePipeline \/ InsertStatisticDocument \/ DeleteStatistics
  BY <1>5, FinishAnswers DEF Inserted, StatisticInserted, DeletePipeline, InsertStatisticDocument,
       DeleteStatistics
<1>6. CASE CreateDocument \/ ReplaceDocument \/ DeleteDocument
  BY <1>6, FinishAnswers DEF CreateDocument, ReplaceDocument, DeleteDocument
<1>7. CASE GetNamespaces \/ GetStatistics
  BY <1>7, FinishAnswers DEF GetNamespaces, GetStatistics, At
<1>8. CASE StatementFails \/ Crash
  BY <1>8, FinishAnswers, ContinueAnswers DEF StatementFails, Crash
<1>9. CASE GetPipeline
  <2>1. PICK found \in Readable(op.key) : Finish(found # {}, found)
    BY <1>9 DEF GetPipeline
  <2>2. answer' = [to |-> op.at, key |-> op.key, ok |-> found # {}, found |-> found] /\ op' = Idle
    BY <2>1 DEF Finish
  <2>3. answer'.key = op.key /\ answer'.found = found /\ doubt' = doubt
    BY <1>9, <2>2 DEF GetPipeline, history
  <2>4. found \subseteq Found(op.key)
    BY DEF Readable
  <2>5. \A a \in found : a.key.ns = op.key.ns /\ (a.key \in doubt \/ a = Whole(a.key, a.rec))
    BY <1>9, <2>4, ReadsWhole DEF GetPipeline
  <2>6. \A a \in answer'.found : a.key.ns = answer'.key.ns /\ (a.key \in doubt' \/ a = Whole(a.key, a.rec)')
    BY <2>3, <2>5 DEF Whole
  <2> QED
    BY <2>2, <2>6 DEF Answers, ShownAsStored
<1> QED
  BY <1>1, <1>2, <1>3, <1>4, <1>5, <1>6, <1>7, <1>8, <1>9
     DEF Next, CreatePipeline, ReplacePipeline, WritePipeline, CreateStatistic

\* A lookup shows pipelines of its namespace only, and each whole unless an operation on it
\* was cut short, for any keys, sizes, failures and crashes.
THEOREM LookupsShowWhole == Spec => []ShownAsStored
<1>1. Init => Inv /\ Answers
  <2>1. Init => Inv
    BY InitTyped, InitRows, InitParts, InitStore DEF Inv
  <2>2. Init => Answers
    BY DEF Init, Answers, ShownAsStored, NoAnswer
  <2> QED
    BY <2>1, <2>2
<1>2. Inv /\ [Next]_vars => Inv'
  <2>1. Inv /\ [Next]_vars => (Typed /\ RowsFit /\ PartsFit)'
    BY StepTyped, StepRows, StepParts DEF Inv
  <2> QED
    BY <2>1, StepEffect DEF Inv, Effect
<1>3. Inv /\ Answers /\ [Next]_vars => Answers'
  BY StepAnswers
<1>4. Answers => ShownAsStored
  BY DEF Answers
<1> QED
  BY <1>1, <1>2, <1>3, <1>4, PTL DEF Spec
=============================================================================
