--------------------------- MODULE SchedulerProofs ---------------------------
(***************************************************************************)
(* Proofs about Scheduler: its types, the order in which queued jobs reach *)
(* the processor thread, that no job is queued twice in a minute, and that *)
(* a deleted job is queued once at the most.                               *)
(***************************************************************************)
EXTENDS Scheduler, SequenceTheorems, TLAPS

USE SchedulerAssumption
-----------------------------------------------------------------------------
(* Types. *)

\* The cases of a step: every action of the specification, or a stutter.
Step ==
  \/ Tick
  \/ WatchGets \/ WatchScans \/ (\E j \in watch.todo : WatchChecks(j)) \/ WatchAppends \/ WatchSleeps
  \/ LoopLocks \/ LoopPops \/ LoopSends \/ LoopSucceeds \/ LoopFails \/ LoopUnlocks
  \/ MainStores \/ MainLocks \/ MainCopies \/ MainGets \/ MainFinds
  \/ MainCreatesJob \/ MainDeletesJob
  \/ (\E kind \in AskKinds, f \in Filters, m \in Intervals : Issue(kind, f, m))
  \/ (\E ok \in BOOLEAN : ProcessorAnswers(ok))
  \/ UNCHANGED vars

LEMMA StepCases == [Next]_vars => Step
BY DEF Next, Step, Watch, Loop, MainServes

\* What a delete takes out of the database was in it.
LEMMA DeletableType ==
  ASSUME jobs \in SUBSET Job, NEW f, NEW D \in Deletable(f)
  PROVE  D \subseteq jobs
BY DEF Deletable, Matching

LEMMA InitType == Init => TypeOK
<1> SUFFICES ASSUME Init PROVE TypeOK
  OBVIOUS
<1>1. jobs \in SUBSET Job
  BY DEF Init, Job, Filters
<1>2. NoAsk \in Ask
  BY DEF NoAsk, Ask, AskKinds, Filters
<1>3. /\ watch \in [pc : {"sleep", "get", "scan", "lock"}, todo : SUBSET Job,
                    slept : Nat, row : Nat, due : Nat]
      /\ loop \in [pc : {"idle", "check", "send", "poll", "done"}, entry : Nat]
      /\ main \in [pc : {"select", "copy", "get"}, ask : Ask]
  BY <1>2 DEF Init
<1>4. /\ queue \in Seq(Nat) /\ queued \in Seq(Entry)
      /\ c18 \in Seq(Nat) /\ c19 \in Seq(Reply) /\ c20 \in Seq(Ask)
      /\ provisioned \in Seq(Nat)
      /\ answers \in Seq([n : Nat, kind : AskKinds, filter : Filters, ok : BOOLEAN])
  BY DEF Init
<1>5. /\ clock \in Nat /\ issued \in Nat
      /\ gone \in SUBSET Job /\ lastRow \in Nat
      /\ condition \in Filters
      /\ writer \in BOOLEAN
      /\ readers \in SUBSET Readers /\ waiting \in SUBSET Readers
      /\ table \in SUBSET Reply
      /\ panicked \in BOOLEAN
  BY DEF Init, Filters
<1> QED
  BY <1>1, <1>3, <1>4, <1>5 DEF TypeOK

LEMMA StepType == TypeOK /\ [Next]_vars => TypeOK'
<1> SUFFICES ASSUME TypeOK, Step PROVE TypeOK'
  BY StepCases
<1> USE DEF TypeOK, Readers
<1>t. CASE Tick
  BY <1>t DEF Tick, restVars, channelVars, queueVars, lockVars, jobVars
<1>wg. CASE WatchGets
  BY <1>wg DEF WatchGets, Builds, Filters, restVars, channelVars, queueVars, lockVars, jobVars
<1>ws. CASE WatchScans
  BY <1>ws DEF WatchScans, Matching, restVars, channelVars, queueVars, lockVars, jobVars
<1>wc. CASE \E j \in watch.todo : WatchChecks(j)
  <2> PICK j \in watch.todo : WatchChecks(j)
    BY <1>wc
  <2>1. j.row \in Nat
    BY DEF Job
  <2>2. watch.todo \ {j} \in SUBSET Job /\ watch.slept \in Nat
    OBVIOUS
  <2>3. watch' \in [pc : {"sleep", "get", "scan", "lock"}, todo : SUBSET Job,
                   slept : Nat, row : Nat, due : Nat]
    <3>1. CASE UNCHANGED watch
      BY <3>1
    <3>2. CASE watch' = [watch EXCEPT !.todo = @ \ {j}]
      BY <2>2, <3>2
    <3>3. CASE watch' = [pc |-> "lock", todo |-> watch.todo \ {j}, slept |-> watch.slept,
                         row |-> j.row, due |-> clock]
      BY <2>1, <2>2, <3>3
    <3> QED
      BY <3>1, <3>2, <3>3 DEF WatchChecks
  <2>4. writer' \in BOOLEAN /\ panicked' \in BOOLEAN
    BY DEF WatchChecks
  <2> QED
    BY <2>3, <2>4 DEF WatchChecks, restVars, channelVars, queueVars, jobVars
<1>wa. CASE WatchAppends
  <2> DEFINE e == [row |-> watch.row, minute |-> watch.due,
                   late |-> \E j \in gone : j.row = watch.row]
  <2>1. e \in Entry
    BY DEF Entry
  <2>2. queued' \in Seq(Entry) /\ queue' \in Seq(Nat)
    BY <1>wa, <2>1 DEF WatchAppends
  <2> QED
    BY <1>wa, <2>2 DEF WatchAppends, Unlock, restVars, channelVars, jobVars
<1>wz. CASE WatchSleeps
  BY <1>wz DEF WatchSleeps, restVars, channelVars, queueVars, lockVars, jobVars
<1>ll. CASE LoopLocks
  BY <1>ll DEF LoopLocks, RLock, restVars, channelVars, queueVars, lockVars, jobVars
<1>lp. CASE LoopPops
  BY <1>lp DEF LoopPops, Pop, restVars, channelVars, lockVars, jobVars
<1>ls. CASE LoopSends
  <2>1. loop.entry \in Nat
    OBVIOUS
  <2>2. c18' \in Seq(Nat)
    BY <1>ls, <2>1 DEF LoopSends
  <2>3. loop' \in [pc : {"idle", "check", "send", "poll", "done"}, entry : Nat]
    BY <1>ls DEF LoopSends
  <2> QED
    BY <1>ls, <2>2, <2>3 DEF LoopSends, restVars, queueVars, lockVars, jobVars
<1>lo. CASE LoopSucceeds
  BY <1>lo DEF LoopSucceeds, restVars, channelVars, queueVars, lockVars, jobVars
<1>lf. CASE LoopFails
  BY <1>lf DEF LoopFails, RLock, restVars, channelVars, queueVars, lockVars, jobVars
<1>lu. CASE LoopUnlocks
  BY <1>lu DEF LoopUnlocks, RUnlock, restVars, channelVars, queueVars, lockVars, jobVars
<1>ms. CASE MainStores
  BY <1>ms DEF MainStores, WriteTable, restVars, queueVars, lockVars, jobVars
<1>h. ASSUME c20 # <<>>
      PROVE  Head(c20) \in Ask /\ Tail(c20) \in Seq(Ask)
  BY <1>h
<1>a. ASSUME NEW a \in Ask, NEW ok \in BOOLEAN, Answer(a, ok)
      PROVE  answers' \in Seq([n : Nat, kind : AskKinds, filter : Filters, ok : BOOLEAN])
  <2>1. [n |-> a.n, kind |-> a.kind, filter |-> a.filter, ok |-> ok]
          \in [n : Nat, kind : AskKinds, filter : Filters, ok : BOOLEAN]
    BY DEF Ask
  <2> QED
    BY <1>a, <2>1 DEF Answer
<1>ml. CASE MainLocks
  BY <1>ml, <1>h DEF MainLocks, MainTakes, RLock, restVars, channelVars, queueVars, lockVars, jobVars
<1>mc. CASE MainCopies
  BY <1>mc, <1>a DEF MainCopies, RUnlock, channelVars, queueVars, lockVars, jobVars
<1>mg. CASE MainGets
  BY <1>mg, <1>h DEF MainGets, MainTakes, Builds, Ask, channelVars, queueVars, lockVars, jobVars
<1>mf. CASE MainFinds
  BY <1>mf, <1>a DEF MainFinds, channelVars, queueVars, lockVars, jobVars
<1>mn. CASE MainCreatesJob
  <2> DEFINE a == Head(c20)
  <2>1. a \in Ask /\ Tail(c20) \in Seq(Ask)
    BY <1>mn, <1>h DEF MainCreatesJob, MainWrites, MainTakes
  <2>2. Answer(a, ~Refuses) /\ (~Refuses) \in BOOLEAN
    BY <1>mn DEF MainCreatesJob, Refuses
  <2>3. answers' \in Seq([n : Nat, kind : AskKinds, filter : Filters, ok : BOOLEAN])
    BY <1>a, <2>1, <2>2
  <2>4. lastRow' \in Nat /\ jobs' \in SUBSET Job
    <3>1. CASE Refuses
      BY <1>mn, <3>1 DEF MainCreatesJob
    <3>2. CASE ~Refuses
      <4>1. [row |-> lastRow + 1, id |-> a.filter, minute |-> a.minute] \in Job
        BY <2>1, SMTT(30) DEF Ask, Job
      <4> QED
        BY <1>mn, <3>2, <4>1 DEF MainCreatesJob
    <3> QED
      BY <3>1, <3>2
  <2>5. condition' \in Filters
    BY <1>mn DEF MainCreatesJob, Builds, Filters
  <2> QED
    BY <1>mn, <2>1, <2>3, <2>4, <2>5
       DEF MainCreatesJob, MainWrites, MainTakes, channelVars, queueVars, lockVars
<1>md. CASE MainDeletesJob
  <2> DEFINE a == Head(c20)
  <2>1. a \in Ask /\ Tail(c20) \in Seq(Ask)
    BY <1>md, <1>h DEF MainDeletesJob, MainWrites, MainTakes
  <2> PICK D \in Deletable(a.filter) : /\ jobs' = jobs \ D
                                       /\ gone' = gone \cup D
                                       /\ Answer(a, Store = "mongodb" \/ D # {})
    BY <1>md DEF MainDeletesJob
  <2>2. D \subseteq jobs
    BY DeletableType
  <2>3. answers' \in Seq([n : Nat, kind : AskKinds, filter : Filters, ok : BOOLEAN])
    <3> DEFINE ok == Store = "mongodb" \/ D # {}
    <3>1. ok \in BOOLEAN
      OBVIOUS
    <3>2. Answer(a, ok)
      OBVIOUS
    <3> HIDE DEF ok
    <3> QED
      BY <1>a, <2>1, <3>1, <3>2
  <2>4. condition' \in Filters
    BY <1>md, <2>1 DEF MainDeletesJob, Builds, Filters, Ask
  <2> QED
    BY <1>md, <2>1, <2>2, <2>3, <2>4
       DEF MainDeletesJob, MainWrites, MainTakes, channelVars, queueVars, lockVars
<1>i. CASE \E kind \in AskKinds, f \in Filters, m \in Intervals : Issue(kind, f, m)
  <2> PICK kind \in AskKinds, f \in Filters, m \in Intervals : Issue(kind, f, m)
    BY <1>i
  <2>1. [n |-> issued + 1, kind |-> kind, filter |-> f, minute |-> m] \in Ask
    BY DEF Ask
  <2>2. c20' \in Seq(Ask)
    BY <2>1 DEF Issue
  <2> QED
    BY <2>2 DEF Issue, channelVars, queueVars, lockVars, jobVars
<1>p. CASE \E ok \in BOOLEAN : ProcessorAnswers(ok)
  <2> PICK ok \in BOOLEAN : ProcessorAnswers(ok)
    BY <1>p
  <2>1. Head(c18) \in Nat /\ Tail(c18) \in Seq(Nat)
    BY DEF ProcessorAnswers
  <2>2. [entry |-> Head(c18), ok |-> ok] \in Reply
    BY <2>1 DEF Reply
  <2>3. c18' \in Seq(Nat) /\ c19' \in Seq(Reply) /\ provisioned' \in Seq(Nat)
    <3>1. c18' = Tail(c18) /\ c19' = Append(c19, [entry |-> Head(c18), ok |-> ok])
          /\ provisioned' = Append(provisioned, Head(c18))
      BY DEF ProcessorAnswers
    <3>2. c19 \in Seq(Reply) /\ provisioned \in Seq(Nat)
      OBVIOUS
    <3> QED
      BY ONLY <2>1, <2>2, <3>1, <3>2
  <2>4. UNCHANGED <<clock, jobVars, condition, watch, loop, main, lockVars, queueVars, table,
                    restVars, panicked>>
    BY DEF ProcessorAnswers
  <2> QED
    BY <2>3, <2>4 DEF restVars, queueVars, lockVars, jobVars
<1>u. CASE UNCHANGED vars
  BY <1>u DEF vars, restVars, channelVars, queueVars, lockVars, jobVars
<1> QED
  BY <1>t, <1>wg, <1>ws, <1>wc, <1>wa, <1>wz, <1>ll, <1>lp, <1>ls, <1>lo, <1>lf, <1>lu, <1>ms,
     <1>ml, <1>mc, <1>mg, <1>mf, <1>mn, <1>md, <1>i, <1>p, <1>u DEF Step

\* Every variable of the scheduler keeps its type (the state of Watch, Loop and the main
\* thread, the lock, the channels and the database).
THEOREM TypeCorrect == Spec => []TypeOK
BY InitType, StepType, PTL DEF Spec
-----------------------------------------------------------------------------
(* Order. *)

\* An entry Loop has taken off the queue and not yet sent.
InHand == IF loop.pc = "send" THEN 1 ELSE 0

\* What was queued is, in this order: received by the processor thread, on its way there,
\* in Loop's hand, in the queue.
OrderInv ==
  /\ Len(provisioned) + Len(c18) + InHand + Len(queue) = Len(queued)
  /\ ProvisionedInOrder
  /\ \A i \in 1..Len(c18) : c18[i] = Len(provisioned) + i
  /\ loop.pc = "send" => loop.entry = Len(provisioned) + Len(c18) + 1
  /\ \A i \in 1..Len(queue) : queue[i] = Len(provisioned) + Len(c18) + InHand + i

orderVars == <<queue, queued, c18, provisioned, loop>>

LEMMA InitOrder == Init => OrderInv
BY DEF Init, OrderInv, InHand, ProvisionedInOrder

\* A sequence that counts on from a number does so after an Append of the next one.
LEMMA AppendCounts ==
  ASSUME NEW s \in Seq(Nat), NEW b \in Nat,
         \A i \in 1..Len(s) : s[i] = b + i
  PROVE  \A i \in 1..Len(Append(s, b + Len(s) + 1)) : Append(s, b + Len(s) + 1)[i] = b + i
<1> DEFINE h == b + Len(s) + 1
           t == Append(s, h)
<1>1. h \in Nat
  OBVIOUS
<1> HIDE DEF h
<1>2. /\ Len(t) = Len(s) + 1
      /\ \A i \in 1..Len(s) : t[i] = s[i]
      /\ t[Len(s) + 1] = h
  BY <1>1
<1> HIDE DEF t
<1>3. \A i \in 1..Len(t) : t[i] = b + i
  BY <1>2 DEF h
<1> QED
  BY <1>3 DEF h, t

LEMMA StepOrder == TypeOK /\ OrderInv /\ [Next]_vars => OrderInv'
<1> SUFFICES ASSUME TypeOK, OrderInv, Step PROVE OrderInv'
  BY StepCases
<1> USE DEF OrderInv, InHand, ProvisionedInOrder
<1>ty. /\ queue \in Seq(Nat) /\ queued \in Seq(Entry) /\ c18 \in Seq(Nat) /\ provisioned \in Seq(Nat)
       /\ loop \in [pc : {"idle", "check", "send", "poll", "done"}, entry : Nat]
  BY DEF TypeOK
\* Between "send" and the other program counters of Loop only two actions go.
<1>pc. ASSUME UNCHANGED <<queue, queued, c18, provisioned>>, loop.pc # "send", loop'.pc # "send"
       PROVE  OrderInv'
  BY <1>pc
<1>same. ASSUME UNCHANGED orderVars PROVE OrderInv'
  BY <1>same DEF orderVars
<1>wa. CASE WatchAppends
  <2>1. /\ queue' = Append(queue, Len(queued) + 1)
        /\ Len(queued') = Len(queued) + 1
        /\ UNCHANGED <<c18, provisioned, loop>>
    BY <1>wa, <1>ty DEF WatchAppends, channelVars
  <2>2. Len(queue') = Len(queue) + 1
    BY <2>1, <1>ty
  <2>4. \A i \in 1..Len(queue') : queue'[i] = Len(provisioned) + Len(c18) + InHand + i
    <3> DEFINE b == Len(provisioned) + Len(c18) + InHand
    <3>1. b \in Nat /\ queue' = Append(queue, b + Len(queue) + 1)
      <4>1. b \in Nat /\ b + Len(queue) = Len(queued)
        BY <1>ty
      <4>2. queue' = Append(queue, Len(queued) + 1)
        BY <2>1
      <4> HIDE DEF b, OrderInv
      <4> QED
        BY <4>1, <4>2
    <3>2. \A i \in 1..Len(queue) : queue[i] = b + i
      OBVIOUS
    <3> HIDE DEF b
    <3>3. \A i \in 1..Len(queue') : queue'[i] = b + i
      <4> HIDE DEF OrderInv, InHand, ProvisionedInOrder
      <4>1. queue \in Seq(Nat)
        BY <1>ty
      <4>2. \A i \in 1..Len(Append(queue, b + Len(queue) + 1)) :
              Append(queue, b + Len(queue) + 1)[i] = b + i
        BY ONLY <3>1, <3>2, <4>1, AppendCounts
      <4> QED
        BY <3>1, <4>2, Zenon
    <3> QED
      BY <3>3 DEF b
  <2>5. Len(provisioned) + Len(c18) + InHand + Len(queue') = Len(queued')
    BY <2>1, <2>2, <1>ty
  <2> QED
    BY <2>1, <2>4, <2>5
<1>lp. CASE LoopPops
  <2>1. /\ queue # <<>> /\ queue' = Tail(queue)
        /\ loop.pc = "check" /\ loop' = [pc |-> "send", entry |-> Head(queue)]
        /\ UNCHANGED <<queued, c18, provisioned>>
    BY <1>lp DEF LoopPops, Pop, channelVars
  <2>2. /\ Len(queue) >= 1 /\ Len(queue') = Len(queue) - 1
        /\ Head(queue) = queue[1]
        /\ \A i \in 1..Len(queue') : queue'[i] = queue[i + 1]
    BY <2>1, <1>ty
  <2>3. queue[1] = Len(provisioned) + Len(c18) + 1
    BY <2>1, <2>2, <1>ty
  <2>4. \A i \in 1..Len(queue') : queue'[i] = Len(provisioned) + Len(c18) + 1 + i
    <3> TAKE i \in 1..Len(queue')
    <3>1. queue[i + 1] = Len(provisioned) + Len(c18) + (i + 1)
      BY <2>1, <2>2, <1>ty
    <3> QED
      BY <2>2, <3>1, <1>ty
  <2> QED
    BY <2>1, <2>2, <2>3, <2>4, <1>ty
<1>ls. CASE LoopSends
  <2>1. /\ c18' = Append(c18, loop.entry)
        /\ loop.pc = "send" /\ loop'.pc = "poll"
        /\ UNCHANGED <<queue, queued, provisioned>>
    BY <1>ls, <1>ty DEF LoopSends, queueVars
  <2>2. loop.entry = Len(provisioned) + Len(c18) + 1
    BY <2>1
  <2>3. \A i \in 1..Len(c18') : c18'[i] = Len(provisioned) + i
    <3> DEFINE b == Len(provisioned)
    <3>1. b \in Nat /\ c18' = Append(c18, b + Len(c18) + 1)
      BY <2>1, <2>2, <1>ty
    <3>2. \A i \in 1..Len(c18) : c18[i] = b + i
      OBVIOUS
    <3> HIDE DEF b
    <3>3. \A i \in 1..Len(c18') : c18'[i] = b + i
      <4> HIDE DEF OrderInv, InHand, ProvisionedInOrder
      <4>1. c18 \in Seq(Nat)
        BY <1>ty
      <4>2. \A i \in 1..Len(Append(c18, b + Len(c18) + 1)) :
              Append(c18, b + Len(c18) + 1)[i] = b + i
        BY ONLY <3>1, <3>2, <4>1, AppendCounts
      <4> QED
        BY <3>1, <4>2, Zenon
    <3> QED
      BY <3>3 DEF b
  <2>4. Len(c18') = Len(c18) + 1
    BY <2>1, <1>ty
  <2>5. Len(provisioned') + Len(c18') + InHand' + Len(queue') = Len(queued')
    BY <2>1, <2>4, <1>ty
  <2>6. \A i \in 1..Len(queue') : queue'[i] = Len(provisioned') + Len(c18') + InHand' + i
    BY <2>1, <2>4, <1>ty
  <2> QED
    BY <2>1, <2>3, <2>5, <2>6
<1>p. CASE \E ok \in BOOLEAN : ProcessorAnswers(ok)
  <2>1. /\ c18 # <<>> /\ c18' = Tail(c18)
        /\ provisioned' = Append(provisioned, Head(c18))
        /\ UNCHANGED <<queue, queued, loop>>
    BY <1>p DEF ProcessorAnswers, queueVars
  <2>2. /\ Len(c18) >= 1 /\ Len(c18') = Len(c18) - 1
        /\ Head(c18) = c18[1]
        /\ \A i \in 1..Len(c18') : c18'[i] = c18[i + 1]
    BY <2>1, <1>ty
  <2>3. Head(c18) = Len(provisioned) + 1
    BY <2>1, <2>2, <1>ty
  <2>4. Len(provisioned') = Len(provisioned) + 1 /\ ProvisionedInOrder'
    <3> DEFINE h == Len(provisioned) + 1
    <3>1. provisioned' = Append(provisioned, h) /\ h \in Nat
      BY <2>1, <2>3, <1>ty
    <3>2. \A i \in 1..Len(provisioned') :
             provisioned'[i] = IF i <= Len(provisioned) THEN provisioned[i] ELSE h
      BY <3>1, <1>ty
    <3> QED
      BY <3>1, <3>2, <1>ty
  <2>5. \A i \in 1..Len(c18') : c18'[i] = Len(provisioned') + i
    <3> TAKE i \in 1..Len(c18')
    <3>1. c18[i + 1] = Len(provisioned) + (i + 1)
      BY <2>1, <2>2, <1>ty
    <3> QED
      BY <2>2, <2>4, <3>1, <1>ty
  <2>6. Len(provisioned') + Len(c18') = Len(provisioned) + Len(c18)
    BY <2>2, <2>4, <1>ty
  <2>7. /\ loop'.pc = "send" => loop'.entry = Len(provisioned') + Len(c18') + 1
        /\ Len(provisioned') + Len(c18') + InHand' + Len(queue') = Len(queued')
    BY <2>1, <2>6, <1>ty
  <2>8. \A i \in 1..Len(queue') : queue'[i] = Len(provisioned') + Len(c18') + InHand' + i
    BY <2>1, <2>6, <1>ty
  <2> QED
    BY <2>4, <2>5, <2>7, <2>8
<1>loop. CASE LoopLocks \/ LoopSucceeds \/ LoopFails \/ LoopUnlocks
  BY <1>loop, <1>pc, <1>ty
     DEF LoopLocks, LoopSucceeds, LoopFails, LoopUnlocks, queueVars, channelVars
<1>watch. CASE \/ Tick \/ WatchGets \/ WatchScans \/ WatchSleeps
               \/ \E j \in watch.todo : WatchChecks(j)
  BY <1>watch, <1>same
     DEF Tick, WatchGets, WatchScans, WatchSleeps, WatchChecks, orderVars, queueVars, channelVars
<1>main. CASE MainStores \/ MainLocks \/ MainCopies \/ MainGets \/ MainFinds
  BY <1>main, <1>same
     DEF MainStores, MainLocks, MainCopies, MainGets, MainFinds, MainTakes,
         orderVars, queueVars, channelVars
<1>write. CASE \/ MainCreatesJob \/ MainDeletesJob
               \/ \E kind \in AskKinds, f \in Filters, m \in Intervals : Issue(kind, f, m)
  BY <1>write, <1>same
     DEF MainCreatesJob, MainDeletesJob, MainWrites, MainTakes, Issue,
         orderVars, queueVars, channelVars
<1>u. CASE UNCHANGED vars
  BY <1>u, <1>same DEF vars, orderVars, queueVars, channelVars
<1> QED
  BY <1>wa, <1>lp, <1>ls, <1>p, <1>loop, <1>watch, <1>main, <1>write, <1>u DEF Step

\* The processor thread receives the queued jobs in order, each at most once: Watch appends
\* while Loop pops, and Loop goes on after a timeout whose answer may still come.
THEOREM InOrder == Spec => []ProvisionedInOrder
<1>1. OrderInv => ProvisionedInOrder
  BY DEF OrderInv
<1> QED
  BY InitType, StepType, InitOrder, StepOrder, <1>1, PTL DEF Spec
-----------------------------------------------------------------------------
(* Once a minute. *)

Rows == \A i, j \in jobs : i.row = j.row => i = j
Given == \A j \in jobs : j.row <= lastRow

\* While Watch looks through its jobs, those it still has to look at were queued in earlier
\* minutes only: no later than when it last slept, which was before this minute.
ScanInv ==
  /\ watch.slept <= clock
  /\ watch.pc # "sleep" => watch.slept < clock
  /\ \A e \in 1..Len(queued) : queued[e].minute <= clock
  /\ watch.pc \in {"sleep", "get"} =>
       \A e \in 1..Len(queued) : queued[e].minute <= watch.slept
  /\ watch.pc \in {"scan", "lock"} =>
       /\ \A i, j \in watch.todo : i.row = j.row => i = j
       /\ \A j \in watch.todo, e \in 1..Len(queued) :
            queued[e].row = j.row => queued[e].minute <= watch.slept
  /\ watch.pc = "lock" =>
       /\ watch.slept < watch.due /\ watch.due <= clock
       /\ \A j \in watch.todo : j.row # watch.row
       /\ \A e \in 1..Len(queued) :
            queued[e].row = watch.row => queued[e].minute <= watch.slept

MinuteInv == Rows /\ Given /\ ScanInv /\ QueuedOncePerMinute

LEMMA InitMinute == Init => MinuteInv
BY DEF Init, MinuteInv, Rows, Given, ScanInv, QueuedOncePerMinute

LEMMA StepMinute == TypeOK /\ MinuteInv /\ [Next]_vars => MinuteInv'
<1> SUFFICES ASSUME TypeOK, MinuteInv, Step PROVE MinuteInv'
  BY StepCases
<1>ty. /\ clock \in Nat /\ jobs \in SUBSET Job /\ lastRow \in Nat
       /\ queued \in Seq(Entry)
       /\ watch \in [pc : {"sleep", "get", "scan", "lock"}, todo : SUBSET Job,
                     slept : Nat, row : Nat, due : Nat]
  BY DEF TypeOK
<1>en. \A e \in 1..Len(queued) : queued[e].minute \in Nat /\ queued[e].row \in Nat
  <2> TAKE e \in 1..Len(queued)
  <2>1. queued[e] \in Entry
    BY <1>ty, ElementOfSeq
  <2> QED
    BY <2>1 DEF Entry
<1>job. \A j \in jobs : j.row \in Nat
  BY <1>ty DEF Job
<1>todo. \A j \in watch.todo : j.row \in Nat
  BY <1>ty DEF Job
<1>rows. ASSUME UNCHANGED <<jobs, lastRow>> PROVE Rows' /\ Given'
  BY <1>rows DEF MinuteInv, Rows, Given
<1>once. ASSUME UNCHANGED queued PROVE QueuedOncePerMinute'
  BY <1>once DEF MinuteInv, QueuedOncePerMinute
<1>scan. ASSUME UNCHANGED <<clock, watch, queued>> PROVE ScanInv'
  BY <1>scan DEF MinuteInv, ScanInv
<1>t. CASE Tick
  <2>1. ScanInv'
    BY <1>t, <1>ty, <1>en DEF Tick, MinuteInv, ScanInv, queueVars
  <2> QED
    BY <1>t, <2>1, <1>rows, <1>once DEF Tick, MinuteInv, jobVars, queueVars
<1>wg. CASE WatchGets
  <2>1. ScanInv'
    BY <1>wg, <1>ty, <1>en DEF WatchGets, Slept, MinuteInv, ScanInv, queueVars
  <2> QED
    BY <1>wg, <2>1, <1>rows, <1>once DEF WatchGets, MinuteInv, jobVars, queueVars
<1>ws. CASE WatchScans
  <2>1. watch.pc = "get" /\ watch'.pc = "scan" /\ watch'.slept = watch.slept /\ watch'.todo \subseteq jobs
    BY <1>ws, <1>ty DEF WatchScans, Matching
  <2>2. UNCHANGED <<clock, queued>>
    BY <1>ws DEF WatchScans, queueVars
  <2>3. ScanInv'
    BY <2>1, <2>2, <1>ty, <1>en DEF MinuteInv, ScanInv, Rows
  <2> QED
    BY <1>ws, <2>3, <1>rows, <1>once DEF WatchScans, MinuteInv, jobVars, queueVars
<1>wc. CASE \E j \in watch.todo : WatchChecks(j)
  <2> PICK j \in watch.todo : WatchChecks(j)
    BY <1>wc
  <2>1. UNCHANGED <<clock, queued>> /\ watch.pc = "scan"
    BY DEF WatchChecks, queueVars
  <2>2. CASE UNCHANGED watch
    BY <2>1, <2>2, <1>scan, <1>rows, <1>once DEF WatchChecks, MinuteInv, jobVars
  <2>3. CASE watch' = [watch EXCEPT !.todo = @ \ {j}]
    <3>1. watch'.pc = "scan" /\ watch'.slept = watch.slept /\ watch'.todo = watch.todo \ {j}
      BY <2>1, <2>3, <1>ty
    <3>2. ScanInv'
      BY <2>1, <3>1, <1>ty, <1>en DEF MinuteInv, ScanInv
    <3> QED
      BY <3>2, <2>1, <1>rows, <1>once DEF WatchChecks, MinuteInv, jobVars
  <2>4. CASE watch' = [pc |-> "lock", todo |-> watch.todo \ {j}, slept |-> watch.slept,
                       row |-> j.row, due |-> clock]
    <3>1. /\ watch'.pc = "lock" /\ watch'.slept = watch.slept /\ watch'.todo = watch.todo \ {j}
          /\ watch'.row = j.row /\ watch'.due = clock
      BY <2>4
    <3>2. ScanInv'
      BY <2>1, <3>1, <1>ty, <1>en, <1>todo DEF MinuteInv, ScanInv
    <3> QED
      BY <3>2, <2>1, <1>rows, <1>once DEF WatchChecks, MinuteInv, jobVars
  <2> QED
    BY <2>2, <2>3, <2>4 DEF WatchChecks
<1>wa. CASE WatchAppends
  <2> DEFINE e == [row |-> watch.row, minute |-> watch.due,
                   late |-> \E j \in gone : j.row = watch.row]
  <2>1. /\ watch.pc = "lock" /\ watch'.pc = "scan"
        /\ watch'.slept = watch.slept /\ watch'.todo = watch.todo
        /\ UNCHANGED <<clock, jobs, lastRow>>
        /\ queued' = Append(queued, e)
    BY <1>wa, <1>ty DEF WatchAppends, jobVars
  <2>2. e \in Entry /\ e.row = watch.row /\ e.minute = watch.due
    BY <1>ty DEF Entry
  <2> HIDE DEF e
  <2>3. /\ Len(queued') = Len(queued) + 1
        /\ \A i \in 1..Len(queued') : queued'[i] = IF i <= Len(queued) THEN queued[i] ELSE e
    BY <2>1, <2>2, <1>ty
  <2>4. ScanInv'
    BY <2>1, <2>2, <2>3, <1>ty, <1>en DEF MinuteInv, ScanInv
  <2>5. QueuedOncePerMinute'
    <3>1. \A i \in 1..Len(queued) : queued[i].row = watch.row => queued[i].minute # e.minute
      BY <2>1, <2>2, <1>ty, <1>en DEF MinuteInv, ScanInv
    <3> SUFFICES ASSUME NEW i \in 1..Len(queued'), NEW j \in 1..Len(queued'), i # j,
                        queued'[i].row = queued'[j].row
                 PROVE  queued'[i].minute # queued'[j].minute
      BY DEF QueuedOncePerMinute
    <3>l. Len(queued) \in Nat
      BY <1>ty
    <3>2. CASE i <= Len(queued) /\ j <= Len(queued)
      <4>1. i \in 1..Len(queued) /\ j \in 1..Len(queued)
        BY <3>2, <3>l
      <4>2. queued'[i] = queued[i] /\ queued'[j] = queued[j]
        BY <2>3, <3>2
      <4> QED
        BY <4>1, <4>2 DEF MinuteInv, QueuedOncePerMinute
    <3>3. CASE i > Len(queued)
      <4>1. j \in 1..Len(queued) /\ queued'[j] = queued[j] /\ queued'[i] = e
        BY ONLY <2>3, <3>3, <3>l, i # j
      <4> QED
        BY ONLY <2>2, <3>1, <4>1, queued'[i].row = queued'[j].row
    <3>4. CASE j > Len(queued)
      <4>1. i \in 1..Len(queued) /\ queued'[i] = queued[i] /\ queued'[j] = e
        BY ONLY <2>3, <3>4, <3>l, i # j
      <4> QED
        BY ONLY <2>2, <3>1, <4>1, queued'[i].row = queued'[j].row
    <3> QED
      BY <3>2, <3>3, <3>4, <3>l
  <2> QED
    BY <2>1, <2>4, <2>5, <1>rows DEF MinuteInv
<1>wz. CASE WatchSleeps
  <2>1. watch'.pc = "sleep" /\ watch'.slept = clock /\ UNCHANGED <<clock, queued>>
    BY <1>wz, <1>ty DEF WatchSleeps, queueVars
  <2>2. ScanInv'
    BY <2>1, <1>ty, <1>en DEF MinuteInv, ScanInv
  <2> QED
    BY <1>wz, <2>1, <2>2, <1>rows, <1>once DEF WatchSleeps, MinuteInv, jobVars
<1>mn. CASE MainCreatesJob
  <2>1. UNCHANGED <<clock, watch, queued>>
    BY <1>mn DEF MainCreatesJob, MainWrites, MainTakes, queueVars
  <2>2. Rows' /\ Given'
    <3>1. CASE Refuses
      BY <1>mn, <3>1, <1>rows DEF MainCreatesJob
    <3>2. CASE ~Refuses
      <4> DEFINE n == [row |-> lastRow', id |-> Head(c20).filter, minute |-> Head(c20).minute]
      <4>1. lastRow' = lastRow + 1 /\ jobs' = jobs \cup {n} /\ n.row = lastRow + 1
        BY <1>mn, <3>2 DEF MainCreatesJob
      <4> HIDE DEF n
      <4>2. \A j \in jobs : j.row # n.row
        BY <4>1, <1>job, <1>ty DEF MinuteInv, Given
      <4> QED
        BY <4>1, <4>2, <1>job, <1>ty DEF MinuteInv, Given, Rows
    <3> QED
      BY <3>1, <3>2
  <2> QED
    BY <2>1, <2>2, <1>scan, <1>once DEF MinuteInv
<1>md. CASE MainDeletesJob
  <2>1. UNCHANGED <<clock, watch, queued, lastRow>>
    BY <1>md DEF MainDeletesJob, MainWrites, MainTakes, queueVars
  <2>2. jobs' \subseteq jobs
    BY <1>md DEF MainDeletesJob
  <2>3. Rows' /\ Given'
    BY <2>1, <2>2 DEF MinuteInv, Given, Rows
  <2> QED
    BY <2>1, <2>3, <1>scan, <1>once DEF MinuteInv
<1>loop. CASE LoopLocks \/ LoopPops \/ LoopSends \/ LoopSucceeds \/ LoopFails \/ LoopUnlocks
  BY <1>loop, <1>rows, <1>once, <1>scan
     DEF LoopLocks, LoopPops, LoopSends, LoopSucceeds, LoopFails, LoopUnlocks, MinuteInv,
         jobVars, queueVars
<1>main. CASE \/ MainStores \/ MainLocks \/ MainCopies \/ MainGets \/ MainFinds
              \/ \E kind \in AskKinds, f \in Filters, m \in Intervals : Issue(kind, f, m)
              \/ \E ok \in BOOLEAN : ProcessorAnswers(ok)
  BY <1>main, <1>rows, <1>once, <1>scan
     DEF MainStores, MainLocks, MainCopies, MainGets, MainFinds, MainTakes, Issue,
         ProcessorAnswers, MinuteInv, jobVars, queueVars
<1>u. CASE UNCHANGED vars
  BY <1>u, <1>rows, <1>once, <1>scan DEF vars, MinuteInv, jobVars, queueVars
<1> QED
  BY <1>t, <1>wg, <1>ws, <1>wc, <1>wa, <1>wz, <1>mn, <1>md, <1>loop, <1>main, <1>u DEF Step

\* No job is queued twice in one minute, however long Watch waits for the lock and whatever
\* is created and deleted meanwhile: the sleep between two scans sees to it.
THEOREM OncePerMinute == Spec => []QueuedOncePerMinute
<1>1. MinuteInv => QueuedOncePerMinute
  BY DEF MinuteInv
<1> QED
  BY InitType, StepType, InitMinute, StepMinute, <1>1, PTL DEF Spec
-----------------------------------------------------------------------------
(* Deleted jobs. *)

\* A row number is given once: not to a deleted job and to a new one.  A job that was
\* queued after its deletion is out of the database, and out of the copy Watch looks
\* through and of its hand, so that no later scan meets it again.
LateInv ==
  /\ \A g \in gone : g.row <= lastRow
  /\ \A g \in gone, j \in jobs : g.row # j.row
  /\ watch.pc \in {"scan", "lock"} => \A j \in watch.todo : j.row <= lastRow
  /\ watch.pc = "lock" => watch.row <= lastRow
  /\ \A e \in 1..Len(queued) : queued[e].late =>
       /\ queued[e].row <= lastRow
       /\ \A j \in jobs : j.row # queued[e].row
       /\ watch.pc \in {"scan", "lock"} => \A j \in watch.todo : j.row # queued[e].row
       /\ watch.pc = "lock" => watch.row # queued[e].row

lateVars == <<jobs, gone, lastRow, watch, queued>>

LEMMA InitLate == Init => LateInv /\ DeletedJobQueuedOnce
BY DEF Init, LateInv, DeletedJobQueuedOnce

LEMMA StepLate == TypeOK /\ MinuteInv /\ LateInv /\ [Next]_vars => LateInv'
<1> SUFFICES ASSUME TypeOK, Rows, Given, ScanInv, LateInv, Step PROVE LateInv'
  BY StepCases DEF MinuteInv
<1>ty. /\ jobs \in SUBSET Job /\ gone \in SUBSET Job /\ lastRow \in Nat
       /\ queued \in Seq(Entry)
       /\ watch \in [pc : {"sleep", "get", "scan", "lock"}, todo : SUBSET Job,
                     slept : Nat, row : Nat, due : Nat]
  BY DEF TypeOK
<1>en. \A e \in 1..Len(queued) : queued[e].row \in Nat
  <2> TAKE e \in 1..Len(queued)
  <2>1. queued[e] \in Entry
    BY <1>ty, ElementOfSeq
  <2> QED
    BY <2>1 DEF Entry
<1>row. \A j \in jobs \cup gone \cup watch.todo : j.row \in Nat
  BY <1>ty DEF Job
<1>same. ASSUME UNCHANGED lateVars PROVE LateInv'
  BY <1>same DEF lateVars, LateInv
<1>ws. CASE WatchScans
  <2>1. watch'.pc = "scan" /\ watch'.todo \subseteq jobs
    BY <1>ws, <1>ty DEF WatchScans, Matching
  <2>2. UNCHANGED <<jobs, gone, lastRow, queued>>
    BY <1>ws DEF WatchScans, jobVars, queueVars
  <2> QED
    BY <2>1, <2>2 DEF LateInv, Given
<1>wq. CASE WatchGets \/ WatchSleeps
  <2>1. watch'.pc \in {"get", "sleep"} /\ UNCHANGED <<jobs, gone, lastRow, queued>>
    BY <1>wq, <1>ty DEF WatchGets, WatchSleeps, jobVars, queueVars
  <2> QED
    BY <2>1 DEF LateInv
<1>wc. CASE \E j \in watch.todo : WatchChecks(j)
  <2> PICK j \in watch.todo : WatchChecks(j)
    BY <1>wc
  <2>1. UNCHANGED <<jobs, gone, lastRow, queued>> /\ watch.pc = "scan"
    BY DEF WatchChecks, jobVars, queueVars
  <2>2. CASE UNCHANGED watch
    BY <2>1, <2>2, <1>same DEF lateVars
  <2>3. CASE watch' = [watch EXCEPT !.todo = @ \ {j}]
    <3>1. watch'.pc = "scan" /\ watch'.todo = watch.todo \ {j}
      BY <2>1, <2>3, <1>ty
    <3> QED
      BY <2>1, <3>1 DEF LateInv
  <2>4. CASE watch' = [pc |-> "lock", todo |-> watch.todo \ {j}, slept |-> watch.slept,
                       row |-> j.row, due |-> clock]
    <3>1. watch'.pc = "lock" /\ watch'.todo = watch.todo \ {j} /\ watch'.row = j.row
      BY <2>4
    <3> QED
      BY <2>1, <3>1 DEF LateInv
  <2> QED
    BY <2>2, <2>3, <2>4 DEF WatchChecks
<1>wa. CASE WatchAppends
  <2> DEFINE e == [row |-> watch.row, minute |-> watch.due,
                   late |-> \E j \in gone : j.row = watch.row]
  <2>1. /\ watch.pc = "lock" /\ watch'.pc = "scan" /\ watch'.todo = watch.todo
        /\ UNCHANGED <<jobs, gone, lastRow>>
        /\ queued' = Append(queued, e)
    BY <1>wa, <1>ty DEF WatchAppends, jobVars
  <2>2. e \in Entry /\ e.row = watch.row /\ (e.late => \E j \in gone : j.row = watch.row)
    BY <1>ty DEF Entry
  <2> HIDE DEF e
  <2>3. /\ Len(queued') = Len(queued) + 1
        /\ \A i \in 1..Len(queued') : queued'[i] = IF i <= Len(queued) THEN queued[i] ELSE e
    BY <2>1, <2>2, <1>ty
  <2>4. e.late => /\ \A j \in jobs : j.row # e.row
                  /\ \A j \in watch.todo : j.row # e.row
                  /\ e.row <= lastRow
    BY <2>1, <2>2 DEF LateInv, ScanInv
  <2>5. ASSUME NEW i \in 1..Len(queued'), queued'[i].late
        PROVE  /\ queued'[i].row <= lastRow
               /\ \A j \in jobs : j.row # queued'[i].row
               /\ \A j \in watch.todo : j.row # queued'[i].row
    <3>1. CASE i <= Len(queued)
      <4>1. i \in 1..Len(queued) /\ queued'[i] = queued[i]
        BY <2>3, <3>1, <1>ty
      <4> QED
        BY <2>1, <2>5, <4>1 DEF LateInv
    <3>2. CASE ~(i <= Len(queued))
      BY <2>3, <2>4, <2>5, <3>2
    <3> QED
      BY <3>1, <3>2
  <2> QED
    BY <2>1, <2>5 DEF LateInv
<1>mn. CASE MainCreatesJob
  <2>1. UNCHANGED <<gone, watch, queued>>
    BY <1>mn DEF MainCreatesJob, MainWrites, MainTakes, queueVars
  <2>2. CASE Refuses
    BY <1>mn, <2>1, <2>2, <1>same DEF MainCreatesJob, lateVars
  <2>3. CASE ~Refuses
    <3> DEFINE n == [row |-> lastRow', id |-> Head(c20).filter, minute |-> Head(c20).minute]
    <3>1. lastRow' = lastRow + 1 /\ jobs' = jobs \cup {n} /\ n.row = lastRow + 1
      BY <1>mn, <2>3 DEF MainCreatesJob
    <3> HIDE DEF n
    <3> QED
      BY <2>1, <3>1, <1>row, <1>en, <1>ty DEF LateInv
  <2> QED
    BY <2>2, <2>3
<1>md. CASE MainDeletesJob
  <2>1. UNCHANGED <<watch, queued, lastRow>>
    BY <1>md DEF MainDeletesJob, MainWrites, MainTakes, queueVars
  <2> PICK D \in Deletable(Head(c20).filter) : jobs' = jobs \ D /\ gone' = gone \cup D
    BY <1>md DEF MainDeletesJob
  <2>2. D \subseteq jobs
    BY <1>ty, DeletableType
  <2>3. /\ \A g \in gone' : g.row <= lastRow
        /\ \A g \in gone', j \in jobs' : g.row # j.row
    BY <2>2 DEF LateInv, Given, Rows
  <2> QED
    BY <2>1, <2>3 DEF LateInv
<1>loop. CASE LoopLocks \/ LoopPops \/ LoopSends \/ LoopSucceeds \/ LoopFails \/ LoopUnlocks
  BY <1>loop, <1>same
     DEF LoopLocks, LoopPops, LoopSends, LoopSucceeds, LoopFails, LoopUnlocks, lateVars,
         jobVars, queueVars
<1>main. CASE \/ Tick \/ MainStores \/ MainLocks \/ MainCopies \/ MainGets \/ MainFinds
              \/ \E kind \in AskKinds, f \in Filters, m \in Intervals : Issue(kind, f, m)
              \/ \E ok \in BOOLEAN : ProcessorAnswers(ok)
  BY <1>main, <1>same
     DEF Tick, MainStores, MainLocks, MainCopies, MainGets, MainFinds, MainTakes, Issue,
         ProcessorAnswers, lateVars, jobVars, queueVars
<1>u. CASE UNCHANGED vars
  BY <1>u, <1>same DEF vars, lateVars, jobVars, queueVars
<1> QED
  BY <1>ws, <1>wq, <1>wc, <1>wa, <1>mn, <1>md, <1>loop, <1>main, <1>u DEF Step

\* Only WatchAppends queues, and what it queues has not been queued late before.
LEMMA StepDeleted ==
  TypeOK /\ LateInv /\ DeletedJobQueuedOnce /\ [Next]_vars => DeletedJobQueuedOnce'
<1> SUFFICES ASSUME TypeOK, LateInv, DeletedJobQueuedOnce, Step PROVE DeletedJobQueuedOnce'
  BY StepCases
<1>ty. queued \in Seq(Entry) /\ watch.row \in Nat /\ watch.due \in Nat
  BY DEF TypeOK
<1>same. ASSUME UNCHANGED queued PROVE DeletedJobQueuedOnce'
  BY <1>same DEF DeletedJobQueuedOnce
<1>wa. CASE WatchAppends
  <2> DEFINE e == [row |-> watch.row, minute |-> watch.due,
                   late |-> \E j \in gone : j.row = watch.row]
  <2>1. watch.pc = "lock" /\ queued' = Append(queued, e) /\ e.row = watch.row /\ e \in Entry
    BY <1>wa, <1>ty DEF WatchAppends, Entry
  <2> HIDE DEF e
  <2>2. Len(queued) \in Nat /\ Len(queued') = Len(queued) + 1
    BY <2>1, <1>ty
  <2>3. \A i \in 1..Len(queued') : queued'[i] = IF i <= Len(queued) THEN queued[i] ELSE e
    BY <2>1, <1>ty
  <2>4. \A i \in 1..Len(queued) : queued[i].late => queued[i].row # e.row
    BY <2>1 DEF LateInv
  <2> SUFFICES ASSUME NEW i \in 1..Len(queued'), NEW j \in 1..Len(queued'),
                      queued'[i].late, queued'[j].late, queued'[i].row = queued'[j].row
               PROVE  i = j
    BY DEF DeletedJobQueuedOnce
  <2>5. CASE i <= Len(queued) /\ j <= Len(queued)
    <3>1. i \in 1..Len(queued) /\ j \in 1..Len(queued)
      BY ONLY <2>2, <2>5
    <3>2. queued'[i] = queued[i] /\ queued'[j] = queued[j]
      BY <2>3, <2>5
    <3> QED
      BY <3>1, <3>2 DEF DeletedJobQueuedOnce
  <2>6. CASE i > Len(queued) /\ j <= Len(queued)
    <3>1. j \in 1..Len(queued) /\ queued'[j] = queued[j] /\ queued'[i] = e
      BY ONLY <2>2, <2>3, <2>6
    <3> QED
      BY <2>4, <3>1
  <2>7. CASE i <= Len(queued) /\ j > Len(queued)
    <3>1. i \in 1..Len(queued) /\ queued'[i] = queued[i] /\ queued'[j] = e
      BY ONLY <2>2, <2>3, <2>7
    <3> QED
      BY <2>4, <3>1
  <2> QED
    BY ONLY <2>2, <2>5, <2>6, <2>7
<1>watch. CASE Tick \/ WatchGets \/ WatchScans \/ WatchSleeps \/ (\E j \in watch.todo : WatchChecks(j))
  BY <1>watch, <1>same DEF Tick, WatchGets, WatchScans, WatchSleeps, WatchChecks, queueVars
<1>loop. CASE LoopLocks \/ LoopPops \/ LoopSends \/ LoopSucceeds \/ LoopFails \/ LoopUnlocks
  BY <1>loop, <1>same
     DEF LoopLocks, LoopPops, LoopSends, LoopSucceeds, LoopFails, LoopUnlocks, queueVars
<1>main. CASE \/ MainStores \/ MainLocks \/ MainCopies \/ MainGets \/ MainFinds
              \/ MainCreatesJob \/ MainDeletesJob
              \/ \E kind \in AskKinds, f \in Filters, m \in Intervals : Issue(kind, f, m)
              \/ \E ok \in BOOLEAN : ProcessorAnswers(ok)
  BY <1>main, <1>same
     DEF MainStores, MainLocks, MainCopies, MainGets, MainFinds, MainCreatesJob, MainDeletesJob,
         MainWrites, MainTakes, Issue, ProcessorAnswers, queueVars
<1>u. CASE UNCHANGED vars
  BY <1>u, <1>same DEF vars, queueVars
<1> QED
  BY <1>wa, <1>watch, <1>loop, <1>main, <1>u DEF Step

\* A job that is deleted while Watch has it in its copy of the jobs is queued once more at
\* the most: row numbers are not given again, and every scan starts from the jobs left.
THEOREM DeletedOnce == Spec => []DeletedJobQueuedOnce
BY InitType, StepType, InitMinute, StepMinute, InitLate, StepLate, StepDeleted, PTL DEF Spec
=============================================================================
