-------------------------- MODULE RunControlProofs --------------------------
(***************************************************************************)
(* Proofs about RunControl, for any numbers of requests, nonces, workers   *)
(* and channel places:                                                     *)
(*   - the types: what is in flight or stored is about an issued request;  *)
(*   - no request is answered twice;                                       *)
(*   - a stop that names a run hits that run;                              *)
(*   - what the runner has stored is awaited, and what is active was       *)
(*     dispatched;                                                         *)
(*   - a run is dispatched once, to the worker its record names;           *)
(*   - a run gets one statistic record, after its worker said it ended;    *)
(*   - NumOfRuns never counts fewer runs than a worker has, while no two   *)
(*     creations have one nonce.                                           *)
(***************************************************************************)
EXTENDS RunControl, SequenceTheorems, FiniteSetTheorems, TLAPS

Chans == InChans \cup OutChans

\* Messages and sends about the first k requests.
MsgOf(k)   == [id : 1..k, kind : Kinds, worker : Workers \cup {NoWorker}, run : Nat,
               ok : BOOLEAN]
SendOf(k)  == [ch : OutChans, msg : MsgOf(k)]
EntryOf(k) == [id : 0..k, worker : Workers \cup {NoWorker}]

\* Whatever is in flight or stored is about a request that was issued: only then has a
\* nonce looked up in "req" a meaning.
InFlight(k) ==
  /\ chan \in [Chans -> Seq(MsgOf(k))]
  /\ pend \in [Threads -> Seq(SendOf(k))]
  /\ iReq \in 0..k
  /\ procStore \in [Nonce -> 0..k]
  /\ runStore \in [Nonce -> EntryOf(k)]

Recorded ==
  /\ req \in Seq(Request) /\ Len(req) <= MaxRequests
  /\ cur \in [Sources -> Nonce]
  /\ load \in [Workers -> Nat]
  /\ runs \in Seq(Run)
  /\ stats \in Seq(Nat)
  /\ wire \in Seq(Letter)
  /\ ended \in SUBSET Nat
  /\ answers \in [Ids -> Seq(Answer)]
  /\ panicked \in BOOLEAN

TypeInv == Recorded /\ InFlight(Len(req))

LEMMA Widen ==
  ASSUME NEW S, NEW T, S \subseteq T, NEW D, NEW f \in [D -> Seq(S)]
  PROVE  f \in [D -> Seq(T)]
<1>1. \A d \in D : f[d] \in Seq(T)
  BY SeqMonotonic
<1>2. QED
  BY <1>1

\* Issuing one more request leaves what is in flight well typed.
LEMMA InFlightMonotonic ==
  ASSUME NEW j \in Nat, NEW k \in Nat, j <= k, InFlight(j)
  PROVE  InFlight(k)
<1>1. MsgOf(j) \subseteq MsgOf(k) /\ EntryOf(j) \subseteq EntryOf(k) /\ 0..j \subseteq 0..k
  BY DEF MsgOf, EntryOf
<1>2. SendOf(j) \subseteq SendOf(k)
  BY <1>1 DEF SendOf
<1>3. chan \in [Chans -> Seq(MsgOf(k))] /\ pend \in [Threads -> Seq(SendOf(k))]
  BY <1>1, <1>2, Widen DEF InFlight
<1>4. QED
  BY <1>1, <1>3 DEF InFlight

LEMMA ImpliesTypeOK == TypeInv => TypeOK
<1> SUFFICES ASSUME TypeInv PROVE TypeOK
  OBVIOUS
<1>1. InFlight(MaxRequests)
  BY RunControlAssumption, InFlightMonotonic DEF TypeInv, Recorded
<1>2. /\ MsgOf(MaxRequests) = Msg
      /\ EntryOf(MaxRequests) = Entry
      /\ 0..MaxRequests = {Absent} \cup Ids
  <2>1. 1..MaxRequests = Ids /\ 0..MaxRequests = {Absent} \cup Ids
    BY RunControlAssumption DEF Ids, Absent
  <2>2. QED
    BY <2>1 DEF MsgOf, EntryOf, Msg, Entry
<1>3. QED
  BY <1>1, <1>2 DEF TypeInv, Recorded, InFlight, TypeOK, Chans, SendOf
-----------------------------------------------------------------------------
(* What the building blocks of the actions return and preserve. *)

LEMMA ChanNames ==
  /\ \A s \in Sources : InOf(s) \in InChans /\ OutOf(s) \in OutChans
  /\ InChans \cap OutChans = {}
  /\ \A s, u \in Sources : InOf(s) = InOf(u) => s = u
BY DEF Sources, InOf, OutOf, InChans, OutChans

LEMMA MessageTyped ==
  ASSUME NEW k \in Nat, NEW id \in 1..k
  PROVE  Message(id) \in MsgOf(k)
BY DEF Message, MsgOf, Kinds

LEMMA AskTyped ==
  ASSUME NEW k \in Nat, NEW id \in 1..k, NEW kind \in Kinds, NEW run \in Nat,
         NEW worker \in Workers \cup {NoWorker}
  PROVE  Ask(id, kind, run, worker) \in MsgOf(k) /\ [id |-> id, worker |-> worker] \in EntryOf(k)
BY DEF Ask, MsgOf, EntryOf

LEMMA ToTyped ==
  ASSUME NEW k \in Nat, NEW ch \in OutChans, NEW m \in MsgOf(k)
  PROVE  To(ch, m) \in Seq(SendOf(k))
BY DEF To, SendOf

LEMMA TakesTyped ==
  ASSUME TypeInv, NEW t \in Threads, NEW ch \in Chans, Takes(t, ch)
  PROVE  /\ chan' \in [Chans -> Seq(MsgOf(Len(req)))]
         /\ Head(chan[ch]) \in MsgOf(Len(req))
         /\ Head(chan[ch]).id \in 1..Len(req)
         /\ req[Head(chan[ch]).id] \in Request
         /\ NonceOf(Head(chan[ch]).id) \in Nonce
<1>1. chan[ch] \in Seq(MsgOf(Len(req))) /\ chan[ch] # <<>>
  BY DEF TypeInv, InFlight, Takes
<1>2. /\ Head(chan[ch]) \in MsgOf(Len(req))
      /\ Tail(chan[ch]) \in Seq(MsgOf(Len(req)))
  BY <1>1
<1>3. Head(chan[ch]).id \in 1..Len(req)
  BY <1>2 DEF MsgOf
<1>4. req[Head(chan[ch]).id] \in Request
  BY <1>3 DEF TypeInv, Recorded
<1>5. chan' \in [Chans -> Seq(MsgOf(Len(req)))]
  BY <1>2 DEF TypeInv, InFlight, Takes
<1>6. QED
  BY <1>2, <1>3, <1>4, <1>5 DEF NonceOf, Request

LEMMA SendsTyped ==
  ASSUME TypeInv, NEW t \in Threads, NEW ms \in Seq(SendOf(Len(req))), Sends(t, ms)
  PROVE  pend' \in [Threads -> Seq(SendOf(Len(req)))]
BY DEF TypeInv, InFlight, Sends

LEMMA RequestTyped ==
  ASSUME TypeInv, NEW id \in 1..Len(req)
  PROVE  req[id] \in Request /\ NonceOf(id) \in Nonce /\ req[id].src \in Sources /\ id \in Ids
<1>1. req[id] \in Request
  BY DEF TypeInv, Recorded
<1>2. NonceOf(id) \in Nonce /\ req[id].src \in Sources
  BY <1>1 DEF NonceOf, Request
<1>3. id \in Ids
  BY RunControlAssumption DEF TypeInv, Recorded, Ids
<1>4. QED
  BY <1>1, <1>2, <1>3

LEMMA SendTyped ==
  ASSUME TypeInv, NEW t \in Threads, NEW ch \in OutChans, NEW m \in MsgOf(Len(req)),
         Sends(t, To(ch, m))
  PROVE  pend' \in [Threads -> Seq(SendOf(Len(req)))]
<1>1. Len(req) \in Nat
  BY DEF TypeInv, Recorded
<1>2. To(ch, m) \in Seq(SendOf(Len(req)))
  BY <1>1, ToTyped
<1>3. QED
  BY <1>2, SendsTyped

LEMMA AnswersTyped ==
  ASSUME TypeInv, NEW id \in 1..Len(req), NEW from \in 1..Len(req), NEW ok \in BOOLEAN,
         NEW run \in Nat, Answers(id, from, ok, run)
  PROVE  /\ pend' \in [Threads -> Seq(SendOf(Len(req)))]
         /\ answers' \in [Ids -> Seq(Answer)]
<1>1. Len(req) \in Nat
  BY DEF TypeInv, Recorded
<1>2. To(OutOf(req[id].src), Message(id)) \in Seq(SendOf(Len(req)))
  BY <1>1, RequestTyped, ChanNames, MessageTyped, ToTyped
<1>3. pend' \in [Threads -> Seq(SendOf(Len(req)))]
  BY <1>2, SendsTyped DEF Answers, Threads
<1>4. [from |-> from, ok |-> ok, run |-> run] \in Answer
  BY RequestTyped DEF Answer
<1>5. answers' \in [Ids -> Seq(Answer)]
  BY <1>4, RequestTyped DEF Answers, TypeInv, Recorded
<1>6. QED
  BY <1>3, <1>5

LEMMA ForgetTyped ==
  ASSUME TypeInv, NEW n, Forget(n)
  PROVE  procStore' \in [Nonce -> 0..Len(req)]
<1>1. Absent \in 0..Len(req)
  BY DEF Absent, TypeInv, Recorded
<1>2. procStore \in [Nonce -> 0..Len(req)]
  BY DEF TypeInv, InFlight
<1>3. QED
  BY <1>1, <1>2 DEF Forget
-----------------------------------------------------------------------------
(* Every action preserves TypeInv. *)

LEMMA ProcQueryTyped ==
  ASSUME TypeInv, NEW s \in Sources, ProcQuery(s)
  PROVE  TypeInv'
<1>1. InOf(s) \in Chans /\ "processor" \in Threads
  BY ChanNames DEF Chans, Threads
<1>2. /\ chan' \in [Chans -> Seq(MsgOf(Len(req)))]
      /\ iReq' \in 1..Len(req)
  BY <1>1, TakesTyped DEF ProcQuery, ProcTakesRequest
<1>3. /\ pend' \in [Threads -> Seq(SendOf(Len(req)))]
      /\ answers' \in [Ids -> Seq(Answer)]
  BY <1>2, AnswersTyped DEF ProcQuery
<1>4. QED
  BY <1>2, <1>3 DEF ProcQuery, TypeInv, Recorded, InFlight, clientVars, runVars, outerVars

LEMMA ProcCreateRunTyped ==
  ASSUME TypeInv, NEW s \in Sources, ProcCreateRun(s)
  PROVE  TypeInv'
<1>1. InOf(s) \in Chans /\ "processor" \in Threads /\ "c11" \in OutChans
  BY ChanNames DEF Chans, Threads, OutChans
<1>2. /\ chan' \in [Chans -> Seq(MsgOf(Len(req)))]
      /\ iReq' \in 1..Len(req)
      /\ NonceOf(iReq') \in Nonce
  BY <1>1, TakesTyped DEF ProcCreateRun, ProcTakesRequest
<1>3. [Message(iReq') EXCEPT !.kind = "pipeline"] \in MsgOf(Len(req))
  BY <1>2 DEF Message, MsgOf, Kinds
<1>4. pend' \in [Threads -> Seq(SendOf(Len(req)))]
  BY <1>1, <1>3, SendTyped DEF ProcCreateRun
<1>5. QED
  BY <1>2, <1>4 DEF ProcCreateRun, TypeInv, Recorded, InFlight, clientVars, runVars, outerVars

LEMMA ProcForwardTyped ==
  ASSUME TypeInv, NEW s \in Sources, ProcForward(s)
  PROVE  TypeInv'
<1>1. InOf(s) \in Chans /\ "processor" \in Threads /\ "c13" \in OutChans
  BY ChanNames DEF Chans, Threads, OutChans
<1>2. /\ chan' \in [Chans -> Seq(MsgOf(Len(req)))]
      /\ iReq' \in 1..Len(req)
      /\ NonceOf(iReq') \in Nonce
  BY <1>1, TakesTyped DEF ProcForward, ProcTakesRequest
<1>3. Message(iReq') \in MsgOf(Len(req))
  BY <1>2 DEF Message, MsgOf, Kinds
<1>4. pend' \in [Threads -> Seq(SendOf(Len(req)))]
  BY <1>1, <1>3, SendTyped DEF ProcForward
<1>5. QED
  BY <1>2, <1>4 DEF ProcForward, TypeInv, Recorded, InFlight, clientVars, runVars, outerVars

LEMMA ProcPipelineTyped ==
  ASSUME TypeInv, ProcPipeline
  PROVE  TypeInv'
<1> DEFINE m  == Head(chan["c12"])
           id == procStore[NonceOf(m.id)]
<1>1. "c12" \in Chans /\ "processor" \in Threads /\ "c13" \in OutChans
  BY DEF Chans, Threads, OutChans
<1>2. /\ chan' \in [Chans -> Seq(MsgOf(Len(req)))]
      /\ m \in MsgOf(Len(req))
      /\ NonceOf(m.id) \in Nonce
  BY <1>1, TakesTyped DEF ProcPipeline
<1>3. id \in 0..Len(req) /\ iReq' = id
  BY <1>2 DEF ProcPipeline, TypeInv, InFlight
<1>4. Len(req) \in Nat
  BY DEF TypeInv, Recorded
<1>5. /\ pend' \in [Threads -> Seq(SendOf(Len(req)))]
      /\ procStore' \in [Nonce -> 0..Len(req)]
      /\ load' \in [Workers -> Nat]
      /\ answers' \in [Ids -> Seq(Answer)]
  <2>1. CASE UNCHANGED <<pend, procStore, load, answers>>
    BY <2>1 DEF TypeInv, Recorded, InFlight
  <2>2. CASE id # Absent /\ Forget(NonceOf(m.id)) /\ Answers(id, id, FALSE, 0) /\ UNCHANGED load
    <3>1. id \in 1..Len(req)
      BY <1>3, <1>4, <2>2 DEF Absent
    <3>2. /\ pend' \in [Threads -> Seq(SendOf(Len(req)))]
          /\ answers' \in [Ids -> Seq(Answer)]
      BY <3>1, <2>2, AnswersTyped
    <3>3. procStore' \in [Nonce -> 0..Len(req)]
      BY <2>2, ForgetTyped
    <3>4. QED
      BY <3>2, <3>3, <2>2 DEF TypeInv, Recorded
  <2>3. CASE /\ id # Absent
             /\ \E w \in Workers : /\ CountRun(w)
                                   /\ Sends("processor", To("c13", [Message(id) EXCEPT !.worker = w]))
             /\ UNCHANGED <<procStore, answers>>
    <3>1. id \in 1..Len(req)
      BY <1>3, <1>4, <2>3 DEF Absent
    <3>2. PICK w \in Workers : /\ CountRun(w)
                               /\ Sends("processor", To("c13", [Message(id) EXCEPT !.worker = w]))
      BY <2>3
    <3>3. [Message(id) EXCEPT !.worker = w] \in MsgOf(Len(req))
      BY <3>1 DEF Message, MsgOf, Kinds
    <3>4. pend' \in [Threads -> Seq(SendOf(Len(req)))]
      BY <1>1, <3>2, <3>3, SendTyped
    <3>5. load' \in [Workers -> Nat]
      BY <3>2 DEF CountRun, TypeInv, Recorded
    <3>6. QED
      BY <3>4, <3>5, <2>3 DEF TypeInv, Recorded, InFlight
  <2>4. QED
    BY <2>1, <2>2, <2>3 DEF ProcPipeline
<1>6. QED
  BY <1>2, <1>3, <1>5 DEF ProcPipeline, TypeInv, Recorded, InFlight, clientVars, runVars, outerVars

LEMMA ProcRunnerRespondsTyped ==
  ASSUME TypeInv, ProcRunnerResponds
  PROVE  TypeInv'
<1> DEFINE m  == Head(chan["c14"])
           id == procStore[NonceOf(iReq)]
<1>1. "c14" \in Chans /\ "processor" \in Threads
  BY DEF Chans, Threads, OutChans
<1>2. /\ chan' \in [Chans -> Seq(MsgOf(Len(req)))]
      /\ m \in MsgOf(Len(req))
      /\ m.id \in 1..Len(req) /\ m.run \in Nat /\ m.ok \in BOOLEAN
  <2>1. chan' \in [Chans -> Seq(MsgOf(Len(req)))] /\ m \in MsgOf(Len(req))
    BY <1>1, TakesTyped DEF ProcRunnerResponds
  <2>2. QED
    BY <2>1 DEF MsgOf
<1>3. Len(req) \in Nat
  BY DEF TypeInv, Recorded
<1>4. CASE iReq = Absent
  BY <1>2, <1>4 DEF ProcRunnerResponds, TypeInv, Recorded, InFlight, clientVars, procVars,
                    runVars, outerVars
<1>5. CASE iReq # Absent
  <2>1. iReq \in 1..Len(req)
    BY <1>3, <1>5 DEF TypeInv, InFlight, Absent
  <2>2. NonceOf(iReq) \in Nonce
    BY <2>1, RequestTyped
  <2>3. id \in 0..Len(req) /\ iReq' = id
    BY <1>5, <2>2 DEF ProcRunnerResponds, TypeInv, InFlight
  <2>4. /\ pend' \in [Threads -> Seq(SendOf(Len(req)))]
        /\ procStore' \in [Nonce -> 0..Len(req)]
        /\ answers' \in [Ids -> Seq(Answer)]
    <3>1. CASE id = Absent
      BY <1>5, <3>1 DEF ProcRunnerResponds, TypeInv, Recorded, InFlight
    <3>2. CASE id # Absent
      <4>1. id \in 1..Len(req)
        BY <1>3, <2>3, <3>2 DEF Absent
      <4>2. PICK ok \in BOOLEAN : Forget(NonceOf(id)) /\ Answers(id, m.id, ok, m.run)
        BY <1>5, <3>2 DEF ProcRunnerResponds
      <4>3. /\ pend' \in [Threads -> Seq(SendOf(Len(req)))]
            /\ answers' \in [Ids -> Seq(Answer)]
        BY <1>2, <4>1, <4>2, AnswersTyped
      <4>4. procStore' \in [Nonce -> 0..Len(req)]
        BY <4>2, ForgetTyped
      <4>5. QED
        BY <4>3, <4>4
    <3>3. QED
      BY <3>1, <3>2
  <2>5. QED
    BY <1>2, <1>5, <2>3, <2>4 DEF ProcRunnerResponds, TypeInv, Recorded, InFlight, clientVars,
                                  runVars, outerVars
<1>6. QED
  BY <1>4, <1>5
-----------------------------------------------------------------------------
(* The runner thread, the database thread, the socket thread. *)

LEMMA LookupInRange ==
  ASSUME TypeInv, NEW r \in Nat, Lookup(r) # <<>>
  PROVE  Lookup(r)[1] \in 1..Len(runs)
<1>1. Len(runs) \in Nat /\ (Len(runs) = 0 <=> runs = <<>>)
  BY EmptySeq DEF TypeInv, Recorded
<1>2. CASE r = 0
  <2>1. Lookup(r) = [i \in 1..Len(runs) |-> Len(runs) + 1 - i]
    BY <1>2 DEF Lookup
  <2>2. Len(runs) # 0
    BY <1>1, <2>1
  <2>3. QED
    BY <1>1, <2>1, <2>2
<1>3. CASE r \in 1..Len(runs)
  BY <1>3 DEF Lookup
<1>4. CASE r # 0 /\ r \notin 1..Len(runs)
  BY <1>1, <1>4 DEF Lookup
<1>5. QED
  BY <1>2, <1>3, <1>4

LEMMA SetStatusTyped ==
  ASSUME TypeInv, NEW r, NEW s \in Status, SetStatus(r, s)
  PROVE  runs' \in Seq(Run) /\ Len(runs') = Len(runs)
<1>1. runs \in Seq(Run) /\ DOMAIN runs = 1..Len(runs) /\ Len(runs) \in Nat
  BY LenProperties DEF TypeInv, Recorded
<1>2. CASE r \in 1..Len(runs)
  <2>1. [runs[r] EXCEPT !.status = s] \in Run
    <3>1. runs[r] \in Run
      BY <1>1, <1>2
    <3>2. QED
      BY <3>1 DEF Run
  <2>2. runs' = [runs EXCEPT ![r] = [runs[r] EXCEPT !.status = s]]
    BY DEF SetStatus
  <2>3. QED
    BY <1>1, <1>2, <2>1, <2>2, ExceptSeq
<1>3. CASE r \notin 1..Len(runs)
  <2>1. runs = [i \in 1..Len(runs) |-> runs[i]]
    BY <1>1
  <2>2. runs' = [i \in 1..Len(runs) |-> runs[i]]
    BY <1>1, <1>3 DEF SetStatus
  <2>3. QED
    BY <1>1, <2>1, <2>2
<1>4. QED
  BY <1>2, <1>3

\* An entry the runner stores is an issued request with a worker, or with none.
LEMMA StoreTyped ==
  ASSUME TypeInv, NEW n \in Nonce, NEW e \in EntryOf(Len(req)),
         runStore' = [runStore EXCEPT ![n] = e]
  PROVE  runStore' \in [Nonce -> EntryOf(Len(req))]
<1>1. runStore \in [Nonce -> EntryOf(Len(req))]
  BY DEF TypeInv, InFlight
<1>2. QED
  BY <1>1

LEMMA ResolveTyped ==
  ASSUME TypeInv, NEW e \in EntryOf(Len(req)), NEW n \in Nonce, NEW ok \in BOOLEAN,
         NEW run \in Nat, e.id # Absent, Resolve(e, n, ok, run)
  PROVE  /\ pend' \in [Threads -> Seq(SendOf(Len(req)))]
         /\ runStore' \in [Nonce -> EntryOf(Len(req))]
<1>1. Len(req) \in Nat
  BY DEF TypeInv, Recorded
<1>2. e.id \in 1..Len(req)
  BY <1>1 DEF EntryOf, Absent
<1>3. [Message(e.id) EXCEPT !.ok = ok, !.run = run] \in MsgOf(Len(req))
  BY <1>2 DEF Message, MsgOf, Kinds
<1>4. "runner" \in Threads /\ "c14" \in OutChans
  BY DEF Threads, OutChans
<1>5. NoEntry \in EntryOf(Len(req))
  BY <1>1 DEF NoEntry, EntryOf, Absent
<1>6. QED
  BY <1>3, <1>4, <1>5, SendTyped, StoreTyped DEF Resolve, Reply

\* What a runner handler finds when it takes a request of kind act.
LEMMA RunnerTakesTyped ==
  ASSUME TypeInv, NEW act, RunnerTakes(act)
  PROVE  /\ chan' \in [Chans -> Seq(MsgOf(Len(req)))]
         /\ Head(chan["c13"]) \in MsgOf(Len(req))
         /\ Head(chan["c13"]).id \in 1..Len(req)
         /\ Head(chan["c13"]).worker \in Workers \cup {NoWorker}
         /\ req[Head(chan["c13"]).id] \in Request
         /\ NonceOf(Head(chan["c13"]).id) \in Nonce
<1>1. "c13" \in Chans /\ "runner" \in Threads
  BY DEF Chans, Threads, OutChans
<1>2. Takes("runner", "c13")
  BY DEF RunnerTakes
<1>3. Head(chan["c13"]) \in MsgOf(Len(req))
  BY <1>1, <1>2, TakesTyped
<1>4. Head(chan["c13"]).worker \in Workers \cup {NoWorker}
  BY <1>3 DEF MsgOf
<1>5. QED
  BY <1>1, <1>2, <1>4, TakesTyped

LEMMA RunnerGetRunTyped ==
  ASSUME TypeInv, RunnerGetRun
  PROVE  TypeInv'
<1> DEFINE m == Head(chan["c13"])
<1>1. /\ chan' \in [Chans -> Seq(MsgOf(Len(req)))]
      /\ m.id \in 1..Len(req)
  BY RunnerTakesTyped DEF RunnerGetRun
<1>2. pend' \in [Threads -> Seq(SendOf(Len(req)))] /\ UNCHANGED runVars /\ panicked' \in BOOLEAN
  <2>1. CASE RunnerPanics
    BY <2>1 DEF RunnerPanics, TypeInv, InFlight
  <2>2. CASE Sends("runner", GetReply(m.id)) /\ UNCHANGED <<runVars, panicked>>
    <3>1. "runner" \in Threads /\ "c14" \in OutChans /\ Message(m.id) \in MsgOf(Len(req))
      BY <1>1, MessageTyped DEF Threads, OutChans, TypeInv, Recorded
    <3>2. QED
      BY <2>2, <3>1, SendTyped DEF GetReply, Reply, TypeInv, Recorded
  <2>3. QED
    BY <2>1, <2>2 DEF RunnerGetRun
<1>3. QED
  BY <1>1, <1>2 DEF RunnerGetRun, RunnerTakes, TypeInv, Recorded, InFlight, clientVars, procVars,
                    runVars, outerVars

LEMMA RunnerCreateRunTyped ==
  ASSUME TypeInv, RunnerCreateRun
  PROVE  TypeInv'
<1> DEFINE m == Head(chan["c13"])
           e == [id |-> m.id, worker |-> m.worker]
<1>1. /\ chan' \in [Chans -> Seq(MsgOf(Len(req)))]
      /\ m.id \in 1..Len(req)
      /\ m.worker \in Workers \cup {NoWorker}
      /\ NonceOf(m.id) \in Nonce
  BY RunnerTakesTyped DEF RunnerCreateRun
<1>2. [Message(m.id) EXCEPT !.kind = "pipeline"] \in MsgOf(Len(req))
  BY <1>1 DEF Message, MsgOf, Kinds
<1>3. pend' \in [Threads -> Seq(SendOf(Len(req)))]
  <2>1. "runner" \in Threads /\ "c15" \in OutChans
    BY DEF Threads, OutChans
  <2>2. QED
    BY <1>2, <2>1, SendTyped DEF RunnerCreateRun
<1>4. runStore' \in [Nonce -> EntryOf(Len(req))]
  <2>1. e \in EntryOf(Len(req))
    BY <1>1 DEF EntryOf
  <2>2. QED
    BY <1>1, <2>1, StoreTyped DEF RunnerCreateRun
<1>5. QED
  BY <1>1, <1>3, <1>4 DEF RunnerCreateRun, RunnerTakes, TypeInv, Recorded, InFlight, clientVars,
                          procVars, outerVars

LEMMA OneIsSome == \A q : Len(q) = 1 => q # <<>>
  OBVIOUS

LEMMA RunnerUpdateRunTyped ==
  ASSUME TypeInv, RunnerUpdateRun
  PROVE  TypeInv'
<1> DEFINE m      == Head(chan["c13"])
           u      == req[m.id]
           r      == Lookup(u.run)
           Refuse == Sends("runner", Reply([Message(m.id) EXCEPT !.ok = FALSE]))
           e      == [id |-> m.id, worker |-> NoWorker]
           ask    == Ask(m.id, "statistic", r[1], NoWorker)
<1>1. /\ chan' \in [Chans -> Seq(MsgOf(Len(req)))]
      /\ m.id \in 1..Len(req)
      /\ u \in Request
  BY RunnerTakesTyped DEF RunnerUpdateRun
<1>2. u.run \in Nat /\ u.status \in Status /\ u.nonce \in Nonce
  BY <1>1 DEF Request
<1>3. "runner" \in Threads /\ "c14" \in OutChans /\ "c15" \in OutChans
  BY DEF Threads, OutChans
<1>4. Refuse => pend' \in [Threads -> Seq(SendOf(Len(req)))]
  <2>1. [Message(m.id) EXCEPT !.ok = FALSE] \in MsgOf(Len(req))
    BY <1>1 DEF Message, MsgOf, Kinds
  <2>2. QED
    BY <1>3, <2>1, SendTyped DEF Reply
<1>5. /\ pend' \in [Threads -> Seq(SendOf(Len(req)))]
      /\ runStore' \in [Nonce -> EntryOf(Len(req))]
      /\ runs' \in Seq(Run)
      /\ panicked' \in BOOLEAN
  <2>1. CASE RunnerPanics
    BY <2>1 DEF RunnerPanics, runVars, TypeInv, Recorded, InFlight
  <2>2. CASE Refuse /\ UNCHANGED <<runVars, panicked>>
    BY <1>4, <2>2 DEF runVars, TypeInv, Recorded, InFlight
  <2>3. CASE Refuse /\ SetStatus(r[1], u.status) /\ UNCHANGED <<runStore, panicked>>
    BY <1>2, <1>4, <2>3, SetStatusTyped DEF TypeInv, Recorded, InFlight
  <2>4. CASE /\ SetStatus(r[1], u.status)
             /\ UNCHANGED <<pend, runStore, panicked>>
    BY <1>2, <2>4, SetStatusTyped, SMTT(30) DEF TypeInv, Recorded, InFlight
  <2>5. CASE /\ Len(r) = 1
             /\ SetStatus(r[1], u.status)
             /\ runStore' = [runStore EXCEPT ![u.nonce] = e]
             /\ Sends("runner", To("c15", ask))
             /\ UNCHANGED panicked
    <3>1. r # <<>>
      BY ONLY <2>5, OneIsSome
    <3>2. r[1] \in Nat
      BY <1>2, <3>1, LookupInRange DEF TypeInv, Recorded
    <3>3. ask \in MsgOf(Len(req)) /\ e \in EntryOf(Len(req))
      <4>1. "statistic" \in Kinds /\ Len(req) \in Nat /\ NoWorker \in Workers \cup {NoWorker}
        BY DEF Kinds, TypeInv, Recorded
      <4>2. QED
        BY <1>1, <3>2, <4>1, AskTyped
    <3> HIDE DEF ask, e
    <3>4. pend' \in [Threads -> Seq(SendOf(Len(req)))]
      BY <1>3, <2>5, <3>3, SendTyped
    <3>5. runStore' \in [Nonce -> EntryOf(Len(req))]
      BY <1>2, <2>5, <3>3, StoreTyped, Zenon
    <3>6. runs' \in Seq(Run)
      BY <1>2, <2>5, SetStatusTyped
    <3>7. panicked' \in BOOLEAN
      BY <2>5, SMTT(30) DEF TypeInv, Recorded
    <3>8. QED
      BY ONLY <3>4, <3>5, <3>6, <3>7
  <2>6. QED
    BY <2>1, <2>2, <2>3, <2>4, <2>5 DEF RunnerUpdateRun
<1>6. QED
  BY <1>1, <1>5 DEF RunnerUpdateRun, RunnerTakes, TypeInv, Recorded, InFlight, clientVars,
                    procVars, outerVars

LEMMA RunnerDeleteRunTyped ==
  ASSUME TypeInv, RunnerDeleteRun
  PROVE  TypeInv'
<1> DEFINE m    == Head(chan["c13"])
           d    == req[m.id]
           r    == Lookup(d.run)
           Fail == Reply([Message(m.id) EXCEPT !.ok = FALSE])
           e    == [id |-> m.id, worker |-> NoWorker]
           ask  == Ask(m.id, "delete", d.run, runs[r[1]].worker)
<1>1. /\ chan' \in [Chans -> Seq(MsgOf(Len(req)))]
      /\ m.id \in 1..Len(req)
      /\ d \in Request
  BY RunnerTakesTyped DEF RunnerDeleteRun
<1>2. d.run \in Nat /\ d.nonce \in Nonce
  BY <1>1, SMTT(30) DEF Request
<1>3. "runner" \in Threads /\ "c14" \in OutChans /\ "c9" \in OutChans
  BY DEF Threads, OutChans
<1>4. /\ pend' \in [Threads -> Seq(SendOf(Len(req)))]
      /\ runStore' \in [Nonce -> EntryOf(Len(req))]
      /\ runs' \in Seq(Run)
      /\ panicked' \in BOOLEAN
  <2>1. CASE RunnerPanics
    BY <2>1 DEF RunnerPanics, runVars, TypeInv, Recorded, InFlight
  <2>2. CASE Sends("runner", Fail \o Fail) /\ UNCHANGED <<runVars, panicked>>
    <3>1. Len(req) \in Nat
      BY DEF TypeInv, Recorded
    <3>2. [Message(m.id) EXCEPT !.ok = FALSE] \in MsgOf(Len(req))
      BY <1>1 DEF Message, MsgOf, Kinds
    <3>3. Fail \in Seq(SendOf(Len(req)))
      BY <1>3, <3>1, <3>2, ToTyped DEF Reply
    <3>4. Fail \o Fail \in Seq(SendOf(Len(req)))
      BY <3>3, ConcatProperties
    <3>5. pend' \in [Threads -> Seq(SendOf(Len(req)))]
      BY <1>3, <2>2, <3>4, SendsTyped, ZenonT(60)
    <3>6. QED
      BY <2>2, <3>5 DEF runVars, TypeInv, Recorded, InFlight
  <2>3. CASE /\ r # <<>>
             /\ SetStatus(r[1], "cancelled")
             /\ runStore' = [runStore EXCEPT ![d.nonce] = e]
             /\ Sends("runner", To("c9", ask))
             /\ UNCHANGED panicked
    <3>1. runs[r[1]] \in Run
      <4>1. r[1] \in 1..Len(runs)
        BY <1>2, <2>3, LookupInRange, Zenon
      <4>2. QED
        BY <4>1 DEF TypeInv, Recorded
    <3>2. runs[r[1]].worker \in Workers \cup {NoWorker}
      <4> DEFINE x == runs[r[1]]
      <4>1. x \in Run
        BY <3>1
      <4> HIDE DEF x
      <4>2. x.worker \in Workers \cup {NoWorker}
        BY ONLY <4>1 DEF Run
      <4> QED
        BY <4>2 DEF x
    <3>3. ask \in MsgOf(Len(req)) /\ e \in EntryOf(Len(req))
      <4>1. "delete" \in Kinds /\ Len(req) \in Nat
        BY DEF Kinds, TypeInv, Recorded
      <4>2. QED
        BY <1>1, <1>2, <3>2, <4>1, AskTyped, ZenonT(60)
    <3>4. pend' \in [Threads -> Seq(SendOf(Len(req)))]
      BY <1>3, <2>3, <3>3, SendTyped, Zenon
    <3>5. runStore' \in [Nonce -> EntryOf(Len(req))]
      BY <1>2, <2>3, <3>3, StoreTyped, ZenonT(60)
    <3>6. runs' \in Seq(Run)
      BY <2>3, SetStatusTyped, ZenonT(60) DEF Status
    <3>7. panicked' \in BOOLEAN
      BY <2>3, Zenon DEF TypeInv, Recorded
    <3>8. QED
      BY ONLY <3>4, <3>5, <3>6, <3>7
  <2>4. QED
    BY <2>1, <2>2, <2>3 DEF RunnerDeleteRun
<1>5. QED
  BY <1>1, <1>4 DEF RunnerDeleteRun, RunnerTakes, TypeInv, Recorded, InFlight, clientVars,
                    procVars, outerVars

LEMMA RunnerDatabaseRespondsTyped ==
  ASSUME TypeInv, RunnerDatabaseResponds
  PROVE  TypeInv'
<1> DEFINE m   == Head(chan["c16"])
           n   == NonceOf(m.id)
           e   == runStore[n]
           new == [worker |-> e.worker, for |-> e.id, status |-> "created"]
<1>1. "c16" \in Chans /\ "runner" \in Threads /\ "c9" \in OutChans
  BY DEF Chans, Threads, OutChans
<1>2. chan' \in [Chans -> Seq(MsgOf(Len(req)))] /\ n \in Nonce
  BY <1>1, TakesTyped DEF RunnerDatabaseResponds
<1>3. e \in EntryOf(Len(req)) /\ Len(req) \in Nat /\ Len(runs) \in Nat
  BY <1>2 DEF TypeInv, Recorded, InFlight
<1>4. /\ pend' \in [Threads -> Seq(SendOf(Len(req)))]
      /\ runStore' \in [Nonce -> EntryOf(Len(req))]
      /\ runs' \in Seq(Run)
  <2>1. CASE UNCHANGED <<pend, runVars>>
    BY <2>1 DEF runVars, TypeInv, Recorded, InFlight
  <2>2. CASE e.id # Absent /\ Resolve(e, n, FALSE, 0) /\ UNCHANGED runs
    BY <1>2, <1>3, <2>2, ResolveTyped DEF TypeInv, Recorded
  <2>3. CASE e.id # Absent /\ runs' = Append(runs, new)
    <3>1. e.id \in 1..Len(req) /\ e.worker \in Workers \cup {NoWorker}
      BY <1>3, <2>3 DEF EntryOf, Absent
    <3>2. e.id \in Ids
      BY <3>1, RequestTyped
    <3>3. runs' \in Seq(Run)
      <4>1. new \in Run
        BY <3>1, <3>2 DEF Run, Status
      <4>2. QED
        BY <2>3, <4>1 DEF TypeInv, Recorded
    <3>4. CASE Resolve(e, n, FALSE, 0)
      BY <1>2, <1>3, <2>3, <3>3, <3>4, ResolveTyped
    <3>5. CASE /\ Sends("runner", To("c9", Ask(e.id, "create", NewRunId, e.worker)))
               /\ UNCHANGED runStore
      <4>1. Ask(e.id, "create", NewRunId, e.worker) \in MsgOf(Len(req))
        <5>1. "create" \in Kinds /\ NewRunId \in Nat
          BY <1>3 DEF Kinds, NewRunId
        <5>2. QED
          BY <1>3, <3>1, <5>1, AskTyped
      <4>2. pend' \in [Threads -> Seq(SendOf(Len(req)))]
        BY <1>1, <3>5, <4>1, SendTyped
      <4>3. QED
        BY <3>3, <3>5, <4>2 DEF TypeInv, InFlight
    <3>6. QED
      BY <2>3, <3>4, <3>5 DEF RunnerDatabaseResponds
  <2>4. QED
    BY <2>1, <2>2, <2>3 DEF RunnerDatabaseResponds
<1>5. QED
  BY <1>2, <1>4 DEF RunnerDatabaseResponds, TypeInv, Recorded, InFlight, clientVars, procVars,
                    outerVars

LEMMA RunnerSocketRespondsTyped ==
  ASSUME TypeInv, RunnerSocketResponds
  PROVE  TypeInv'
<1> DEFINE m == Head(chan["c10"])
           n == NonceOf(m.id)
           e == runStore[n]
<1>1. "c10" \in Chans /\ "runner" \in Threads
  BY DEF Chans, Threads, OutChans
<1>2. chan' \in [Chans -> Seq(MsgOf(Len(req)))] /\ n \in Nonce /\ m \in MsgOf(Len(req))
  BY <1>1, TakesTyped DEF RunnerSocketResponds
<1>3. e \in EntryOf(Len(req)) /\ m.run \in Nat /\ m.ok \in BOOLEAN
  BY <1>2 DEF TypeInv, InFlight, MsgOf
<1>4. /\ pend' \in [Threads -> Seq(SendOf(Len(req)))]
      /\ runStore' \in [Nonce -> EntryOf(Len(req))]
      /\ runs' \in Seq(Run)
  <2>1. CASE UNCHANGED <<pend, runVars>>
    BY <2>1 DEF runVars, TypeInv, Recorded, InFlight
  <2>2. CASE e.id # Absent /\ Resolve(e, n, TRUE, m.run) /\ SetStatus(m.run, "active")
    <3>1. runs' \in Seq(Run)
      BY <2>2, SetStatusTyped DEF Status
    <3>2. QED
      BY <1>2, <1>3, <2>2, <3>1, ResolveTyped
  <2>3. CASE e.id # Absent /\ Resolve(e, n, m.ok, 0) /\ UNCHANGED runs
    BY <1>2, <1>3, <2>3, ResolveTyped DEF TypeInv, Recorded
  <2>4. QED
    BY <2>1, <2>2, <2>3 DEF RunnerSocketResponds
<1>5. QED
  BY <1>2, <1>4 DEF RunnerSocketResponds, TypeInv, Recorded, InFlight, clientVars, procVars,
                    outerVars

LEMMA DatabaseTyped ==
  ASSUME TypeInv, DatabaseServesProcessor \/ DatabaseServesRunner
  PROVE  TypeInv'
<1>1. /\ "c11" \in Chans /\ "c15" \in Chans /\ "database" \in Threads
      /\ "c12" \in OutChans /\ "c16" \in OutChans
  BY DEF Chans, Threads, OutChans
<1>2. \A m \in MsgOf(Len(req)), ok \in BOOLEAN :
        [m EXCEPT !.ok = ok] \in MsgOf(Len(req)) /\ m.run \in Nat
  BY DEF MsgOf
<1>3. CASE DatabaseServesProcessor
  <2>1. chan' \in [Chans -> Seq(MsgOf(Len(req)))] /\ Head(chan["c11"]) \in MsgOf(Len(req))
    BY <1>1, <1>3, TakesTyped DEF DatabaseServesProcessor
  <2>2. pend' \in [Threads -> Seq(SendOf(Len(req)))]
    BY <1>1, <1>2, <1>3, <2>1, SendTyped DEF DatabaseServesProcessor
  <2>3. QED
    BY <1>3, <2>1, <2>2 DEF DatabaseServesProcessor, TypeInv, Recorded, InFlight, clientVars,
                            procVars, runVars, outerVars
<1>4. CASE DatabaseServesRunner
  <2>1. chan' \in [Chans -> Seq(MsgOf(Len(req)))] /\ Head(chan["c15"]) \in MsgOf(Len(req))
    BY <1>1, <1>4, TakesTyped DEF DatabaseServesRunner
  <2>2. pend' \in [Threads -> Seq(SendOf(Len(req)))]
    BY <1>1, <1>2, <1>4, <2>1, SendTyped DEF DatabaseServesRunner
  <2>3. stats' \in Seq(Nat)
    BY <1>2, <1>4, <2>1 DEF DatabaseServesRunner, TypeInv, Recorded
  <2>4. QED
    BY <1>4, <2>1, <2>2, <2>3 DEF DatabaseServesRunner, TypeInv, Recorded, InFlight, clientVars,
                                  procVars, runVars, outerVars
<1>5. QED
  BY <1>3, <1>4

LEMMA SocketTyped ==
  ASSUME TypeInv, SocketServesRunner
  PROVE  TypeInv'
<1> DEFINE m      == Head(chan["c9"])
           letter == [kind |-> m.kind, run |-> m.run, worker |-> m.worker]
<1>1. "c9" \in Chans /\ "socket" \in Threads /\ "c10" \in OutChans
  BY DEF Chans, Threads, OutChans
<1>2. chan' \in [Chans -> Seq(MsgOf(Len(req)))] /\ m \in MsgOf(Len(req))
  BY <1>1, TakesTyped DEF SocketServesRunner
<1>3. PICK ok \in BOOLEAN :
        /\ ok => m.worker # NoWorker
        /\ wire' = IF ok THEN Append(wire, letter) ELSE wire
        /\ Sends("socket", To("c10", [m EXCEPT !.ok = ok]))
  BY DEF SocketServesRunner
<1>4. [m EXCEPT !.ok = ok] \in MsgOf(Len(req))
  BY <1>2 DEF MsgOf
<1>5. pend' \in [Threads -> Seq(SendOf(Len(req)))]
  BY <1>1, <1>3, <1>4, SendTyped
<1>6. wire' \in Seq(Letter)
  <2>1. wire \in Seq(Letter)
    BY DEF TypeInv, Recorded
  <2>2. CASE ok
    <3>1. letter \in Letter
      BY <1>2, <1>3, <2>2 DEF MsgOf, Letter
    <3>2. QED
      BY <1>3, <2>1, <2>2, <3>1
  <2>3. CASE ~ok
    BY <1>3, <2>1, <2>3
  <2>4. QED
    BY <2>2, <2>3
<1>7. QED
  BY <1>2, <1>5, <1>6 DEF SocketServesRunner, TypeInv, Recorded, InFlight, clientVars, procVars,
                          runVars
-----------------------------------------------------------------------------
(* Clients and blocked sends; the theorem. *)

LEMMA FlushTyped ==
  ASSUME TypeInv, NEW t \in Threads, Flush(t)
  PROVE  TypeInv'
<1> DEFINE s == Head(pend[t])
<1>1. pend[t] \in Seq(SendOf(Len(req))) /\ pend[t] # <<>>
  BY DEF Flush, TypeInv, InFlight
<1>2. s \in SendOf(Len(req)) /\ Tail(pend[t]) \in Seq(SendOf(Len(req)))
  BY <1>1
<1>3. s.ch \in Chans /\ s.msg \in MsgOf(Len(req))
  BY <1>2 DEF SendOf, Chans
<1>4. Append(chan[s.ch], s.msg) \in Seq(MsgOf(Len(req)))
  BY <1>3 DEF TypeInv, InFlight
<1>5. chan' = [chan EXCEPT ![s.ch] = Append(chan[s.ch], s.msg)]
  BY DEF Flush
<1>6. chan' \in [Chans -> Seq(MsgOf(Len(req)))]
  BY <1>4, <1>5 DEF TypeInv, InFlight
<1>7. pend' \in [Threads -> Seq(SendOf(Len(req)))]
  BY <1>2 DEF Flush, TypeInv, InFlight
<1>8. QED
  BY <1>6, <1>7 DEF Flush, TypeInv, Recorded, InFlight, clientVars, procVars, runVars, outerVars

LEMMA ClientReceivesTyped ==
  ASSUME TypeInv, NEW ch \in {"c6", "c8", "c19"}, ClientReceives(ch)
  PROVE  TypeInv'
<1>1. ch \in Chans
  BY DEF Chans, OutChans
<1>2. Tail(chan[ch]) \in Seq(MsgOf(Len(req)))
  BY <1>1 DEF ClientReceives, TypeInv, InFlight
<1>3. chan' \in [Chans -> Seq(MsgOf(Len(req)))]
  BY <1>2 DEF ClientReceives, TypeInv, InFlight
<1>4. QED
  BY <1>3 DEF ClientReceives, TypeInv, Recorded, InFlight, clientVars, procVars, runVars, outerVars

\* A nonce drawn from a pool stays in the range of all pools.
LEMMA NextNonceTyped ==
  ASSUME TypeInv, NEW s \in Sources
  PROVE  NextNonce(s) \in Nonce
<1>1. RangeSize \in Nat /\ cur[s] \in 0..(3 * RangeSize)
  BY RunControlAssumption DEF TypeInv, Recorded, Nonce
<1>2. PoolMin(s) \in {0, RangeSize, 2 * RangeSize} /\ PoolMax(s) = PoolMin(s) + RangeSize
  BY DEF Sources, PoolMin, PoolMax
<1>3. QED
  BY <1>1, <1>2 DEF NextNonce, Nonce

LEMMA IssueTyped ==
  ASSUME TypeInv, NEW s \in Sources, NEW act \in ActionSet, NEW run \in Nat, NEW rep,
         rep.status \in Status, rep.stat \in BOOLEAN, Issue(s, act, run, rep),
         ended' \in SUBSET Nat
  PROVE  TypeInv'
<1> DEFINE k == Len(req)
           r == [src |-> s, act |-> act, nonce |-> NextNonce(s), run |-> run,
                 status |-> rep.status, stat |-> rep.stat]
<1>1. k \in Nat /\ InFlight(k) /\ k < MaxRequests /\ MaxRequests \in Nat
  BY RunControlAssumption DEF Issue, TypeInv, Recorded
<1>2. r \in Request
  BY NextNonceTyped DEF Request
<1>3. req' \in Seq(Request) /\ Len(req') = k + 1
  BY <1>2 DEF Issue, TypeInv, Recorded
<1>4. InFlight(k + 1)
  BY <1>1, InFlightMonotonic
<1>5. Message(k + 1) \in MsgOf(k + 1)
  BY <1>1, MessageTyped
<1>6. chan' \in [Chans -> Seq(MsgOf(k + 1))]
  <2>1. chan \in [Chans -> Seq(MsgOf(k + 1))] /\ InOf(s) \in Chans
    BY <1>4, ChanNames DEF InFlight, Chans
  <2>2. Append(chan[InOf(s)], Message(k + 1)) \in Seq(MsgOf(k + 1))
    BY <1>5, <2>1
  <2>3. QED
    BY <2>1, <2>2 DEF Issue
<1>7. /\ pend' \in [Threads -> Seq(SendOf(k + 1))]
      /\ iReq' \in 0..(k + 1)
      /\ procStore' \in [Nonce -> 0..(k + 1)]
      /\ runStore' \in [Nonce -> EntryOf(k + 1)]
  BY <1>4 DEF Issue, InFlight, procVars, runVars
<1>8. cur' \in [Sources -> Nonce]
  BY NextNonceTyped DEF Issue, TypeInv, Recorded
<1>9. Recorded'
  BY <1>1, <1>3, <1>8 DEF Issue, TypeInv, Recorded, procVars, runVars
<1>10. QED
  BY <1>3, <1>6, <1>7, <1>9 DEF TypeInv, InFlight

LEMMA InitTyped == Init => TypeInv
<1> SUFFICES ASSUME Init PROVE TypeInv
  OBVIOUS
<1>1. Len(req) = 0
  BY DEF Init
<1>2. Recorded
  <2>1. 0 \in Nonce /\ 0 <= MaxRequests
    BY RunControlAssumption DEF Nonce
  <2>2. \A S : <<>> \in Seq(S)
    OBVIOUS
  <2>3. QED
    BY <2>1, <2>2 DEF Init, Recorded
<1>3. InFlight(0)
  BY DEF Init, InFlight, Chans, Absent, NoEntry, EntryOf
<1>4. QED
  BY <1>1, <1>2, <1>3 DEF TypeInv

LEMMA StepTyped == TypeInv /\ [Next]_vars => TypeInv'
<1> SUFFICES ASSUME TypeInv, [Next]_vars PROVE TypeInv'
  OBVIOUS
<1>1. CASE UNCHANGED vars
  BY <1>1 DEF vars, TypeInv, Recorded, InFlight
<1>2. CASE Clients
  <2>1. NoReport.status \in Status /\ NoReport.stat \in BOOLEAN /\ 0 \in Nat
    BY DEF NoReport, Status
  <2>2. /\ {"Query", "Create", "Get", "Update", "Delete"} = ActionSet
        /\ "HttpClient" \in Sources /\ "Socket" \in Sources
    BY DEF ActionSet, Sources
  <2>3. ASSUME NEW s \in Sources, IssueQuery(s) \/ IssueCreateRun(s) PROVE TypeInv'
    <3>1. ended' \in SUBSET Nat
      BY <2>3 DEF IssueQuery, IssueCreateRun, TypeInv, Recorded
    <3>2. PICK act \in ActionSet : Issue(s, act, 0, NoReport)
      BY <2>2, <2>3 DEF IssueQuery, IssueCreateRun
    <3>3. QED
      BY <2>1, <3>1, <3>2, IssueTyped
  <2>4. ASSUME NEW r \in RunArgs, IssueGetRun(r) \/ IssueStopRun(r) PROVE TypeInv'
    <3>1. ended' \in SUBSET Nat /\ r \in Nat
      BY <2>4, RunControlAssumption DEF IssueGetRun, IssueStopRun, TypeInv, Recorded
    <3>2. PICK act \in ActionSet : Issue("HttpClient", act, r, NoReport)
      BY <2>2, <2>4 DEF IssueGetRun, IssueStopRun
    <3>3. QED
      BY <2>1, <2>2, <3>1, <3>2, IssueTyped
  <2>5. ASSUME NEW r \in 1..Len(runs), NEW rep \in Reports, WorkerReports(r, rep) PROVE TypeInv'
    <3>1. rep.status \in Status /\ rep.stat \in BOOLEAN
      BY RunControlAssumption
    <3>2. ended' \in SUBSET Nat /\ r \in Nat
      BY <2>5 DEF WorkerReports, TypeInv, Recorded
    <3>3. QED
      BY <2>2, <2>5, <3>1, <3>2, IssueTyped DEF WorkerReports
  <2>6. ASSUME NEW ch \in {"c6", "c8", "c19"}, ClientReceives(ch) PROVE TypeInv'
    BY <2>6, ClientReceivesTyped
  <2>7. QED
    BY <1>2, <2>3, <2>4, <2>5, <2>6 DEF Clients
<1>3. CASE ProcessorThread
  BY <1>3, ProcQueryTyped, ProcCreateRunTyped, ProcForwardTyped, ProcPipelineTyped,
     ProcRunnerRespondsTyped DEF ProcessorThread
<1>4. CASE RunnerThread
  BY <1>4, RunnerGetRunTyped, RunnerCreateRunTyped, RunnerUpdateRunTyped, RunnerDeleteRunTyped,
     RunnerDatabaseRespondsTyped, RunnerSocketRespondsTyped DEF RunnerThread
<1>5. CASE DatabaseServesProcessor \/ DatabaseServesRunner
  BY <1>5, DatabaseTyped
<1>6. CASE SocketServesRunner
  BY <1>6, SocketTyped
<1>7. CASE \E t \in Threads : Flush(t)
  BY <1>7, FlushTyped
<1>8. QED
  BY <1>1, <1>2, <1>3, <1>4, <1>5, <1>6, <1>7 DEF Next

\* Every variable keeps its type, for any number of workers, requests and nonces: in
\* particular what is in flight or stored is always about a request that was issued, so
\* the loops never dispatch a response on a nonce that nobody drew.
THEOREM TypeCorrect == Spec => []TypeOK
<1>1. Spec => []TypeInv
  BY InitTyped, StepTyped, PTL DEF Spec
<1>2. TypeInv => TypeOK
  BY ImpliesTypeOK
<1>3. QED
  BY <1>1, <1>2, PTL
-----------------------------------------------------------------------------
(* No request is answered twice.  What makes it inductive: a request is either queued  *)
(* once on the channel of its client, or stored under its own nonce, or forgotten; and *)
(* only a forgotten request has an answer.                                             *)

Waits(id) == \E s \in Sources : \E i \in 1..Len(chan[InOf(s)]) : chan[InOf(s)][i].id = id

InLine ==
  \A s \in Sources : \A i \in 1..Len(chan[InOf(s)]) :
    /\ req[chan[InOf(s)][i].id].src = s
    /\ \A j \in 1..Len(chan[InOf(s)]) : chan[InOf(s)][j].id = chan[InOf(s)][i].id => j = i

Unseen ==
  \A id \in Ids : Waits(id) => answers[id] = <<>> /\ \A n \in Nonce : procStore[n] # id

Open ==
  \A n \in Nonce : procStore[n] # Absent =>
    NonceOf(procStore[n]) = n /\ answers[procStore[n]] = <<>>

Fresh == \A id \in Ids : id > Len(req) => answers[id] = <<>>

Once    == InLine /\ Unseen /\ Open /\ Fresh /\ AtMostOneAnswer
OnceInv == TypeInv /\ Once

\* A step that leaves the processor thread's inputs and bookkeeping alone.
LEMMA OnceUndisturbed ==
  ASSUME OnceInv, UNCHANGED <<req, procStore, answers>>,
         \A s \in Sources : chan'[InOf(s)] = chan[InOf(s)]
  PROVE  Once'
<1>1. \A id : Waits(id)' <=> Waits(id)
  BY DEF Waits
<1>2. InLine'
  BY DEF OnceInv, Once, InLine
<1>3. Unseen' /\ Open' /\ Fresh' /\ AtMostOneAnswer'
  BY <1>1 DEF OnceInv, Once, Unseen, Open, Fresh, AtMostOneAnswer, NonceOf
<1>4. QED
  BY <1>2, <1>3 DEF Once

\* A step that only takes from, or appends to, channels the clients do not send on.
LEMMA InputsKept ==
  ASSUME TypeInv, NEW ch \in OutChans, NEW x, chan' = [chan EXCEPT ![ch] = x]
  PROVE  \A s \in Sources : chan'[InOf(s)] = chan[InOf(s)]
<1>1. \A s \in Sources : InOf(s) \in Chans /\ InOf(s) # ch
  BY ChanNames DEF Chans
<1>2. QED
  BY <1>1 DEF TypeInv, InFlight

LEMMA TailShifts ==
  ASSUME NEW S, NEW c \in Seq(S), c # <<>>
  PROVE  /\ 1 \in 1..Len(c) /\ Head(c) = c[1]
         /\ \A i \in 1..Len(Tail(c)) : /\ i \in Int
                                       /\ i + 1 \in 1..Len(c)
                                       /\ i + 1 # 1
                                       /\ Tail(c)[i] = c[i + 1]
<1>1. Len(c) \in Nat \ {0} /\ Head(c) = c[1]
  BY EmptySeq
<1>2. Len(Tail(c)) = Len(c) - 1 /\ \A i \in 1..Len(Tail(c)) : Tail(c)[i] = c[i + 1]
  BY HeadTailProperties
<1>3. \A i \in 1..(Len(c) - 1) : i \in Int /\ i + 1 \in 1..Len(c) /\ i + 1 # 1
  BY <1>1
<1>4. QED
  BY <1>1, <1>2, <1>3

\* The processor thread takes a request: it waited, and now it does not.
LEMMA TakenOnce ==
  ASSUME OnceInv, NEW s \in Sources, Takes("processor", InOf(s)), UNCHANGED req,
         NEW id, id = Head(chan[InOf(s)]).id
  PROVE  /\ id \in 1..Len(req)
         /\ Waits(id) /\ ~Waits(id)'
         /\ \A x : Waits(x)' => Waits(x)
         /\ InLine'
<1> DEFINE c == chan[InOf(s)]
<1>1. \A u \in Sources : InOf(u) \in Chans /\ (InOf(u) = InOf(s) => u = s)
  BY ChanNames DEF Chans
<1>2. c \in Seq(MsgOf(Len(req))) /\ c # <<>> /\ "processor" \in Threads
  BY <1>1 DEF OnceInv, TypeInv, InFlight, Takes, Threads
<1>3. 1 \in 1..Len(c) /\ Head(c) = c[1]
  BY <1>2, TailShifts
<1>4. /\ \A i \in 1..Len(chan'[InOf(s)]) : /\ i \in Int
                                          /\ i + 1 \in 1..Len(c)
                                          /\ i + 1 # 1
                                          /\ chan'[InOf(s)][i] = c[i + 1]
      /\ \A u \in Sources \ {s} : chan'[InOf(u)] = chan[InOf(u)]
  <2>1. chan'[InOf(s)] = Tail(c)
    BY <1>1 DEF OnceInv, TypeInv, InFlight, Takes
  <2>2. \A u \in Sources \ {s} : chan'[InOf(u)] = chan[InOf(u)]
    BY <1>1 DEF OnceInv, TypeInv, InFlight, Takes
  <2>3. QED
    BY <1>2, <2>1, <2>2, TailShifts
<1>5. id \in 1..Len(req)
  BY <1>1, <1>2, TakesTyped DEF OnceInv
<1>6. req[id].src = s /\ \A j \in 1..Len(c) : c[j].id = id => j = 1
  BY <1>3 DEF OnceInv, Once, InLine
<1>7. Waits(id)
  BY <1>3 DEF Waits
<1>8. \A x : Waits(x)' => Waits(x)
  <2> SUFFICES ASSUME NEW x, NEW u \in Sources, NEW i \in 1..Len(chan'[InOf(u)]),
                      chan'[InOf(u)][i].id = x
               PROVE  Waits(x)
    BY DEF Waits
  <2>1. CASE u = s
    <3>1. i + 1 \in 1..Len(c) /\ c[i + 1].id = x
      BY <1>4, <2>1
    <3>2. QED
      BY <3>1 DEF Waits
  <2>2. CASE u # s
    BY <1>4, <2>2 DEF Waits
  <2>3. QED
    BY <2>1, <2>2
<1>9. ~Waits(id)'
  <2> SUFFICES ASSUME NEW u \in Sources, NEW i \in 1..Len(chan'[InOf(u)]),
                      chan'[InOf(u)][i].id = id
               PROVE  FALSE
    BY DEF Waits
  <2>1. CASE u = s
    <3>1. i + 1 \in 1..Len(c) /\ c[i + 1].id = id /\ i + 1 # 1
      BY <1>4, <2>1
    <3>2. QED
      BY <1>6, <3>1
  <2>2. CASE u # s
    BY <1>4, <1>6, <2>2 DEF OnceInv, Once, InLine
  <2>3. QED
    BY <2>1, <2>2
<1>10. InLine'
  <2> SUFFICES ASSUME NEW u \in Sources, NEW i \in 1..Len(chan'[InOf(u)])
               PROVE  /\ req[chan'[InOf(u)][i].id].src = u
                      /\ \A j \in 1..Len(chan'[InOf(u)]) :
                           chan'[InOf(u)][j].id = chan'[InOf(u)][i].id => j = i
    BY DEF InLine
  <2>1. CASE u = s
    <3>1. \A j \in 1..Len(chan'[InOf(u)]) :
            j \in Int /\ j + 1 \in 1..Len(c) /\ chan'[InOf(u)][j] = c[j + 1]
      BY <1>4, <2>1
    <3>2. /\ req[c[i + 1].id].src = s
          /\ \A j \in 1..Len(c) : c[j].id = c[i + 1].id => j = i + 1
      BY <3>1 DEF OnceInv, Once, InLine
    <3>3. \A j \in 1..Len(chan'[InOf(u)]) :
            chan'[InOf(u)][j].id = chan'[InOf(u)][i].id => j + 1 = i + 1
      BY <3>1, <3>2
    <3>4. \A j \in Int : j + 1 = i + 1 => j = i
      BY <3>1
    <3>5. QED
      BY <2>1, <3>1, <3>2, <3>3, <3>4
  <2>2. CASE u # s
    BY <1>4, <2>2 DEF OnceInv, Once, InLine
  <2>3. QED
    BY <2>1, <2>2
<1>11. QED
  BY <1>5, <1>7, <1>8, <1>9, <1>10

\* The request taken is stored and forwarded, or answered at once.
LEMMA StoredOnce ==
  ASSUME OnceInv, NEW s \in Sources, Takes("processor", InOf(s)), UNCHANGED <<req, answers>>,
         NEW id, id = Head(chan[InOf(s)]).id, procStore' = [procStore EXCEPT ![NonceOf(id)] = id]
  PROVE  Once'
<1>1. /\ id \in 1..Len(req) /\ id \in Ids /\ NonceOf(id) \in Nonce
      /\ Waits(id) /\ ~Waits(id)'
      /\ \A x : Waits(x)' => Waits(x)
      /\ InLine'
  BY TakenOnce, RequestTyped DEF OnceInv
<1>2. \A n \in Nonce : procStore'[n] = IF n = NonceOf(id) THEN id ELSE procStore[n]
  BY DEF OnceInv, TypeInv, InFlight
<1>3. Unseen'
  <2> SUFFICES ASSUME NEW x \in Ids, Waits(x)'
               PROVE  answers'[x] = <<>> /\ \A n \in Nonce : procStore'[n] # x
    BY DEF Unseen
  <2>1. Waits(x) /\ x # id
    BY <1>1
  <2>2. QED
    BY <1>2, <2>1 DEF OnceInv, Once, Unseen
<1>4. Open'
  BY <1>1, <1>2 DEF OnceInv, Once, Unseen, Open, NonceOf
<1>5. Fresh' /\ AtMostOneAnswer'
  BY DEF OnceInv, Once, Fresh, AtMostOneAnswer
<1>6. QED
  BY <1>1, <1>3, <1>4, <1>5 DEF Once

LEMMA AnsweredAtOnce ==
  ASSUME OnceInv, NEW s \in Sources, Takes("processor", InOf(s)), UNCHANGED <<req, procStore>>,
         NEW id, id = Head(chan[InOf(s)]).id, NEW a, answers' = [answers EXCEPT ![id] = Append(@, a)]
  PROVE  Once'
<1>1. /\ id \in 1..Len(req) /\ id \in Ids
      /\ Waits(id) /\ ~Waits(id)'
      /\ \A x : Waits(x)' => Waits(x)
      /\ InLine'
  BY TakenOnce, RequestTyped DEF OnceInv
<1>2. answers[id] = <<>> /\ \A n \in Nonce : procStore[n] # id
  BY <1>1 DEF OnceInv, Once, Unseen
<1>3. /\ Len(answers'[id]) = 1
      /\ \A x \in Ids \ {id} : answers'[x] = answers[x]
  BY <1>1, <1>2 DEF OnceInv, TypeInv, Recorded
<1>4. Unseen'
  <2> SUFFICES ASSUME NEW x \in Ids, Waits(x)'
               PROVE  answers'[x] = <<>> /\ \A n \in Nonce : procStore'[n] # x
    BY DEF Unseen
  <2>1. Waits(x) /\ x # id
    BY <1>1
  <2>2. QED
    BY <1>3, <2>1 DEF OnceInv, Once, Unseen
<1>5. Open'
  <2>1. \A n \in Nonce : procStore[n] # Absent => procStore[n] \in Ids \ {id}
    <3> SUFFICES ASSUME NEW n \in Nonce, procStore[n] # Absent
                 PROVE  procStore[n] \in Ids
      BY <1>2
    <3>1. procStore[n] \in 0..Len(req) /\ Len(req) \in Nat
      BY DEF OnceInv, TypeInv, Recorded, InFlight
    <3>2. procStore[n] \in 1..Len(req)
      BY <3>1 DEF Absent
    <3>3. QED
      BY <3>2, RequestTyped DEF OnceInv
  <2>2. QED
    BY <1>3, <2>1 DEF OnceInv, Once, Open, NonceOf
<1>6. Fresh'
  <2>1. \A x \in Ids : x > Len(req) => x # id
    BY <1>1 DEF OnceInv, TypeInv, Recorded, Ids
  <2>2. QED
    BY <1>3, <2>1 DEF OnceInv, Once, Fresh
<1>7. AtMostOneAnswer'
  BY <1>3 DEF OnceInv, Once, AtMostOneAnswer
<1>8. QED
  BY <1>1, <1>4, <1>5, <1>6, <1>7 DEF Once

\* A stored request is answered and forgotten: its own nonce is the one it is stored under,
\* so no copy of it stays behind.
LEMMA AnsweredFromStore ==
  ASSUME OnceInv, UNCHANGED req, \A s \in Sources : chan'[InOf(s)] = chan[InOf(s)],
         NEW n \in Nonce, NEW id, id = procStore[n], id # Absent,
         Forget(n), NEW a, answers' = [answers EXCEPT ![id] = Append(@, a)]
  PROVE  Once'
<1>1. id \in 1..Len(req) /\ id \in Ids
  <2>1. Len(req) \in Nat /\ id \in 0..Len(req)
    BY DEF OnceInv, TypeInv, Recorded, InFlight
  <2>2. id \in 1..Len(req)
    BY <2>1 DEF Absent
  <2>3. QED
    BY <2>2, RequestTyped DEF OnceInv
<1>2. NonceOf(id) = n /\ answers[id] = <<>> /\ ~Waits(id)
  BY <1>1 DEF OnceInv, Once, Open, Unseen
<1>3. /\ Len(answers'[id]) = 1
      /\ \A x \in Ids \ {id} : answers'[x] = answers[x]
  BY <1>1, <1>2 DEF OnceInv, TypeInv, Recorded
<1>4. \A x : Waits(x)' <=> Waits(x)
  BY DEF Waits
<1>5. \A k \in Nonce : procStore'[k] = IF k = n THEN Absent ELSE procStore[k]
  BY DEF Forget, OnceInv, TypeInv, InFlight
<1>6. InLine'
  BY DEF OnceInv, Once, InLine
<1>7. Unseen'
  <2>1. Absent \notin Ids
    BY DEF Absent, Ids
  <2>2. QED
    BY <1>2, <1>3, <1>4, <1>5, <2>1 DEF OnceInv, Once, Unseen
<1>8. Open'
  <2> SUFFICES ASSUME NEW k \in Nonce, procStore'[k] # Absent
               PROVE  req'[procStore'[k]].nonce = k /\ answers'[procStore'[k]] = <<>>
    BY DEF Open, NonceOf
  <2>1. k # n /\ procStore'[k] = procStore[k] /\ procStore[k] # Absent
    BY <1>5
  <2>2. NonceOf(procStore[k]) = k /\ answers[procStore[k]] = <<>>
    BY <2>1 DEF OnceInv, Once, Open
  <2>3. procStore[k] # id /\ procStore[k] \in Ids
    <3>1. procStore[k] \in 0..Len(req) /\ Len(req) \in Nat
      BY DEF OnceInv, TypeInv, Recorded, InFlight
    <3>2. procStore[k] \in 1..Len(req)
      BY <2>1, <3>1 DEF Absent
    <3>3. QED
      BY <1>2, <2>1, <2>2, <3>2, RequestTyped DEF OnceInv
  <2>4. QED
    BY <1>3, <2>1, <2>2, <2>3 DEF NonceOf
<1>9. Fresh'
  <2>1. \A x \in Ids : x > Len(req) => x # id
    BY <1>1 DEF OnceInv, TypeInv, Recorded, Ids
  <2>2. QED
    BY <1>3, <2>1 DEF OnceInv, Once, Fresh
<1>10. AtMostOneAnswer'
  BY <1>3 DEF OnceInv, Once, AtMostOneAnswer
<1>11. QED
  BY <1>6, <1>7, <1>8, <1>9, <1>10 DEF Once

LEMMA IssuedOnce ==
  ASSUME OnceInv, NEW s \in Sources, NEW act, NEW run, NEW rep, Issue(s, act, run, rep)
  PROVE  Once'
<1> DEFINE k == Len(req)
           c == chan[InOf(s)]
<1>1. /\ k \in Nat /\ k + 1 \in Ids /\ req \in Seq(Request)
      /\ Len(req') = k + 1 /\ req'[k + 1].src = s
      /\ \A id \in 1..k : req'[id] = req[id]
  <2> DEFINE r == [src |-> s, act |-> act, nonce |-> NextNonce(s), run |-> run,
                   status |-> rep.status, stat |-> rep.stat]
  <2>1. k \in Nat /\ req \in Seq(Request) /\ k < MaxRequests /\ req' = Append(req, r)
    BY DEF OnceInv, TypeInv, Recorded, Issue
  <2>2. k + 1 \in Ids
    BY <2>1, RunControlAssumption DEF Ids
  <2>3. r.src = s
    OBVIOUS
  <2> HIDE DEF r
  <2>4. /\ Len(req') = k + 1 /\ req'[k + 1] = r
        /\ \A id \in 1..k : req'[id] = req[id]
    BY <2>1
  <2>5. QED
    BY <2>1, <2>2, <2>3, <2>4
<1>2. \A u \in Sources : /\ InOf(u) \in Chans
                         /\ chan[InOf(u)] \in Seq(MsgOf(k))
                         /\ (InOf(u) = InOf(s) => u = s)
  BY ChanNames DEF Chans, OnceInv, TypeInv, InFlight
<1>3. /\ chan'[InOf(s)] = Append(c, Message(k + 1))
      /\ \A u \in Sources \ {s} : chan'[InOf(u)] = chan[InOf(u)]
  BY <1>2 DEF OnceInv, TypeInv, InFlight, Issue
<1>4. \A u \in Sources : \A i \in 1..Len(chan[InOf(u)]) : chan[InOf(u)][i].id \in 1..k
  <2> SUFFICES ASSUME NEW u \in Sources, NEW i \in 1..Len(chan[InOf(u)])
               PROVE  chan[InOf(u)][i].id \in 1..k
    OBVIOUS
  <2>1. chan[InOf(u)][i] \in MsgOf(k)
    BY <1>2, ElementOfSeq
  <2>2. QED
    BY <2>1 DEF MsgOf
<1>5. /\ Len(c) \in Nat /\ Len(chan'[InOf(s)]) = Len(c) + 1
      /\ chan'[InOf(s)][Len(c) + 1].id = k + 1
      /\ \A i \in 1..Len(c) : chan'[InOf(s)][i] = c[i]
  <2>1. Message(k + 1).id = k + 1
    BY DEF Message
  <2>2. QED
    BY <1>2, <1>3, <2>1
<1>6. \A x : Waits(x)' => Waits(x) \/ x = k + 1
  <2> SUFFICES ASSUME NEW x, NEW u \in Sources, NEW i \in 1..Len(chan'[InOf(u)]),
                      chan'[InOf(u)][i].id = x
               PROVE  Waits(x) \/ x = k + 1
    BY DEF Waits
  <2>1. CASE u = s
    <3>1. i = Len(c) + 1 \/ i \in 1..Len(c)
      BY <1>5, <2>1
    <3>2. QED
      BY <1>5, <2>1, <3>1 DEF Waits
  <2>2. CASE u # s
    BY <1>3, <2>2 DEF Waits
  <2>3. QED
    BY <2>1, <2>2
<1>7. InLine'
  <2> SUFFICES ASSUME NEW u \in Sources, NEW i \in 1..Len(chan'[InOf(u)])
               PROVE  /\ req'[chan'[InOf(u)][i].id].src = u
                      /\ \A j \in 1..Len(chan'[InOf(u)]) :
                           chan'[InOf(u)][j].id = chan'[InOf(u)][i].id => j = i
    BY DEF InLine
  <2>1. CASE u = s
    <3>1. \A j \in 1..Len(chan'[InOf(u)]) : j = Len(c) + 1 \/ j \in 1..Len(c)
      BY <1>5, <2>1
    <3>2. ASSUME NEW j \in 1..Len(c) PROVE chan'[InOf(s)][j].id # k + 1
      <4>1. c[j].id \in 1..k
        BY <1>4
      <4>2. chan'[InOf(s)][j] = c[j]
        BY <1>5
      <4>3. QED
        BY ONLY <1>1, <4>1, <4>2
    <3>3. CASE i = Len(c) + 1
      BY <1>1, <1>5, <2>1, <3>1, <3>2, <3>3
    <3>4. CASE i \in 1..Len(c)
      <4>1. req[c[i].id].src = s /\ \A j \in 1..Len(c) : c[j].id = c[i].id => j = i
        BY <3>4 DEF OnceInv, Once, InLine
      <4>2. QED
        <5>1. c[i].id \in 1..k /\ c[i].id # k + 1 /\ chan'[InOf(s)][i] = c[i]
          BY <1>1, <1>4, <1>5, <3>4
        <5>2. req'[c[i].id].src = s
          BY <1>1, <4>1, <5>1
        <5>3. ASSUME NEW j \in 1..Len(chan'[InOf(s)]), chan'[InOf(s)][j].id = c[i].id
              PROVE  j = i
          <6>1. j \in 1..Len(c)
            BY <1>5, <2>1, <3>1, <5>1, <5>3
          <6>2. QED
            BY <1>5, <4>1, <5>3, <6>1
        <5>4. QED
          BY <2>1, <5>1, <5>2, <5>3
    <3>5. QED
      BY <3>1, <3>3, <3>4
  <2>2. CASE u # s
    <3>1. chan'[InOf(u)] = chan[InOf(u)]
      BY <1>3, <2>2
    <3>2. /\ req[chan[InOf(u)][i].id].src = u
          /\ \A j \in 1..Len(chan[InOf(u)]) : chan[InOf(u)][j].id = chan[InOf(u)][i].id => j = i
      BY <3>1 DEF OnceInv, Once, InLine
    <3>3. QED
      BY <1>1, <1>4, <3>1, <3>2
  <2>3. QED
    BY <2>1, <2>2
<1>8. UNCHANGED <<procStore, answers>>
  BY DEF Issue, procVars
<1>9. \A n \in Nonce : procStore[n] \in 0..k
  BY DEF OnceInv, TypeInv, InFlight
<1>10. Unseen'
  <2> SUFFICES ASSUME NEW x \in Ids, Waits(x)'
               PROVE  answers[x] = <<>> /\ \A n \in Nonce : procStore[n] # x
    BY <1>8 DEF Unseen
  <2>1. CASE Waits(x)
    BY <2>1 DEF OnceInv, Once, Unseen
  <2>2. CASE x = k + 1
    BY <1>1, <1>9, <2>2 DEF OnceInv, Once, Fresh
  <2>3. QED
    BY <1>6, <2>1, <2>2
<1>11. Open'
  <2> SUFFICES ASSUME NEW n \in Nonce, procStore[n] # Absent
               PROVE  req'[procStore[n]].nonce = n /\ answers[procStore[n]] = <<>>
    BY <1>8 DEF Open, NonceOf
  <2>1. procStore[n] \in 1..k
    BY <1>1, <1>9 DEF Absent
  <2>2. QED
    BY <1>1, <2>1 DEF OnceInv, Once, Open, NonceOf
<1>12. Fresh'
  BY <1>1, <1>8 DEF OnceInv, Once, Fresh, Ids
<1>13. AtMostOneAnswer'
  BY <1>8 DEF OnceInv, Once, AtMostOneAnswer
<1>14. QED
  BY <1>7, <1>10, <1>11, <1>12, <1>13 DEF Once

\* A step that neither takes from the clients nor touches the processor thread's records.
LEMMA OthersOnce ==
  ASSUME OnceInv,
         \/ RunnerThread \/ DatabaseServesProcessor \/ DatabaseServesRunner
         \/ SocketServesRunner \/ \E t \in Threads : Flush(t)
         \/ \E ch \in {"c6", "c8", "c19"} : ClientReceives(ch)
  PROVE  Once'
<1>1. PICK ch \in OutChans : \E x : chan' = [chan EXCEPT ![ch] = x]
  <2>1. {"c6", "c8", "c9", "c10", "c11", "c13", "c15", "c16", "c19"} \subseteq OutChans
    BY DEF OutChans
  <2>2. CASE RunnerThread
    <3>1. Takes("runner", "c13") \/ Takes("runner", "c16") \/ Takes("runner", "c10")
      BY <2>2, Zenon DEF RunnerThread, RunnerGetRun, RunnerCreateRun, RunnerUpdateRun, RunnerDeleteRun,
                  RunnerTakes, RunnerDatabaseResponds, RunnerSocketResponds
    <3>2. QED
      BY <2>1, <3>1, SMTT(30) DEF Takes
  <2>3. CASE DatabaseServesProcessor \/ DatabaseServesRunner \/ SocketServesRunner
    BY <2>1, <2>3 DEF DatabaseServesProcessor, DatabaseServesRunner, SocketServesRunner, Takes
  <2>4. ASSUME NEW t \in Threads, Flush(t) PROVE \E c \in OutChans : \E x : chan' = [chan EXCEPT ![c] = x]
    <3>1. pend[t] \in Seq(SendOf(Len(req))) /\ pend[t] # <<>>
      BY <2>4 DEF Flush, OnceInv, TypeInv, InFlight
    <3>2. Head(pend[t]) \in SendOf(Len(req))
      BY <3>1
    <3>3. Head(pend[t]).ch \in OutChans
      BY <3>2, SMTT(30) DEF SendOf
    <3>4. chan' = [chan EXCEPT ![Head(pend[t]).ch] = Append(@, Head(pend[t]).msg)]
      BY <2>4 DEF Flush
    <3>5. QED
      BY <3>3, <3>4
  <2>5. CASE \E c \in {"c6", "c8", "c19"} : ClientReceives(c)
    BY <2>1, <2>5 DEF ClientReceives
  <2>6. QED
    BY <2>2, <2>3, <2>4, <2>5
<1>2. \A s \in Sources : chan'[InOf(s)] = chan[InOf(s)]
  BY <1>1, InputsKept DEF OnceInv
<1>3. UNCHANGED <<req, procStore, answers>>
  BY Zenon DEF RunnerThread, RunnerGetRun, RunnerCreateRun, RunnerUpdateRun, RunnerDeleteRun, RunnerTakes,
         RunnerDatabaseResponds, RunnerSocketResponds, DatabaseServesProcessor,
         DatabaseServesRunner, SocketServesRunner, Flush, ClientReceives, clientVars, procVars
<1>4. QED
  BY <1>2, <1>3, OnceUndisturbed

LEMMA ProcessorOnce ==
  ASSUME OnceInv, ProcessorThread
  PROVE  Once'
<1>1. \A ch \in {"c12", "c14"} :
        Takes("processor", ch) => \A s \in Sources : chan'[InOf(s)] = chan[InOf(s)]
  <2>1. {"c12", "c14"} \subseteq OutChans
    BY DEF OutChans
  <2>2. QED
    BY <2>1, InputsKept DEF Takes, OnceInv
<1>2. ASSUME NEW s \in Sources, ProcQuery(s) PROVE Once'
  <2>1. PICK id : id = Head(chan[InOf(s)]).id /\ iReq' = id
    BY <1>2 DEF ProcQuery, ProcTakesRequest
  <2>2. PICK a : answers' = [answers EXCEPT ![id] = Append(@, a)]
    BY <1>2, <2>1 DEF ProcQuery, Answers
  <2>3. QED
    BY <1>2, <2>1, <2>2, AnsweredAtOnce DEF ProcQuery, ProcTakesRequest, clientVars
<1>3. ASSUME NEW s \in Sources, ProcCreateRun(s) \/ ProcForward(s) PROVE Once'
  <2>1. PICK id : id = Head(chan[InOf(s)]).id /\ iReq' = id
    BY <1>3 DEF ProcCreateRun, ProcForward, ProcTakesRequest
  <2>2. /\ Takes("processor", InOf(s)) /\ UNCHANGED <<req, answers>>
        /\ procStore' = [procStore EXCEPT ![NonceOf(id)] = id]
    BY <1>3, <2>1 DEF ProcCreateRun, ProcForward, ProcTakesRequest, NonceOf, clientVars
  <2>3. QED
    BY <2>1, <2>2, StoredOnce
<1>4. CASE ProcPipeline
  <2> DEFINE n == NonceOf(Head(chan["c12"]).id)
  <2>1. /\ UNCHANGED req
        /\ \A s \in Sources : chan'[InOf(s)] = chan[InOf(s)]
    BY <1>1, <1>4 DEF ProcPipeline, clientVars
  <2>2. n \in Nonce
    BY <1>4, TakesTyped DEF OnceInv, ProcPipeline, Chans, OutChans, Threads
  <2>3. CASE UNCHANGED <<procStore, answers>>
    BY <2>1, <2>3, OnceUndisturbed
  <2>4. CASE /\ procStore[n] # Absent /\ Forget(n)
             /\ Answers(procStore[n], procStore[n], FALSE, 0)
    <3>1. PICK k, id : k = n /\ id = procStore[n]
      OBVIOUS
    <3>2. PICK a : answers' = [answers EXCEPT ![id] = Append(@, a)]
      BY <2>4, <3>1, Zenon DEF Answers
    <3>3. id = procStore[k] /\ id # Absent /\ Forget(k) /\ k \in Nonce
      BY <2>2, <2>4, <3>1
    <3>4. QED
      BY <2>1, <3>2, <3>3, AnsweredFromStore, Zenon
  <2>5. QED
    BY <1>4, <2>3, <2>4 DEF ProcPipeline
<1>5. CASE ProcRunnerResponds
  <2> DEFINE m == Head(chan["c14"])
             x == procStore[NonceOf(iReq)]
  <2>1. /\ UNCHANGED req
        /\ \A s \in Sources : chan'[InOf(s)] = chan[InOf(s)]
    BY <1>1, <1>5 DEF ProcRunnerResponds, clientVars
  <2>2. CASE UNCHANGED <<procStore, answers>>
    BY <2>1, <2>2, OnceUndisturbed
  <2>3. CASE iReq # Absent /\ x # Absent
    <3>1. NonceOf(iReq) \in Nonce
      <4>1. iReq \in 0..Len(req) /\ Len(req) \in Nat
        BY DEF OnceInv, TypeInv, Recorded, InFlight
      <4>2. iReq \in 1..Len(req)
        BY <2>3, <4>1 DEF Absent
      <4>3. QED
        BY <4>2, RequestTyped DEF OnceInv
    <3>2. NonceOf(x) = NonceOf(iReq)
      BY <2>3, <3>1 DEF OnceInv, Once, Open
    <3>3. PICK k, id : k = NonceOf(iReq) /\ id = x
      OBVIOUS
    <3>4. Forget(k) /\ \E ok \in BOOLEAN : Answers(id, m.id, ok, m.run)
      BY <1>5, <2>3, <3>2, <3>3 DEF ProcRunnerResponds
    <3>5. PICK a : answers' = [answers EXCEPT ![id] = Append(@, a)]
      BY <3>4 DEF Answers
    <3>6. id = procStore[k] /\ id # Absent /\ k \in Nonce
      BY <2>3, <3>1, <3>3
    <3>7. QED
      BY <2>1, <3>4, <3>5, <3>6, AnsweredFromStore
  <2>4. QED
    BY <1>5, <2>2, <2>3 DEF ProcRunnerResponds, procVars
<1>6. QED
  BY <1>2, <1>3, <1>4, <1>5 DEF ProcessorThread

LEMMA InitOnce == Init => OnceInv
<1> SUFFICES ASSUME Init PROVE OnceInv
  OBVIOUS
<1>1. TypeInv
  BY InitTyped
<1>2. \A s \in Sources : chan[InOf(s)] = <<>>
  BY ChanNames DEF Init
<1>3. Once
  BY <1>2, EmptySeq DEF Init, Once, InLine, Unseen, Open, Fresh, AtMostOneAnswer, Waits, Absent
<1>4. QED
  BY <1>1, <1>3 DEF OnceInv

LEMMA StepOnce == OnceInv /\ [Next]_vars => OnceInv'
<1> SUFFICES ASSUME OnceInv, [Next]_vars PROVE OnceInv'
  OBVIOUS
<1>1. TypeInv'
  BY StepTyped DEF OnceInv
<1>2. CASE UNCHANGED vars
  BY <1>2, OnceUndisturbed, <1>1 DEF vars, OnceInv
<1>3. CASE ProcessorThread
  BY <1>1, <1>3, ProcessorOnce DEF OnceInv
<1>4. CASE \E s \in Sources : \E act, run, rep : Issue(s, act, run, rep)
  BY <1>1, <1>4, IssuedOnce DEF OnceInv
<1>5. CASE \/ RunnerThread \/ DatabaseServesProcessor \/ DatabaseServesRunner
           \/ SocketServesRunner \/ \E t \in Threads : Flush(t)
           \/ \E ch \in {"c6", "c8", "c19"} : ClientReceives(ch)
  BY <1>1, <1>5, OthersOnce DEF OnceInv
<1>6. Clients => \/ \E s \in Sources : \E act, run, rep : Issue(s, act, run, rep)
                 \/ \E ch \in {"c6", "c8", "c19"} : ClientReceives(ch)
  BY DEF Clients, IssueQuery, IssueCreateRun, IssueGetRun, IssueStopRun, WorkerReports, Sources
<1>7. QED
  BY <1>2, <1>3, <1>4, <1>5, <1>6 DEF Next

\* No request is answered twice, for any number of workers, requests and nonces, although
\* responses are matched to the wrong request and nonces of different pools coincide: a
\* request has its answer only once it has left both its channel and requestStore.
THEOREM AnsweredOnce == Spec => []AtMostOneAnswer
<1>1. Spec => []OnceInv
  BY InitOnce, StepOnce, PTL DEF Spec
<1>2. OnceInv => AtMostOneAnswer
  BY DEF OnceInv, Once
<1>3. QED
  BY <1>1, <1>2, PTL
-----------------------------------------------------------------------------
(* A stop hits the run it names. *)

\* An identifier of a record selects that record, and no other.
LEMMA LookupNamed ==
  ASSUME TypeInv, NEW r \in Nat, Lookup(r) # <<>>, NEW i \in 1..Len(runs), Lookup(r)[1] = i
  PROVE  r \in {i} \cup (Nat \ 1..Len(runs))
<1>1. CASE r \in 1..Len(runs)
  <2>1. r # 0
    BY <1>1 DEF TypeInv, Recorded
  <2>2. QED
    BY <1>1, <2>1 DEF Lookup
<1>2. CASE r \notin 1..Len(runs)
  BY <1>2
<1>3. QED
  BY <1>1, <1>2

\* Only the run whose status is set gets another one.
LEMMA SetStatusElsewhere ==
  ASSUME TypeInv, NEW r, NEW s, SetStatus(r, s)
  PROVE  \A i \in 1..Len(runs) : runs'[i] = runs[i] \/ (i = r /\ runs'[i].status = s)
BY DEF SetStatus, TypeInv, Recorded

LEMMA StopNamed ==
  ASSUME TypeInv, [Next]_vars, NEW r \in 1..Len(runs),
         runs[r].status # "cancelled", runs'[r].status = "cancelled"
  PROVE  req[Head(chan["c13"]).id].run \in {r} \cup (Nat \ 1..Len(runs))
<1> DEFINE u == req[Head(chan["c13"]).id]
<1>1. CASE RunnerUpdateRun \/ RunnerDeleteRun
  <2>1. u.run \in Nat
    BY <1>1, RunnerTakesTyped, Zenon DEF RunnerUpdateRun, RunnerDeleteRun, Request
  <2>2. PICK s : Lookup(u.run) # <<>> /\ SetStatus(Lookup(u.run)[1], s)
    <3>1. runs' # runs
      BY SMTT(30)
    <3>2. CASE RunnerUpdateRun
      <4>1. Len(Lookup(u.run)) = 1 /\ SetStatus(Lookup(u.run)[1], u.status)
        BY <3>1, <3>2 DEF RunnerUpdateRun, RunnerPanics, runVars
      <4>2. Lookup(u.run) # <<>>
        BY <4>1, SMTT(30)
      <4>3. QED
        BY <4>1, <4>2
    <3>3. CASE RunnerDeleteRun
      BY <3>1, <3>3 DEF RunnerDeleteRun, RunnerPanics, runVars
    <3>4. QED
      BY <1>1, <3>2, <3>3
  <2>3. Lookup(u.run)[1] = r
    BY <2>2, SetStatusElsewhere
  <2>4. QED
    BY <2>1, <2>2, <2>3, LookupNamed, SMTT(30)
<1>2. CASE RunnerDatabaseResponds
  <2>1. \A x : runs' = Append(runs, x) => runs'[r] = runs[r]
    BY DEF TypeInv, Recorded
  <2>2. QED
    BY <1>2, <2>1 DEF RunnerDatabaseResponds, runVars
<1>3. CASE RunnerSocketResponds
  <2>1. PICK i : SetStatus(i, "active")
    BY <1>3 DEF RunnerSocketResponds, runVars
  <2>2. QED
    BY <2>1, SetStatusElsewhere
<1>4. Next => \/ UNCHANGED runs
              \/ RunnerUpdateRun \/ RunnerDeleteRun \/ RunnerDatabaseResponds \/ RunnerSocketResponds
  <2>1. Clients => UNCHANGED runs
    BY DEF Clients, IssueQuery, IssueCreateRun, IssueGetRun, IssueStopRun, WorkerReports,
           ClientReceives, Issue, runVars
  <2>2. ProcessorThread => UNCHANGED runs
    BY DEF ProcessorThread, ProcQuery, ProcCreateRun, ProcForward, ProcPipeline,
           ProcRunnerResponds, runVars
  <2>3. RunnerGetRun \/ RunnerCreateRun => UNCHANGED runs
    BY DEF RunnerGetRun, RunnerCreateRun, RunnerPanics, runVars
  <2>4. DatabaseServesProcessor \/ DatabaseServesRunner \/ SocketServesRunner => UNCHANGED runs
    BY DEF DatabaseServesProcessor, DatabaseServesRunner, SocketServesRunner, runVars
  <2>5. (\E t \in Threads : Flush(t)) => UNCHANGED runs
    BY DEF Flush, runVars
  <2>6. QED
    BY <2>1, <2>2, <2>3, <2>4, <2>5 DEF Next, RunnerThread
<1>5. QED
  BY <1>1, <1>2, <1>3, <1>4 DEF vars

\* A stop that names a run cancels that run, for any numbers of requests and nonces.
THEOREM StopsNamed == Spec => StopHitsNamedRun
<1>1. Spec => []TypeInv
  BY InitTyped, StepTyped, PTL DEF Spec
<1>2. TypeInv /\ [Next]_vars =>
        [\A r \in 1..Len(runs) :
           runs[r].status # "cancelled" /\ runs'[r].status = "cancelled"
             => req[Head(chan["c13"]).id].run \in {r} \cup (Nat \ 1..Len(runs))]_vars
  BY StopNamed
<1>3. QED
  BY <1>1, <1>2, PTL DEF Spec, StopHitsNamedRun
-----------------------------------------------------------------------------
(* What is under way.  A message is on a channel, or in the hands of a thread that is  *)
(* blocked in sending it there: for what follows it is all the same.                   *)

Carried ==
  [c \in OutChans |->
     {m \in Msg : \/ \E i \in 1..Len(chan[c]) : chan[c][i] = m
                  \/ \E t \in Threads : \E i \in 1..Len(pend[t]) :
                       pend[t][i] = [ch |-> c, msg |-> m]}]

\* A message is carried just when it is on its channel or in somebody's hands.
Spread ==
  \A c \in OutChans : \A m :
    m \in Carried[c] <=>
      \/ \E i \in 1..Len(chan[c]) : chan[c][i] = m
      \/ \E t \in Threads : \E i \in 1..Len(pend[t]) : pend[t][i] = [ch |-> c, msg |-> m]

LEMMA CarriedBy == TypeInv => Spread
<1> SUFFICES ASSUME TypeInv, NEW c \in OutChans, NEW m
             PROVE  m \in Carried[c] <=>
                      \/ \E i \in 1..Len(chan[c]) : chan[c][i] = m
                      \/ \E t \in Threads : \E i \in 1..Len(pend[t]) :
                           pend[t][i] = [ch |-> c, msg |-> m]
  BY DEF Spread
<1> DEFINE S == [ch : OutChans, msg : Msg]
<1>1. chan[c] \in Seq(Msg) /\ \A t \in Threads : pend[t] \in Seq(S)
  BY ImpliesTypeOK DEF TypeOK
<1>2. \A x \in S : x.msg \in Msg
  OBVIOUS
<1> HIDE DEF S
<1>3. ASSUME NEW i \in 1..Len(chan[c]) PROVE chan[c][i] \in Msg
  BY <1>1, ElementOfSeq
<1>4. ASSUME NEW t \in Threads, NEW i \in 1..Len(pend[t]), pend[t][i] = [ch |-> c, msg |-> m]
      PROVE  m \in Msg
  <2>1. pend[t][i] \in S
    BY <1>1, ElementOfSeq
  <2>2. pend[t][i].msg \in Msg
    BY <1>2, <2>1
  <2>3. QED
    BY <1>4, <2>2
<1>5. QED
  BY <1>3, <1>4 DEF Carried

LEMMA CarriedTyped ==
  ASSUME TypeInv, NEW c \in OutChans, NEW m \in Carried[c]
  PROVE  m \in MsgOf(Len(req)) /\ m.id \in 1..Len(req)
<1>1. CASE \E i \in 1..Len(chan[c]) : chan[c][i] = m
  <2>1. chan[c] \in Seq(MsgOf(Len(req)))
    BY DEF TypeInv, InFlight, Chans
  <2>2. PICK i \in 1..Len(chan[c]) : chan[c][i] = m
    BY <1>1
  <2>3. m \in MsgOf(Len(req))
    BY <2>1, <2>2, ElementOfSeq
  <2>4. QED
    BY <2>3 DEF MsgOf
<1>2. CASE \E t \in Threads : \E i \in 1..Len(pend[t]) : pend[t][i] = [ch |-> c, msg |-> m]
  <2>1. PICK t \in Threads : \E i \in 1..Len(pend[t]) : pend[t][i] = [ch |-> c, msg |-> m]
    BY <1>2
  <2>2. PICK i \in 1..Len(pend[t]) : pend[t][i] = [ch |-> c, msg |-> m]
    BY <2>1
  <2>3. pend[t] \in Seq(SendOf(Len(req)))
    BY DEF TypeInv, InFlight
  <2>4. pend[t][i] \in SendOf(Len(req))
    BY <2>3
  <2>5. QED
    BY <2>2, <2>4 DEF SendOf, MsgOf
<1>3. QED
  BY <1>1, <1>2, CarriedBy DEF Spread

\* A handler takes the head of a channel and has to send ms.
LEMMA Handled ==
  ASSUME TypeInv, TypeInv', NEW t \in Threads, NEW ch \in Chans, Takes(t, ch),
         NEW ms, Sends(t, ms)
  PROVE  /\ ch \in OutChans => Head(chan[ch]) \in Carried[ch]
         /\ \A c \in OutChans :
              /\ \A m \in Carried'[c] : \/ m \in Carried[c]
                                        \/ \E i \in 1..Len(ms) : ms[i] = [ch |-> c, msg |-> m]
              /\ \A m \in Carried[c] : \/ m \in Carried'[c]
                                       \/ c = ch /\ m = Head(chan[ch])
              /\ \A i \in 1..Len(ms) : \A m : ms[i] = [ch |-> c, msg |-> m] => m \in Carried'[c]
<1>1. /\ pend[t] = <<>> /\ chan[ch] # <<>> /\ chan' = [chan EXCEPT ![ch] = Tail(@)]
      /\ pend' = [pend EXCEPT ![t] = ms] /\ DOMAIN pend = Threads /\ DOMAIN chan = Chans
      /\ chan[ch] \in Seq(MsgOf(Len(req)))
  BY DEF Takes, Idle, Sends, TypeInv, InFlight
<1>2. OutChans \subseteq Chans
  BY DEF Chans
<1>3. pend'[t] = ms /\ \A u \in Threads \ {t} : pend'[u] = pend[u]
  BY <1>1
<1>4. chan'[ch] = Tail(chan[ch]) /\ \A c \in OutChans \ {ch} : chan'[c] = chan[c]
  BY <1>1, <1>2
<1>5. /\ 1 \in 1..Len(chan[ch]) /\ Head(chan[ch]) = chan[ch][1]
      /\ \A i \in 1..Len(Tail(chan[ch])) : i + 1 \in 1..Len(chan[ch]) /\ Tail(chan[ch])[i] = chan[ch][i + 1]
      /\ \A i \in 1..Len(chan[ch]) : i = 1 \/ \E j \in 1..Len(Tail(chan[ch])) : Tail(chan[ch])[j] = chan[ch][i]
  <2> DEFINE s == chan[ch]
  <2>1. s \in Seq(MsgOf(Len(req))) /\ s # <<>>
    BY <1>1
  <2> HIDE DEF s
  <2>2. Len(s) \in Nat \ {0} /\ Len(Tail(s)) = Len(s) - 1 /\ \A j \in 1..(Len(s) - 1) : Tail(s)[j] = s[j + 1]
    BY <2>1
  <2>3. ASSUME NEW i \in 1..Len(s), i # 1 PROVE \E j \in 1..Len(Tail(s)) : Tail(s)[j] = s[i]
    <3>1. i - 1 \in 1..(Len(s) - 1) /\ (i - 1) + 1 = i
      BY <2>2, <2>3
    <3>2. QED
      BY <2>2, <3>1
  <2>4. QED
    BY <2>1, <2>3, TailShifts DEF s
<1>6. \A u \in Threads : \A i : i \in 1..Len(pend[u]) => u # t
  BY <1>1
<1>7. Spread /\ Spread'
  <2>1. TypeInv' => Spread'
    BY CarriedBy, PTL
  <2>2. QED
    BY <2>1, CarriedBy
<1>8. /\ \A c \in OutChans : \A m : m \in Carried'[c] <=>
           \/ \E i \in 1..Len(chan'[c]) : chan'[c][i] = m
           \/ \E u \in Threads : \E i \in 1..Len(pend'[u]) : pend'[u][i] = [ch |-> c, msg |-> m]
      /\ \A c \in OutChans : \A m : m \in Carried[c] <=>
           \/ \E i \in 1..Len(chan[c]) : chan[c][i] = m
           \/ \E u \in Threads : \E i \in 1..Len(pend[u]) : pend[u][i] = [ch |-> c, msg |-> m]
  BY <1>7 DEF Spread
<1>9. ch \in OutChans => Head(chan[ch]) \in Carried[ch]
  BY <1>5, <1>8
<1>10. ASSUME NEW c \in OutChans, NEW m \in Carried'[c]
       PROVE  m \in Carried[c] \/ \E i \in 1..Len(ms) : ms[i] = [ch |-> c, msg |-> m]
  <2>1. CASE \E i \in 1..Len(chan'[c]) : chan'[c][i] = m
    <3>1. CASE c = ch
      <4>1. PICK i \in 1..Len(Tail(chan[ch])) : Tail(chan[ch])[i] = m
        BY <1>4, <2>1, <3>1
      <4>2. i + 1 \in 1..Len(chan[c]) /\ chan[c][i + 1] = m
        BY <1>5, <3>1, <4>1
      <4>3. QED
        BY <1>8, <4>2
    <3>2. CASE c # ch
      BY <1>4, <1>8, <2>1, <3>2
    <3>3. QED
      BY <3>1, <3>2
  <2>2. CASE \E u \in Threads : \E i \in 1..Len(pend'[u]) : pend'[u][i] = [ch |-> c, msg |-> m]
    BY <1>3, <1>8, <2>2
  <2>3. QED
    BY <1>8, <2>1, <2>2
<1>11. ASSUME NEW c \in OutChans, NEW m \in Carried[c]
       PROVE  m \in Carried'[c] \/ (c = ch /\ m = Head(chan[ch]))
  <2>1. CASE \E i \in 1..Len(chan[c]) : chan[c][i] = m
    <3>1. CASE c = ch
      <4>1. PICK i \in 1..Len(chan[ch]) : chan[ch][i] = m
        BY <2>1, <3>1
      <4>2. i = 1 \/ \E j \in 1..Len(Tail(chan[ch])) : Tail(chan[ch])[j] = m
        BY <1>5, <4>1
      <4>3. QED
        BY <1>4, <1>5, <1>8, <3>1, <4>1, <4>2
    <3>2. CASE c # ch
      BY <1>4, <1>8, <2>1, <3>2, ZenonT(60)
    <3>3. QED
      BY <3>1, <3>2
  <2>2. CASE \E u \in Threads : \E i \in 1..Len(pend[u]) : pend[u][i] = [ch |-> c, msg |-> m]
    <3>1. PICK u \in Threads : \E i \in 1..Len(pend[u]) : pend[u][i] = [ch |-> c, msg |-> m]
      BY <2>2
    <3>2. u # t /\ pend'[u] = pend[u]
      BY <1>3, <1>6, <3>1
    <3>3. QED
      BY <1>8, <3>1, <3>2
  <2>3. QED
    BY <1>8, <2>1, <2>2
<1>12. ASSUME NEW c \in OutChans, NEW i \in 1..Len(ms), NEW m, ms[i] = [ch |-> c, msg |-> m]
       PROVE  m \in Carried'[c]
  BY <1>3, <1>8, <1>12
<1>13. QED
  BY <1>9, <1>10, <1>11, <1>12

LEMMA AppendShifts ==
  ASSUME NEW T, NEW q \in Seq(T), NEW x \in T
  PROVE  /\ \A i \in 1..Len(q) : i \in 1..Len(Append(q, x)) /\ Append(q, x)[i] = q[i]
         /\ \E k \in 1..Len(Append(q, x)) :
              /\ Append(q, x)[k] = x
              /\ \A i \in 1..Len(Append(q, x)) : i = k \/ i \in 1..Len(q)
<1>1. Len(q) \in Nat /\ Len(Append(q, x)) = Len(q) + 1 /\ Append(q, x)[Len(q) + 1] = x
  OBVIOUS
<1>2. \A i \in 1..Len(q) : i \in 1..Len(Append(q, x)) /\ Append(q, x)[i] = q[i]
  OBVIOUS
<1>3. Len(q) + 1 \in 1..Len(Append(q, x))
  BY <1>1
<1>4. \A i \in 1..Len(Append(q, x)) : i = Len(q) + 1 \/ i \in 1..Len(q)
  BY <1>1
<1>5. QED
  BY <1>1, <1>2, <1>3, <1>4

\* A send that completes hands its message on.
LEMMA Flushed ==
  ASSUME TypeInv, TypeInv', NEW t \in Threads, Flush(t)
  PROVE  \A c \in OutChans : \A m : m \in Carried'[c] <=> m \in Carried[c]
<1> DEFINE p == pend[t]
           s == Head(pend[t])
<1>1. /\ p \in Seq(SendOf(Len(req))) /\ p # <<>>
      /\ pend' = [pend EXCEPT ![t] = Tail(@)] /\ DOMAIN pend = Threads /\ DOMAIN chan = Chans
      /\ chan' = [chan EXCEPT ![s.ch] = Append(@, s.msg)]
  BY DEF Flush, TypeInv, InFlight
<1>2. /\ 1 \in 1..Len(p) /\ s = p[1]
      /\ \A i \in 1..Len(Tail(p)) : i + 1 \in 1..Len(p) /\ Tail(p)[i] = p[i + 1]
      /\ \A i \in 1..Len(p) : i = 1 \/ \E j \in 1..Len(Tail(p)) : Tail(p)[j] = p[i]
  <2> HIDE DEF p
  <2>1. Len(p) \in Nat \ {0} /\ Len(Tail(p)) = Len(p) - 1 /\ \A j \in 1..(Len(p) - 1) : Tail(p)[j] = p[j + 1]
    BY <1>1
  <2>2. ASSUME NEW i \in 1..Len(p), i # 1 PROVE \E j \in 1..Len(Tail(p)) : Tail(p)[j] = p[i]
    <3>1. i - 1 \in 1..(Len(p) - 1) /\ (i - 1) + 1 = i
      BY <2>1, <2>2
    <3>2. QED
      BY <2>1, <3>1
  <2>3. QED
    BY <1>1, <2>2, TailShifts DEF p
<1>3. /\ s.ch \in OutChans /\ s = [ch |-> s.ch, msg |-> s.msg]
      /\ chan[s.ch] \in Seq(MsgOf(Len(req))) /\ s.msg \in MsgOf(Len(req))
  <2>1. s \in SendOf(Len(req))
    BY <1>1, <1>2, ElementOfSeq
  <2>2. QED
    BY <2>1 DEF SendOf, TypeInv, InFlight, Chans
<1>4. /\ pend'[t] = Tail(p) /\ \A u \in Threads \ {t} : pend'[u] = pend[u]
      /\ chan'[s.ch] = Append(chan[s.ch], s.msg) /\ \A c \in OutChans \ {s.ch} : chan'[c] = chan[c]
  BY <1>1, <1>3, SMTT(30) DEF Chans
<1>5. /\ \A i \in 1..Len(chan[s.ch]) : i \in 1..Len(chan'[s.ch]) /\ chan'[s.ch][i] = chan[s.ch][i]
      /\ \E k \in 1..Len(chan'[s.ch]) :
           /\ chan'[s.ch][k] = s.msg
           /\ \A i \in 1..Len(chan'[s.ch]) : i = k \/ i \in 1..Len(chan[s.ch])
  <2> DEFINE T == MsgOf(Len(req))
             q == chan[s.ch]
             x == s.msg
  <2>1. q \in Seq(T) /\ x \in T /\ chan'[s.ch] = Append(q, x)
    BY <1>3, <1>4
  <2> HIDE DEF q, x, T
  <2>2. /\ \A i \in 1..Len(q) : i \in 1..Len(Append(q, x)) /\ Append(q, x)[i] = q[i]
        /\ \E k \in 1..Len(Append(q, x)) :
             /\ Append(q, x)[k] = x
             /\ \A i \in 1..Len(Append(q, x)) : i = k \/ i \in 1..Len(q)
    BY <2>1, AppendShifts
  <2>3. QED
    BY ONLY <2>1, <2>2, Zenon DEF q, x
<1>6. /\ \A c \in OutChans : \A m : m \in Carried'[c] <=>
           \/ \E i \in 1..Len(chan'[c]) : chan'[c][i] = m
           \/ \E u \in Threads : \E i \in 1..Len(pend'[u]) : pend'[u][i] = [ch |-> c, msg |-> m]
      /\ \A c \in OutChans : \A m : m \in Carried[c] <=>
           \/ \E i \in 1..Len(chan[c]) : chan[c][i] = m
           \/ \E u \in Threads : \E i \in 1..Len(pend[u]) : pend[u][i] = [ch |-> c, msg |-> m]
  <2>1. TypeInv' => Spread'
    BY CarriedBy, PTL
  <2>2. QED
    BY <2>1, CarriedBy DEF Spread
<1> HIDE DEF p, s
<1>7. s.msg \in Carried[s.ch] /\ s.msg \in Carried'[s.ch]
  <2>1. s.msg \in Carried[s.ch]
    BY <1>2, <1>3, <1>6 DEF p
  <2>2. QED
    BY <1>3, <1>5, <1>6, <2>1
<1>8. ASSUME NEW c \in OutChans, NEW m \in Carried[c] PROVE m \in Carried'[c]
  <2>1. CASE \E i \in 1..Len(chan[c]) : chan[c][i] = m
    <3>1. CASE c = s.ch
      <4>1. PICK i \in 1..Len(chan[s.ch]) : chan[s.ch][i] = m
        BY <2>1, <3>1
      <4>2. QED
        BY <1>5, <1>6, <3>1, <4>1
    <3>2. CASE c # s.ch
      BY <1>4, <1>6, <2>1, <3>2, ZenonT(60)
    <3>3. QED
      BY <3>1, <3>2
  <2>2. CASE \E u \in Threads : \E i \in 1..Len(pend[u]) : pend[u][i] = [ch |-> c, msg |-> m]
    <3>1. PICK u \in Threads : \E i \in 1..Len(pend[u]) : pend[u][i] = [ch |-> c, msg |-> m]
      BY <2>2
    <3>2. CASE u = t
      <4>1. PICK i \in 1..Len(p) : p[i] = [ch |-> c, msg |-> m]
        BY <3>1, <3>2 DEF p
      <4>2. CASE i = 1
        BY <1>2, <1>7, <4>1, <4>2
      <4>3. CASE i # 1
        <5>1. PICK j \in 1..Len(Tail(p)) : Tail(p)[j] = p[i]
          BY <1>2, <4>3
        <5>2. j \in 1..Len(pend'[t]) /\ pend'[t][j] = [ch |-> c, msg |-> m]
          BY <1>4, <4>1, <5>1
        <5>3. QED
          BY <1>6, <5>2
      <4>4. QED
        BY <4>2, <4>3
    <3>3. CASE u # t
      BY <1>4, <1>6, <3>1, <3>3
    <3>4. QED
      BY <3>2, <3>3
  <2>3. QED
    BY <1>6, <2>1, <2>2
<1>9. ASSUME NEW c \in OutChans, NEW m \in Carried'[c] PROVE m \in Carried[c]
  <2>1. CASE \E i \in 1..Len(chan'[c]) : chan'[c][i] = m
    <3>1. CASE c = s.ch
      <4>1. PICK i \in 1..Len(chan'[s.ch]) : chan'[s.ch][i] = m
        BY <2>1, <3>1
      <4>2. CASE i \in 1..Len(chan[s.ch])
        BY <1>5, <1>6, <3>1, <4>1, <4>2
      <4>3. CASE i \notin 1..Len(chan[s.ch])
        BY <1>5, <1>7, <3>1, <4>1, <4>3
      <4>4. QED
        BY <4>2, <4>3
    <3>2. CASE c # s.ch
      BY <1>4, <1>6, <2>1, <3>2, ZenonT(60)
    <3>3. QED
      BY <3>1, <3>2
  <2>2. CASE \E u \in Threads : \E i \in 1..Len(pend'[u]) : pend'[u][i] = [ch |-> c, msg |-> m]
    <3>1. PICK u \in Threads : \E i \in 1..Len(pend'[u]) : pend'[u][i] = [ch |-> c, msg |-> m]
      BY <2>2
    <3>2. CASE u = t
      <4>1. PICK i \in 1..Len(Tail(p)) : Tail(p)[i] = [ch |-> c, msg |-> m]
        BY <1>4, <3>1, <3>2
      <4>2. i + 1 \in 1..Len(pend[t]) /\ pend[t][i + 1] = [ch |-> c, msg |-> m]
        BY <1>2, <4>1 DEF p
      <4>3. QED
        BY <1>6, <4>2
    <3>3. CASE u # t
      BY <1>4, <1>6, <3>1, <3>3
    <3>4. QED
      BY <3>2, <3>3
  <2>3. QED
    BY <1>6, <2>1, <2>2
<1>10. QED
  BY <1>8, <1>9

\* Channels that are left alone carry what they carried.
LEMMA LeftAlone ==
  ASSUME TypeInv, TypeInv', UNCHANGED pend, NEW c \in OutChans, chan'[c] = chan[c], NEW m
  PROVE  m \in Carried'[c] <=> m \in Carried[c]
<1>1. TypeInv' => Spread'
  BY CarriedBy, PTL
<1>2. /\ m \in Carried'[c] <=>
           \/ \E i \in 1..Len(chan[c]) : chan[c][i] = m
           \/ \E t \in Threads : \E i \in 1..Len(pend[t]) : pend[t][i] = [ch |-> c, msg |-> m]
      /\ m \in Carried[c] <=>
           \/ \E i \in 1..Len(chan[c]) : chan[c][i] = m
           \/ \E t \in Threads : \E i \in 1..Len(pend[t]) : pend[t][i] = [ch |-> c, msg |-> m]
  <2>1. Spread /\ Spread' /\ pend' = pend /\ chan'[c] = chan[c]
    BY <1>1, CarriedBy
  <2>2. QED
    BY ONLY <2>1, c \in OutChans DEF Spread
<1>3. QED
  BY <1>2

LEMMA SentOne ==
  ASSUME TypeInv, TypeInv', NEW t \in Threads, NEW ch \in Chans, Takes(t, ch),
         NEW o \in OutChans, NEW x, Sends(t, To(o, x))
  PROVE  /\ ch \in OutChans => Head(chan[ch]) \in Carried[ch]
         /\ x \in Carried'[o]
         /\ \A c \in OutChans :
              /\ \A m \in Carried'[c] : m \in Carried[c] \/ (c = o /\ m = x)
              /\ \A m \in Carried[c] : m \in Carried'[c] \/ (c = ch /\ m = Head(chan[ch]))
<1> DEFINE ms == To(o, x)
<1>1. Len(ms) = 1 /\ ms[1] = [ch |-> o, msg |-> x]
  BY DEF To
<1>0. Sends(t, ms)
  OBVIOUS
<1> HIDE DEF ms
<1>2. /\ ch \in OutChans => Head(chan[ch]) \in Carried[ch]
      /\ \A c \in OutChans :
           /\ \A m \in Carried'[c] : \/ m \in Carried[c]
                                     \/ \E i \in 1..Len(ms) : ms[i] = [ch |-> c, msg |-> m]
           /\ \A m \in Carried[c] : \/ m \in Carried'[c]
                                    \/ c = ch /\ m = Head(chan[ch])
           /\ \A i \in 1..Len(ms) : \A m : ms[i] = [ch |-> c, msg |-> m] => m \in Carried'[c]
  BY <1>0, Handled
<1>3. x \in Carried'[o]
  <2>1. 1 \in 1..Len(ms)
    BY <1>1
  <2>2. QED
    BY <1>1, <1>2, <2>1
<1>4. ASSUME NEW c \in OutChans, NEW m \in Carried'[c]
      PROVE  m \in Carried[c] \/ (c = o /\ m = x)
  <2>1. SUFFICES ASSUME NEW i \in 1..Len(ms), ms[i] = [ch |-> c, msg |-> m]
                 PROVE  c = o /\ m = x
    BY <1>2
  <2>2. [ch |-> c, msg |-> m] = [ch |-> o, msg |-> x]
    <3>1. i = 1
      BY <1>1
    <3>2. QED
      BY <1>1, <2>1, <3>1
  <2>3. [ch |-> c, msg |-> m].ch = [ch |-> o, msg |-> x].ch /\ [ch |-> c, msg |-> m].msg = [ch |-> o, msg |-> x].msg
    BY <2>2
  <2>4. QED
    BY <2>3
<1>5. QED
  BY <1>2, <1>3, <1>4

LEMMA SentNone ==
  ASSUME TypeInv, TypeInv', NEW t \in Threads, NEW ch \in Chans, Takes(t, ch), UNCHANGED pend
  PROVE  /\ ch \in OutChans => Head(chan[ch]) \in Carried[ch]
         /\ \A c \in OutChans :
              /\ \A m \in Carried'[c] : m \in Carried[c]
              /\ \A m \in Carried[c] : m \in Carried'[c] \/ (c = ch /\ m = Head(chan[ch]))
<1>1. Sends(t, <<>>)
  BY DEF Takes, Idle, Sends, TypeInv, InFlight
<1>2. \A i : i \notin 1..Len(<<>>)
  OBVIOUS
<1>3. QED
  BY <1>1, <1>2, Handled
-----------------------------------------------------------------------------
(* What steps leave in place. *)

LEMMA RequestsStay ==
  ASSUME TypeInv, [Next]_vars
  PROVE  /\ Len(req) \in Nat /\ Len(req) <= Len(req')
         /\ \A id \in 1..Len(req) : req'[id] = req[id] /\ id \in 1..Len(req')
         /\ \A id \in 1..Len(req') :
              \/ id \in 1..Len(req)
              \/ req'[id].act = "Update" =>
                   \E r \in 1..Len(runs), rep \in Reports : WorkerReports(r, rep) /\ req'[id].run = r
<1>1. Len(req) \in Nat /\ req \in Seq(Request)
  BY DEF TypeInv, Recorded
<1>2. CASE UNCHANGED req
  BY <1>1, <1>2
<1>3. ASSUME NEW s, NEW act, NEW run, NEW rep, Issue(s, act, run, rep),
             act = "Update" => \E r \in 1..Len(runs), q \in Reports : WorkerReports(r, q) /\ run = r
      PROVE  /\ Len(req) <= Len(req')
             /\ \A id \in 1..Len(req) : req'[id] = req[id] /\ id \in 1..Len(req')
             /\ \A id \in 1..Len(req') :
                  \/ id \in 1..Len(req)
                  \/ req'[id].act = "Update" =>
                       \E r \in 1..Len(runs), q \in Reports : WorkerReports(r, q) /\ req'[id].run = r
  <2> DEFINE x == [src |-> s, act |-> act, nonce |-> NextNonce(s), run |-> run,
                   status |-> rep.status, stat |-> rep.stat]
  <2>1. req' = Append(req, x) /\ x.act = act /\ x.run = run
    BY <1>3 DEF Issue
  <2> HIDE DEF x
  <2>2. /\ Len(req') = Len(req) + 1 /\ req'[Len(req) + 1] = x
        /\ \A id \in 1..Len(req) : req'[id] = req[id]
    BY <1>1, <2>1
  <2>3. \A id \in 1..Len(req') : id \in 1..Len(req) \/ id = Len(req) + 1
    BY <1>1, <2>2
  <2>4. QED
    BY <1>1, <1>3, <2>1, <2>2, <2>3
<1>4. Next => \/ UNCHANGED req
              \/ \E s, act, run, rep :
                   /\ Issue(s, act, run, rep)
                   /\ act = "Update" => \E r \in 1..Len(runs), q \in Reports : WorkerReports(r, q) /\ run = r
  <2>1. Clients => \/ UNCHANGED req
                   \/ \E s, act, run, rep :
                        /\ Issue(s, act, run, rep)
                        /\ act = "Update" => \E r \in 1..Len(runs), q \in Reports : WorkerReports(r, q) /\ run = r
    <3>1. ASSUME NEW r \in 1..Len(runs), NEW q \in Reports, WorkerReports(r, q)
          PROVE  \E s, act, run, rep :
                   /\ Issue(s, act, run, rep)
                   /\ act = "Update" => \E v \in 1..Len(runs), p \in Reports : WorkerReports(v, p) /\ run = v
      <4>1. Issue("Socket", "Update", r, q)
        BY <3>1 DEF WorkerReports
      <4>2. QED
        BY <3>1, <4>1
    <3>2. QED
      BY <3>1 DEF Clients, IssueQuery, IssueCreateRun, IssueGetRun, IssueStopRun, ClientReceives,
                  clientVars
  <2>2. ProcessorThread => UNCHANGED req
    BY Zenon DEF ProcessorThread, ProcQuery, ProcCreateRun, ProcForward, ProcPipeline,
           ProcRunnerResponds, clientVars
  <2>3. RunnerThread => UNCHANGED req
    BY Zenon DEF RunnerThread, RunnerGetRun, RunnerCreateRun, RunnerUpdateRun, RunnerDeleteRun,
           RunnerTakes, RunnerDatabaseResponds, RunnerSocketResponds, clientVars
  <2>4. DatabaseServesProcessor \/ DatabaseServesRunner \/ SocketServesRunner => UNCHANGED req
    BY DEF DatabaseServesProcessor, DatabaseServesRunner, SocketServesRunner, clientVars
  <2>5. (\E t \in Threads : Flush(t)) => UNCHANGED req
    BY DEF Flush, clientVars
  <2>6. QED
    BY <2>1, <2>2, <2>3, <2>4, <2>5 DEF Next
<1>5. QED
  BY <1>1, <1>2, <1>3, <1>4 DEF vars

LEMMA RunsChange ==
  ASSUME Next
  PROVE  \/ UNCHANGED runs
         \/ RunnerThread /\ ((\E x : runs' = Append(runs, x)) \/ \E r, s : SetStatus(r, s))
<1>1. CASE Clients
  BY <1>1 DEF Clients, IssueQuery, IssueCreateRun, IssueGetRun, IssueStopRun, WorkerReports,
              ClientReceives, Issue, runVars
<1>2. CASE ProcessorThread
  BY <1>2 DEF ProcessorThread, ProcQuery, ProcCreateRun, ProcForward, ProcPipeline,
              ProcRunnerResponds, runVars
<1>3. CASE RunnerThread
  <2>1. RunnerGetRun \/ RunnerCreateRun => UNCHANGED runs
    BY DEF RunnerGetRun, RunnerCreateRun, RunnerPanics, runVars
  <2>2. RunnerUpdateRun => UNCHANGED runs \/ \E r, s : SetStatus(r, s)
    BY DEF RunnerUpdateRun, RunnerPanics, runVars
  <2>3. RunnerDeleteRun => UNCHANGED runs \/ \E r, s : SetStatus(r, s)
    BY DEF RunnerDeleteRun, RunnerPanics, runVars
  <2>4. RunnerDatabaseResponds => UNCHANGED runs \/ \E x : runs' = Append(runs, x)
    BY DEF RunnerDatabaseResponds, runVars
  <2>5. RunnerSocketResponds => UNCHANGED runs \/ \E r, s : SetStatus(r, s)
    BY DEF RunnerSocketResponds, runVars
  <2>6. QED
    BY <1>3, <2>1, <2>2, <2>3, <2>4, <2>5 DEF RunnerThread
<1>4. CASE DatabaseServesProcessor \/ DatabaseServesRunner \/ SocketServesRunner
  BY <1>4 DEF DatabaseServesProcessor, DatabaseServesRunner, SocketServesRunner, runVars
<1>5. CASE \E t \in Threads : Flush(t)
  BY <1>5 DEF Flush, runVars
<1>6. QED
  BY <1>1, <1>2, <1>3, <1>4, <1>5 DEF Next

LEMMA WireChange ==
  ASSUME Next
  PROVE  UNCHANGED wire \/ (SocketServesRunner /\ \E x : wire' = Append(wire, x))
<1>1. CASE Clients
  BY <1>1 DEF Clients, IssueQuery, IssueCreateRun, IssueGetRun, IssueStopRun, WorkerReports,
              ClientReceives, Issue, outerVars
<1>2. CASE ProcessorThread
  BY <1>2, Zenon DEF ProcessorThread, ProcQuery, ProcCreateRun, ProcForward, ProcPipeline,
              ProcRunnerResponds, outerVars
<1>3. CASE RunnerThread
  BY <1>3, Zenon DEF RunnerThread, RunnerGetRun, RunnerCreateRun, RunnerUpdateRun, RunnerDeleteRun,
              RunnerTakes, RunnerDatabaseResponds, RunnerSocketResponds, outerVars
<1>4. CASE DatabaseServesProcessor \/ DatabaseServesRunner \/ \E t \in Threads : Flush(t)
  BY <1>4 DEF DatabaseServesProcessor, DatabaseServesRunner, Flush, outerVars
<1>5. CASE SocketServesRunner
  <2>1. UNCHANGED wire \/ \E x : wire' = Append(wire, x)
    BY <1>5 DEF SocketServesRunner
  <2>2. QED
    BY <1>5, <2>1
<1>6. QED
  BY <1>1, <1>2, <1>3, <1>4, <1>5 DEF Next

LEMMA RecordsStay ==
  ASSUME TypeInv, TypeInv', [Next]_vars
  PROVE  /\ Len(runs) \in Nat /\ Len(runs) <= Len(runs')
         /\ \A r \in 1..Len(runs) : r \in 1..Len(runs') /\ runs'[r].worker = runs[r].worker
         /\ \A i \in 1..Len(wire) : i \in 1..Len(wire') /\ wire'[i] = wire[i]
         /\ Held \subseteq Held'
<1>1. /\ Len(runs) \in Nat /\ Len(runs) <= Len(runs')
      /\ \A r \in 1..Len(runs) : r \in 1..Len(runs') /\ runs'[r].worker = runs[r].worker
  <2>1. ASSUME NEW x, runs' = Append(runs, x)
        PROVE  /\ Len(runs) <= Len(runs')
               /\ \A r \in 1..Len(runs) : r \in 1..Len(runs') /\ runs'[r].worker = runs[r].worker
    BY <2>1 DEF TypeInv, Recorded
  <2>2. ASSUME NEW r, NEW s, SetStatus(r, s)
        PROVE  /\ Len(runs) <= Len(runs')
               /\ \A i \in 1..Len(runs) : i \in 1..Len(runs') /\ runs'[i].worker = runs[i].worker
    <3>1. runs \in Seq(Run) /\ runs' = [runs EXCEPT ![r].status = s]
      BY <2>2 DEF SetStatus, TypeInv, Recorded
    <3>2. Len(runs') = Len(runs)
      BY <3>1
    <3>3. \A i \in 1..Len(runs) : runs[i] \in Run
      BY <3>1, ElementOfSeq
    <3>4. \A i \in 1..Len(runs) : runs'[i].worker = runs[i].worker
      <4> SUFFICES ASSUME NEW i \in 1..Len(runs) PROVE runs'[i].worker = runs[i].worker
        OBVIOUS
      <4>1. runs'[i] = IF i = r THEN [runs[i] EXCEPT !.status = s] ELSE runs[i]
        BY <3>1
      <4>2. QED
        BY <3>3, <4>1 DEF Run
    <3>5. QED
      BY <3>1, <3>2, <3>4
  <2>3. Len(runs) \in Nat
    BY DEF TypeInv, Recorded
  <2>4. Next => UNCHANGED runs \/ (\E x : runs' = Append(runs, x)) \/ \E r, s : SetStatus(r, s)
    BY RunsChange
  <2>5. QED
    BY <2>1, <2>2, <2>3, <2>4 DEF vars
<1>2. \A i \in 1..Len(wire) : i \in 1..Len(wire') /\ wire'[i] = wire[i]
  <2>1. Next => UNCHANGED wire \/ \E x : wire' = Append(wire, x)
    BY WireChange
  <2>2. ASSUME NEW x, wire' = Append(wire, x)
        PROVE  \A i \in 1..Len(wire) : i \in 1..Len(wire') /\ wire'[i] = wire[i]
    BY <2>2 DEF TypeInv, Recorded
  <2>3. QED
    BY <2>1, <2>2 DEF vars
<1>3. QED
  BY <1>1, <1>2 DEF Held
-----------------------------------------------------------------------------
(* What the runner has stored is awaited, and what is active was dispatched. *)

\* The channels between the runner, the database and the socket thread.
Watched == {"c9", "c10", "c15", "c16"}

\* The processor thread sends on none of them.
Aloof == \A i \in 1..Len(pend["processor"]) : pend["processor"][i].ch \notin Watched

\* An entry of the runner's store is a request under its own nonce ...
OwnNonce == \A n \in Nonce : runStore[n].id # Absent => NonceOf(runStore[n].id) = n

\* ... and a message with that nonce is under way.
Awaited ==
  \A n \in Nonce : runStore[n].id # Absent =>
    \E c \in Watched : \E m \in Carried[c] : NonceOf(m.id) = n

\* The socket thread is asked to dispatch runs that are recorded, to their workers.
AsRecorded ==
  \A m \in Carried["c9"] : m.kind = "create" =>
    m.run \in 1..Len(runs) /\ m.worker = runs[m.run].worker

\* What it says it has sent, it has; and only runs that were sent are reported on.
Sent     == \A m \in Carried["c10"] : m.kind = "create" /\ m.ok => m.run \in Held
Reported == \A id \in 1..Len(req) : req[id].act = "Update" => req[id].run \in Held

Trail    == Aloof /\ OwnNonce /\ Awaited /\ AsRecorded /\ Sent /\ Reported /\ ActiveWasDispatched
TrailInv == TypeInv /\ Trail

LEMMA WatchedOut == Watched \subseteq OutChans /\ OutChans \subseteq Chans
BY DEF Watched, OutChans, Chans

\* The nonce of what is under way or stored does not change.
LEMMA NoncesStay ==
  ASSUME TypeInv, [Next]_vars
  PROVE  /\ \A c \in OutChans : \A m \in Carried[c] : req'[m.id].nonce = NonceOf(m.id)
         /\ \A n \in Nonce : runStore[n].id # Absent => req'[runStore[n].id].nonce = NonceOf(runStore[n].id)
<1>1. \A id \in 1..Len(req) : req'[id] = req[id]
  BY RequestsStay
<1>2. ASSUME NEW n \in Nonce, runStore[n].id # Absent PROVE runStore[n].id \in 1..Len(req)
  <2>1. runStore[n] \in EntryOf(Len(req)) /\ Len(req) \in Nat
    BY DEF TypeInv, Recorded, InFlight
  <2>2. QED
    BY <1>2, <2>1 DEF EntryOf, Absent
<1>3. \A c \in OutChans : \A m \in Carried[c] : m.id \in 1..Len(req)
  BY CarriedTyped
<1>4. QED
  BY <1>1, <1>2, <1>3 DEF NonceOf

\* A worker reports only on what it was sent.
LEMMA ReportsStay ==
  ASSUME TypeInv, TypeInv', [Next]_vars, Reported
  PROVE  Reported'
<1>1. Held \subseteq Held'
  BY RecordsStay
<1>2. ASSUME NEW id \in 1..Len(req'), req'[id].act = "Update" PROVE req'[id].run \in Held
  <2>1. CASE id \in 1..Len(req)
    BY <1>2, <2>1, RequestsStay DEF Reported
  <2>2. CASE id \notin 1..Len(req)
    <3>1. \E r \in 1..Len(runs), rep \in Reports : WorkerReports(r, rep) /\ req'[id].run = r
      BY <1>2, <2>2, RequestsStay
    <3>2. QED
      BY <3>1 DEF WorkerReports
  <2>3. QED
    BY <2>1, <2>2
<1>3. QED
  BY <1>1, <1>2 DEF Reported

\* A step that leaves those channels and the runner's store alone.
LEMMA TrailAside ==
  ASSUME TrailInv, TypeInv', [Next]_vars, Aloof', UNCHANGED runStore,
         \A c \in Watched : \A m : m \in Carried'[c] <=> m \in Carried[c],
         ActiveWasDispatched'
  PROVE  Trail'
<1>1. \A n \in Nonce : runStore[n].id # Absent => req'[runStore[n].id].nonce = NonceOf(runStore[n].id)
  BY NoncesStay DEF TrailInv
<1>2. OwnNonce'
  BY <1>1 DEF OwnNonce, TrailInv, Trail, NonceOf
<1>3. Awaited'
  <2> SUFFICES ASSUME NEW n \in Nonce, runStore[n].id # Absent
               PROVE  \E c \in Watched : \E m \in Carried'[c] : req'[m.id].nonce = n
    BY DEF Awaited, NonceOf
  <2>1. PICK c \in Watched : \E m \in Carried[c] : NonceOf(m.id) = n
    BY DEF TrailInv, Trail, Awaited
  <2>2. PICK m \in Carried[c] : NonceOf(m.id) = n
    BY <2>1
  <2>3. req'[m.id].nonce = n
    BY <2>2, NoncesStay, WatchedOut DEF TrailInv
  <2>4. QED
    BY <2>2, <2>3
<1>4. Held \subseteq Held' /\ \A r \in 1..Len(runs) : r \in 1..Len(runs') /\ runs'[r].worker = runs[r].worker
  BY RecordsStay DEF TrailInv
<1>5. AsRecorded'
  BY <1>4 DEF AsRecorded, TrailInv, Trail, Watched
<1>6. Sent'
  BY <1>4 DEF Sent, TrailInv, Trail, Watched
<1>7. Reported'
  BY ReportsStay DEF TrailInv, Trail
<1>8. QED
  BY <1>2, <1>3, <1>5, <1>6, <1>7 DEF Trail

\* What each step does to the hands of the threads.
LEMMA AloofStays ==
  ASSUME TypeInv, Aloof, [Next]_vars
  PROVE  Aloof'
<1> DEFINE Others == pend'["processor"] = pend["processor"]
<1>1. DOMAIN pend = Threads /\ "processor" \in Threads
  BY DEF TypeInv, InFlight, Threads
<1>2. Others => Aloof'
  BY DEF Aloof
<1>3. ASSUME NEW o \in OutChans \ Watched, NEW x, Sends("processor", To(o, x)) PROVE Aloof'
  <2>1. pend'["processor"] = To(o, x)
    BY <1>1, <1>3 DEF Sends
  <2>2. Len(To(o, x)) = 1 /\ To(o, x)[1].ch = o
    BY DEF To
  <2>3. \A i \in 1..Len(To(o, x)) : i = 1
    BY <2>2
  <2>4. QED
    BY <2>1, <2>2, <2>3 DEF Aloof
<1>4. CASE ProcessorThread
  <2>1. /\ {"c11", "c13"} \subseteq OutChans \ Watched
        /\ \A s \in Sources : OutOf(s) \in OutChans \ Watched
    BY DEF OutChans, Watched, Sources, OutOf
  <2>2. \A id, from, ok, run : id \in 1..Len(req) /\ Answers(id, from, ok, run) => Aloof'
    BY <1>3, <2>1, RequestTyped DEF Answers
  <2>3. ASSUME NEW s \in Sources, ProcQuery(s) PROVE Aloof'
    <3>1. Takes("processor", InOf(s)) /\ InOf(s) \in Chans
      BY <2>3, ChanNames DEF ProcQuery, ProcTakesRequest, Chans
    <3>2. PICK id : id = Head(chan[InOf(s)]).id /\ Answers(id, id, TRUE, 0)
      BY <2>3 DEF ProcQuery, ProcTakesRequest
    <3>3. QED
      BY <1>1, <2>2, <3>1, <3>2, TakesTyped
  <2>4. ASSUME NEW s \in Sources, ProcCreateRun(s) \/ ProcForward(s) PROVE Aloof'
    BY <1>3, <2>1, <2>4 DEF ProcCreateRun, ProcForward
  <2>5. CASE ProcPipeline
    <3>1. CASE UNCHANGED pend
      BY <1>2, <3>1
    <3>2. CASE \E w, id : Sends("processor", To("c13", [Message(id) EXCEPT !.worker = w]))
      BY <1>3, <2>1, <3>2
    <3>3. CASE procStore[NonceOf(Head(chan["c12"]).id)] # Absent
               /\ Answers(procStore[NonceOf(Head(chan["c12"]).id)], procStore[NonceOf(Head(chan["c12"]).id)], FALSE, 0)
      <4>1. NonceOf(Head(chan["c12"]).id) \in Nonce
        BY <2>5, TakesTyped DEF ProcPipeline, Chans, OutChans, Threads
      <4>2. procStore[NonceOf(Head(chan["c12"]).id)] \in 1..Len(req)
        BY <3>3, <4>1 DEF TypeInv, Recorded, InFlight, Absent
      <4>3. QED
        BY <2>2, <3>3, <4>2
    <3>4. QED
      BY <2>5, <3>1, <3>2, <3>3 DEF ProcPipeline
  <2>6. CASE ProcRunnerResponds
    <3>1. CASE UNCHANGED pend
      BY <1>2, <3>1
    <3>2. CASE iReq # Absent /\ procStore[NonceOf(iReq)] # Absent
      <4>1. iReq \in 1..Len(req)
        BY <3>2 DEF TypeInv, Recorded, InFlight, Absent
      <4>2. procStore[NonceOf(iReq)] \in 1..Len(req)
        BY <3>2, <4>1, RequestTyped DEF TypeInv, Recorded, InFlight, Absent
      <4>3. \E from, ok, run : Answers(procStore[NonceOf(iReq)], from, ok, run)
        BY <2>6, <3>2 DEF ProcRunnerResponds
      <4>4. QED
        BY <2>2, <4>2, <4>3
    <3>3. QED
      BY <2>6, <3>1, <3>2 DEF ProcRunnerResponds
  <2>7. QED
    BY <1>4, <2>3, <2>4, <2>5, <2>6 DEF ProcessorThread
<1>5. ASSUME NEW t \in Threads, Flush(t) PROVE Aloof'
  <2>1. pend' = [pend EXCEPT ![t] = Tail(@)]
    BY <1>5 DEF Flush
  <2>2. CASE t # "processor"
    BY <1>1, <1>2, <2>1, <2>2
  <2>3. CASE t = "processor"
    <3> DEFINE p == pend["processor"]
    <3>1. p \in Seq(SendOf(Len(req))) /\ p # <<>> /\ pend'["processor"] = Tail(p)
      BY <1>1, <1>5, <2>1, <2>3 DEF Flush, TypeInv, InFlight
    <3> HIDE DEF p
    <3>2. \A i \in 1..Len(Tail(p)) : i + 1 \in 1..Len(p) /\ Tail(p)[i] = p[i + 1]
      BY <3>1, TailShifts
    <3>3. \A i \in 1..Len(p) : p[i].ch \notin Watched
      BY DEF p, Aloof
    <3>4. QED
      BY <3>1, <3>2, <3>3 DEF Aloof
  <2>4. QED
    BY <2>2, <2>3
<1>6. \A t \in Threads \ {"processor"} : \A ms : Sends(t, ms) => Others
  BY <1>1 DEF Sends
<1>7. {"runner", "database", "socket"} \subseteq Threads \ {"processor"}
  BY DEF Threads
<1>8. CASE RunnerThread
  <2>1. UNCHANGED pend \/ \E ms : Sends("runner", ms)
    <3>1. RunnerGetRun => UNCHANGED pend \/ \E ms : Sends("runner", ms)
      BY DEF RunnerGetRun, RunnerPanics
    <3>2. RunnerCreateRun => UNCHANGED pend \/ \E ms : Sends("runner", ms)
      BY DEF RunnerCreateRun
    <3>3. RunnerUpdateRun => UNCHANGED pend \/ \E ms : Sends("runner", ms)
      BY SMTT(30) DEF RunnerUpdateRun, RunnerPanics
    <3>4. RunnerDeleteRun => UNCHANGED pend \/ \E ms : Sends("runner", ms)
      BY DEF RunnerDeleteRun, RunnerPanics
    <3>5. RunnerDatabaseResponds => UNCHANGED pend \/ \E ms : Sends("runner", ms)
      BY DEF RunnerDatabaseResponds, Resolve
    <3>6. RunnerSocketResponds => UNCHANGED pend \/ \E ms : Sends("runner", ms)
      BY DEF RunnerSocketResponds, Resolve
    <3>7. QED
      BY <1>8, <3>1, <3>2, <3>3, <3>4, <3>5, <3>6 DEF RunnerThread
  <2>2. QED
    BY <1>2, <1>6, <1>7, <2>1
<1>9. CASE DatabaseServesProcessor \/ DatabaseServesRunner \/ SocketServesRunner
  <2>1. (\E ms : Sends("database", ms)) \/ \E ms : Sends("socket", ms)
    BY <1>9 DEF DatabaseServesProcessor, DatabaseServesRunner, SocketServesRunner
  <2>2. QED
    BY <1>2, <1>6, <1>7, <2>1
<1>10. CASE Clients \/ UNCHANGED vars
  <2>1. UNCHANGED pend
    BY <1>10 DEF Clients, IssueQuery, IssueCreateRun, IssueGetRun, IssueStopRun, WorkerReports,
                 ClientReceives, Issue, vars
  <2>2. QED
    BY <1>2, <2>1
<1>11. QED
  BY <1>4, <1>5, <1>8, <1>9, <1>10 DEF Next

\* A run becomes active only if it was sent.
LEMMA ActiveStays ==
  ASSUME TrailInv, TypeInv', [Next]_vars,
         \A r \in 1..Len(runs') : runs'[r].status = "active" =>
           \/ r \in 1..Len(runs) /\ runs[r].status = "active"
           \/ r \in Held
  PROVE  ActiveWasDispatched'
<1>1. Held \subseteq Held'
  BY RecordsStay DEF TrailInv
<1>2. \A r \in 1..Len(runs) : runs[r].status = "active" => r \in Held
  BY DEF TrailInv, Trail, ActiveWasDispatched
<1>3. \A r \in 1..Len(runs') : runs'[r].status = "active" => r \in Held'
  BY <1>1, <1>2
<1>4. QED
  BY <1>3 DEF ActiveWasDispatched

\* A handler that neither takes from nor sends on the watched channels.
LEMMA HandledAside ==
  ASSUME TypeInv, TypeInv', NEW t \in Threads, NEW ch \in Chans \ Watched, Takes(t, ch),
         NEW ms, Sends(t, ms), \A i \in 1..Len(ms) : ms[i].ch \notin Watched
  PROVE  \A c \in Watched : \A m : m \in Carried'[c] <=> m \in Carried[c]
<1> SUFFICES ASSUME NEW c \in Watched, NEW m PROVE m \in Carried'[c] <=> m \in Carried[c]
  OBVIOUS
<1>1. c \in OutChans /\ c # ch
  BY WatchedOut
<1>2. \A i \in 1..Len(ms) : ms[i] # [ch |-> c, msg |-> m]
  OBVIOUS
<1>3. /\ \A k \in Carried'[c] : \/ k \in Carried[c]
                                \/ \E i \in 1..Len(ms) : ms[i] = [ch |-> c, msg |-> k]
      /\ \A k \in Carried[c] : k \in Carried'[c] \/ (c = ch /\ k = Head(chan[ch]))
  BY <1>1, Handled
<1>4. QED
  BY <1>1, <1>2, <1>3

LEMMA NoneAside ==
  ASSUME TypeInv, TypeInv', NEW t \in Threads, NEW ch \in Chans \ Watched, Takes(t, ch),
         UNCHANGED pend
  PROVE  \A c \in Watched : \A m : m \in Carried'[c] <=> m \in Carried[c]
<1>1. Sends(t, <<>>)
  BY DEF Takes, Idle, Sends, TypeInv, InFlight
<1>2. \A i \in 1..Len(<<>>) : <<>>[i].ch \notin Watched
  OBVIOUS
<1>3. QED
  BY <1>1, <1>2, HandledAside

LEMMA OneAside ==
  ASSUME TypeInv, TypeInv', NEW t \in Threads, NEW ch \in Chans \ Watched, Takes(t, ch),
         NEW o \in OutChans \ Watched, NEW x, Sends(t, To(o, x))
  PROVE  \A c \in Watched : \A m : m \in Carried'[c] <=> m \in Carried[c]
<1>1. Len(To(o, x)) = 1 /\ To(o, x)[1].ch = o
  BY DEF To
<1>2. \A i \in 1..Len(To(o, x)) : To(o, x)[i].ch \notin Watched
  BY <1>1
<1> DEFINE ms == To(o, x)
<1>3. Sends(t, ms) /\ \A i \in 1..Len(ms) : ms[i].ch \notin Watched
  BY <1>2
<1> HIDE DEF ms
<1>4. QED
  BY <1>3, HandledAside

\* Steps of clients, blocked sends, and of the processor thread.
LEMMA OutsideTrail ==
  ASSUME TrailInv, TypeInv', [Next]_vars,
         \/ UNCHANGED vars \/ Clients \/ ProcessorThread \/ DatabaseServesProcessor
         \/ \E t \in Threads : Flush(t)
  PROVE  Trail'
<1>1. TypeInv /\ Aloof
  BY DEF TrailInv, Trail
<1>2. {"c11", "c12", "c13", "c14"} \subseteq OutChans \ Watched /\ {"database", "processor"} \subseteq Threads
  BY DEF OutChans, Watched, Threads
<1>3. \A s \in Sources : InOf(s) \in Chans \ Watched /\ OutOf(s) \in OutChans \ Watched
  BY DEF OutChans, Chans, InChans, Watched, Sources, OutOf, InOf
<1>4. UNCHANGED <<runStore, runs>>
  <2>1. UNCHANGED vars => UNCHANGED <<runStore, runs>>
    BY SMTT(30) DEF vars
  <2>2. Clients => UNCHANGED <<runStore, runs>>
    BY DEF Clients, IssueQuery, IssueCreateRun, IssueGetRun, IssueStopRun, WorkerReports,
           ClientReceives, Issue, runVars
  <2>3. ProcessorThread => UNCHANGED <<runStore, runs>>
    BY Zenon DEF ProcessorThread, ProcQuery, ProcCreateRun, ProcForward, ProcPipeline,
           ProcRunnerResponds, runVars
  <2>4. DatabaseServesProcessor \/ (\E t \in Threads : Flush(t)) => UNCHANGED <<runStore, runs>>
    BY Zenon DEF DatabaseServesProcessor, Flush, runVars
  <2>5. QED
    BY <2>1, <2>2, <2>3, <2>4
<1>5. \A c \in Watched : \A m : m \in Carried'[c] <=> m \in Carried[c]
  <2>1. CASE UNCHANGED vars \/ Clients
    <3>1. UNCHANGED pend /\ \A c \in Watched : chan'[c] = chan[c]
      <4>1. CASE UNCHANGED vars
        BY <4>1 DEF vars
      <4>2. ASSUME NEW s \in Sources, NEW act, NEW run, NEW rep, Issue(s, act, run, rep)
            PROVE  UNCHANGED pend /\ \A c \in Watched : chan'[c] = chan[c]
        <5>1. UNCHANGED pend /\ chan' = [chan EXCEPT ![InOf(s)] = Append(@, Message(Len(req) + 1))]
          BY <4>2 DEF Issue
        <5>2. QED
          BY <1>1, <1>3, <5>1, WatchedOut DEF TypeInv, InFlight
      <4>3. ASSUME NEW ch \in {"c6", "c8", "c19"}, ClientReceives(ch)
            PROVE  UNCHANGED pend /\ \A c \in Watched : chan'[c] = chan[c]
        <5>1. UNCHANGED pend /\ chan' = [chan EXCEPT ![ch] = Tail(@)] /\ ch \notin Watched
          BY <4>3 DEF ClientReceives, Watched
        <5>2. QED
          BY <1>1, <5>1, WatchedOut DEF TypeInv, InFlight
      <4>4. Clients => \/ \E s \in Sources : \E act, run, rep : Issue(s, act, run, rep)
                       \/ \E ch \in {"c6", "c8", "c19"} : ClientReceives(ch)
        BY DEF Clients, IssueQuery, IssueCreateRun, IssueGetRun, IssueStopRun, WorkerReports, Sources
      <4>5. QED
        BY <2>1, <4>1, <4>2, <4>3, <4>4
    <3>2. QED
      BY <1>1, <3>1, WatchedOut, LeftAlone
  <2>2. ASSUME NEW t \in Threads, Flush(t)
        PROVE  \A c \in Watched : \A m : m \in Carried'[c] <=> m \in Carried[c]
    BY <1>1, <2>2, Flushed, WatchedOut
  <2>3. CASE DatabaseServesProcessor
    <3>1. Takes("database", "c11") /\ \E x : Sends("database", To("c12", x))
      BY <2>3 DEF DatabaseServesProcessor
    <3>2. QED
      BY <1>1, <1>2, <3>1, OneAside, WatchedOut
  <2>4. CASE ProcessorThread
    <3>1. PICK ch \in Chans \ Watched : Takes("processor", ch)
      BY <1>2, <1>3, <2>4, WatchedOut, ZenonT(60)
      DEF ProcessorThread, ProcQuery, ProcCreateRun, ProcForward, ProcTakesRequest, ProcPipeline,
          ProcRunnerResponds
    <3>2. UNCHANGED pend \/ \E ms : Sends("processor", ms)
      BY <2>4, Zenon DEF ProcessorThread, ProcQuery, ProcCreateRun, ProcForward, ProcPipeline,
                  ProcRunnerResponds, Answers
    <3>3. CASE UNCHANGED pend
      BY <1>1, <1>2, <3>1, <3>3, NoneAside
    <3>4. ASSUME NEW ms, Sends("processor", ms)
          PROVE  \A c \in Watched : \A m : m \in Carried'[c] <=> m \in Carried[c]
      <4>1. pend'["processor"] = ms
        BY <1>1, <1>2, <3>4 DEF Sends, TypeInv, InFlight
      <4>2. \A i \in 1..Len(ms) : ms[i].ch \notin Watched
        BY <1>1, <4>1, AloofStays DEF Aloof
      <4>3. QED
        BY <1>1, <1>2, <3>1, <3>4, <4>2, HandledAside
    <3>5. QED
      BY <3>2, <3>3, <3>4, SMTT(30)
  <2>5. QED
    BY <2>1, <2>2, <2>3, <2>4
<1>6. ActiveWasDispatched'
  BY <1>4, ActiveStays
<1>7. QED
  BY <1>1, <1>4, <1>5, <1>6, AloofStays, TrailAside

\* A step about the requests with nonce k: what it takes it replaces, or forgets the entry.
LEMMA TrailStep ==
  ASSUME TrailInv, TypeInv', [Next]_vars, UNCHANGED req, NEW k \in Nonce,
         \A c \in Watched : \A m \in Carried[c] : m \in Carried'[c] \/ NonceOf(m.id) = k,
         \A n \in Nonce \ {k} : runStore'[n] = runStore[n],
         runStore'[k].id # Absent =>
           NonceOf(runStore'[k].id) = k /\ \E c \in Watched : \E m \in Carried'[c] : NonceOf(m.id) = k,
         \A m \in Carried'["c9"] :
           \/ m \in Carried["c9"]
           \/ m.kind = "create" => m.run \in 1..Len(runs') /\ m.worker = runs'[m.run].worker,
         \A m \in Carried'["c10"] : m \in Carried["c10"] \/ (m.kind = "create" /\ m.ok => m.run \in Held'),
         \A r \in 1..Len(runs') : runs'[r].status = "active" =>
           (r \in 1..Len(runs) /\ runs[r].status = "active") \/ r \in Held
  PROVE  Trail'
<1>1. TypeInv /\ Aloof /\ OwnNonce /\ Awaited /\ AsRecorded /\ Sent /\ Reported
  BY DEF TrailInv, Trail
<1>2. \A n \in Nonce : runStore'[n].id # Absent => req'[runStore'[n].id].nonce = n
  BY <1>1 DEF OwnNonce, NonceOf
<1>3. ASSUME NEW n \in Nonce, runStore'[n].id # Absent
      PROVE  \E c \in Watched : \E m \in Carried'[c] : req'[m.id].nonce = n
  <2>1. CASE n = k
    BY <1>3, <2>1 DEF NonceOf
  <2>2. CASE n # k
    <3>1. PICK c \in Watched : \E m \in Carried[c] : NonceOf(m.id) = n
      BY <1>1, <1>3, <2>2 DEF Awaited
    <3>2. PICK m \in Carried[c] : NonceOf(m.id) = n
      BY <3>1
    <3>3. m \in Carried'[c]
      BY <2>2, <3>2
    <3>4. QED
      BY <3>2, <3>3 DEF NonceOf
  <2>3. QED
    BY <2>1, <2>2
<1>4. Held \subseteq Held' /\ \A r \in 1..Len(runs) : r \in 1..Len(runs') /\ runs'[r].worker = runs[r].worker
  BY <1>1, RecordsStay
<1>5. OwnNonce'
  BY <1>2 DEF OwnNonce, NonceOf
<1>6. Awaited'
  BY <1>3 DEF Awaited, NonceOf
<1>7. AsRecorded'
  <2> SUFFICES ASSUME NEW m \in Carried'["c9"], m.kind = "create"
               PROVE  m.run \in 1..Len(runs') /\ m.worker = runs'[m.run].worker
    BY DEF AsRecorded
  <2>1. CASE m \in Carried["c9"]
    <3>1. m.run \in 1..Len(runs) /\ m.worker = runs[m.run].worker
      BY <1>1, <2>1 DEF AsRecorded
    <3>2. QED
      BY <1>4, <3>1
  <2>2. QED
    BY <2>1
<1>8. Sent'
  BY <1>1, <1>4 DEF Sent
<1>9. ActiveWasDispatched'
  BY ActiveStays
<1>10. QED
  BY <1>1, <1>5, <1>6, <1>7, <1>8, <1>9, AloofStays, ReportsStay DEF Trail

LEMMA CreateTrail ==
  ASSUME TrailInv, TypeInv', [Next]_vars, RunnerCreateRun
  PROVE  Trail'
<1> DEFINE m == Head(chan["c13"])
           x == [Message(m.id) EXCEPT !.kind = "pipeline"]
           k == NonceOf(m.id)
<1>1. TypeInv /\ k \in Nonce /\ m.id \in 1..Len(req) /\ m.worker \in Workers \cup {NoWorker}
  BY RunnerTakesTyped DEF RunnerCreateRun, TrailInv
<1>2. /\ Takes("runner", "c13") /\ UNCHANGED <<req, runs>> /\ Sends("runner", To("c15", x))
      /\ runStore' = [runStore EXCEPT ![k] = [id |-> m.id, worker |-> m.worker]]
  BY DEF RunnerCreateRun, RunnerTakes, clientVars
<1>3. "runner" \in Threads /\ "c13" \in Chans \ Watched /\ "c15" \in Watched /\ Watched \subseteq OutChans
  BY DEF Threads, Chans, OutChans, Watched
<1>4. x.id = m.id
  BY DEF Message
<1> HIDE DEF x
<1>5. /\ x \in Carried'["c15"]
      /\ \A c \in OutChans :
           /\ \A z \in Carried'[c] : z \in Carried[c] \/ (c = "c15" /\ z = x)
           /\ \A z \in Carried[c] : z \in Carried'[c] \/ (c = "c13" /\ z = Head(chan["c13"]))
  BY <1>1, <1>2, <1>3, SentOne
<1>6. /\ \A n \in Nonce \ {k} : runStore'[n] = runStore[n]
      /\ runStore'[k].id = m.id
  BY <1>1, <1>2 DEF TypeInv, InFlight
<1>7. /\ \A c \in Watched : \A z \in Carried[c] : z \in Carried'[c]
      /\ \A z \in Carried'["c9"] : z \in Carried["c9"]
      /\ \A z \in Carried'["c10"] : z \in Carried["c10"]
  BY <1>3, <1>5 DEF Watched
<1>8. \E c \in Watched : \E z \in Carried'[c] : NonceOf(z.id) = k
  BY <1>3, <1>4, <1>5
<1>9. QED
  BY <1>1, <1>2, <1>6, <1>7, <1>8, TrailStep

LEMMA UpdateTrail ==
  ASSUME TrailInv, TypeInv', [Next]_vars, RunnerUpdateRun
  PROVE  Trail'
<1> DEFINE m      == Head(chan["c13"])
           u      == req[m.id]
           r      == Lookup(u.run)
           refuse == [Message(m.id) EXCEPT !.ok = FALSE]
           ask    == Ask(m.id, "statistic", r[1], NoWorker)
           k      == NonceOf(m.id)
<1>1. TypeInv /\ k \in Nonce /\ m.id \in 1..Len(req) /\ u \in Request
  BY RunnerTakesTyped DEF RunnerUpdateRun, TrailInv
<1>2. Takes("runner", "c13") /\ UNCHANGED req /\ u.act = "Update"
  BY DEF RunnerUpdateRun, RunnerTakes, clientVars
<1>3. /\ "runner" \in Threads /\ "c13" \in Chans \ Watched /\ "c14" \in OutChans \ Watched
      /\ "c15" \in Watched /\ Watched \subseteq OutChans
  BY DEF Threads, Chans, OutChans, Watched
<1>4. \A i \in 1..Len(runs') : runs'[i].status = "active" =>
        (i \in 1..Len(runs) /\ runs[i].status = "active") \/ i \in Held
  <2>1. CASE UNCHANGED runs
    BY <2>1
  <2>2. CASE SetStatus(r[1], u.status)
    <3>1. u.run \in Held /\ Held \subseteq 1..Len(runs)
      BY <1>1, <1>2 DEF TrailInv, Trail, Reported, Held
    <3>2. r[1] = u.run
      <4>1. u.run \in 1..Len(runs)
        BY ONLY <3>1
      <4>2. Len(runs) \in Nat
        BY <1>1 DEF TypeInv, Recorded
      <4>3. u.run # 0
        BY ONLY <4>1, <4>2
      <4>4. QED
        BY ONLY <4>1, <4>3 DEF Lookup
    <3>3. Len(runs') = Len(runs)
      <4>1. u.status \in Status
        BY <1>1 DEF Request
      <4>2. QED
        BY <1>1, <2>2, <4>1, SetStatusTyped
    <3>4. QED
      BY <1>1, <2>2, <3>1, <3>2, <3>3, SetStatusElsewhere
  <2>3. QED
    BY <2>1, <2>2 DEF RunnerUpdateRun, RunnerPanics, runVars
<1>5. CASE UNCHANGED runStore /\ (UNCHANGED pend \/ Sends("runner", Reply(refuse)))
  <2>1. \A c \in Watched : \A z : z \in Carried'[c] <=> z \in Carried[c]
    BY <1>1, <1>2, <1>3, <1>5, NoneAside, OneAside DEF Reply
  <2>2. ActiveWasDispatched'
    BY <1>4, ActiveStays
  <2>3. QED
    BY <1>1, <1>5, <2>1, <2>2, AloofStays, TrailAside DEF TrailInv, Trail
<1>6. CASE /\ runStore' = [runStore EXCEPT ![u.nonce] = [id |-> m.id, worker |-> NoWorker]]
           /\ Sends("runner", To("c15", ask))
  <2>1. ask.id = m.id /\ u.nonce = k
    BY DEF Ask, NonceOf
  <2> HIDE DEF ask
  <2>2. /\ ask \in Carried'["c15"]
        /\ \A c \in OutChans :
             /\ \A z \in Carried'[c] : z \in Carried[c] \/ (c = "c15" /\ z = ask)
             /\ \A z \in Carried[c] : z \in Carried'[c] \/ (c = "c13" /\ z = Head(chan["c13"]))
    BY <1>1, <1>2, <1>3, <1>6, SentOne
  <2>3. /\ \A n \in Nonce \ {k} : runStore'[n] = runStore[n]
        /\ runStore'[k].id = m.id
    BY <1>1, <1>6, <2>1 DEF TypeInv, InFlight
  <2>4. /\ \A c \in Watched : \A z \in Carried[c] : z \in Carried'[c]
        /\ \A z \in Carried'["c9"] : z \in Carried["c9"]
        /\ \A z \in Carried'["c10"] : z \in Carried["c10"]
    BY <1>3, <2>2 DEF Watched
  <2>5. \E c \in Watched : \E z \in Carried'[c] : NonceOf(z.id) = k
    BY <1>3, <2>1, <2>2
  <2>6. QED
    BY <1>1, <1>2, <1>4, <2>3, <2>4, <2>5, TrailStep
<1>7. QED
  BY <1>5, <1>6 DEF RunnerUpdateRun, RunnerPanics, runVars

\* A handler of the request with nonce k takes one message and sends one.
LEMMA Passed ==
  ASSUME TrailInv, TypeInv', [Next]_vars, UNCHANGED req, NEW k \in Nonce,
         NEW t \in Threads, NEW ch \in Chans, Takes(t, ch),
         ch \in Watched => NonceOf(Head(chan[ch]).id) = k,
         NEW o \in OutChans, NEW x, Sends(t, To(o, x)),
         \A n \in Nonce \ {k} : runStore'[n] = runStore[n],
         runStore'[k].id # Absent =>
           NonceOf(runStore'[k].id) = k /\ o \in Watched /\ NonceOf(x.id) = k,
         o = "c9" /\ x.kind = "create" => x.run \in 1..Len(runs') /\ x.worker = runs'[x.run].worker,
         o = "c10" /\ x.kind = "create" /\ x.ok => x.run \in Held',
         \A r \in 1..Len(runs') : runs'[r].status = "active" =>
           (r \in 1..Len(runs) /\ runs[r].status = "active") \/ r \in Held
  PROVE  Trail'
<1>1. /\ x \in Carried'[o]
      /\ \A c \in OutChans :
           /\ \A m \in Carried'[c] : m \in Carried[c] \/ (c = o /\ m = x)
           /\ \A m \in Carried[c] : m \in Carried'[c] \/ (c = ch /\ m = Head(chan[ch]))
  BY SentOne DEF TrailInv
<1>2. \A c \in Watched : \A m \in Carried[c] : m \in Carried'[c] \/ NonceOf(m.id) = k
  BY <1>1, WatchedOut
<1>3. runStore'[k].id # Absent =>
        NonceOf(runStore'[k].id) = k /\ \E c \in Watched : \E m \in Carried'[c] : NonceOf(m.id) = k
  BY <1>1
<1>4. "c9" \in OutChans /\ "c10" \in OutChans
  BY DEF OutChans
<1>5. \A m \in Carried'["c9"] :
        \/ m \in Carried["c9"]
        \/ m.kind = "create" => m.run \in 1..Len(runs') /\ m.worker = runs'[m.run].worker
  BY <1>1, <1>4
<1>6. \A m \in Carried'["c10"] : m \in Carried["c10"] \/ (m.kind = "create" /\ m.ok => m.run \in Held')
  BY <1>1, <1>4
<1>7. QED
  BY <1>2, <1>3, <1>5, <1>6, TrailStep

\* A response nobody waits for is dropped.
LEMMA Dropped ==
  ASSUME TrailInv, TypeInv', [Next]_vars, UNCHANGED <<req, pend, runs, runStore>>, NEW k \in Nonce,
         NEW t \in Threads, NEW ch \in Chans, Takes(t, ch), NonceOf(Head(chan[ch]).id) = k,
         runStore[k].id = Absent
  PROVE  Trail'
<1>1. \A c \in OutChans :
        /\ \A m \in Carried'[c] : m \in Carried[c]
        /\ \A m \in Carried[c] : m \in Carried'[c] \/ (c = ch /\ m = Head(chan[ch]))
  BY SentNone DEF TrailInv
<1>2. \A c \in Watched : \A m \in Carried[c] : m \in Carried'[c] \/ NonceOf(m.id) = k
  BY <1>1, WatchedOut
<1>3. /\ \A m \in Carried'["c9"] : m \in Carried["c9"]
      /\ \A m \in Carried'["c10"] : m \in Carried["c10"]
  BY <1>1 DEF OutChans
<1>4. QED
  BY <1>2, <1>3, TrailStep

LEMMA GetTrail ==
  ASSUME TrailInv, TypeInv', [Next]_vars, RunnerGetRun
  PROVE  Trail'
<1> DEFINE x == Message(Head(chan["c13"]).id)
<1>1. TypeInv /\ Aloof /\ Takes("runner", "c13") /\ UNCHANGED <<runStore, runs>>
  BY DEF TrailInv, Trail, RunnerGetRun, RunnerTakes, RunnerPanics, runVars
<1>2. UNCHANGED pend \/ Sends("runner", To("c14", x))
  BY DEF RunnerGetRun, RunnerPanics, GetReply, Reply
<1>3. "runner" \in Threads /\ "c13" \in Chans \ Watched /\ "c14" \in OutChans \ Watched
  BY DEF Threads, Chans, OutChans, Watched
<1> HIDE DEF x
<1>4. \A c \in Watched : \A m : m \in Carried'[c] <=> m \in Carried[c]
  BY <1>1, <1>2, <1>3, NoneAside, OneAside
<1>5. QED
  BY <1>1, <1>4, ActiveStays, AloofStays, TrailAside

\* Two sends, one after the other.
LEMMA Twice ==
  ASSUME NEW c, NEW m, NEW i \in 1..Len(To(c, m) \o To(c, m))
  PROVE  (To(c, m) \o To(c, m))[i].ch = c
<1> DEFINE x == [ch |-> c, msg |-> m]
<1>1. To(c, m) = <<x>> /\ x.ch = c
  BY DEF To
<1> HIDE DEF x
<1>2. Len(<<x>>) = 1 /\ <<x>>[1] = x /\ <<x>> \in Seq({x})
  OBVIOUS
<1>3. Len(<<x>> \o <<x>>) = 2 /\ (<<x>> \o <<x>>)[1] = x /\ (<<x>> \o <<x>>)[2] = x
  BY <1>2, ConcatProperties
<1>4. i = 1 \/ i = 2
  BY <1>1, <1>3, SMTT(30)
<1>5. QED
  BY <1>1, <1>3, <1>4

LEMMA DeleteTrail ==
  ASSUME TrailInv, TypeInv', [Next]_vars, RunnerDeleteRun
  PROVE  Trail'
<1> DEFINE m    == Head(chan["c13"])
           d    == req[m.id]
           r    == Lookup(d.run)
           fail == [Message(m.id) EXCEPT !.ok = FALSE]
           both == Reply(fail) \o Reply(fail)
           ask  == Ask(m.id, "delete", d.run, runs[r[1]].worker)
           k    == NonceOf(m.id)
<1>0. TypeInv /\ Aloof /\ RunnerTakes("Delete")
  BY Zenon DEF RunnerDeleteRun, TrailInv, Trail
<1>1. TypeInv /\ Aloof /\ k \in Nonce /\ m.id \in 1..Len(req) /\ d \in Request
  BY ONLY <1>0, RunnerTakesTyped
<1>2. Takes("runner", "c13") /\ UNCHANGED req
  BY DEF RunnerDeleteRun, RunnerTakes, clientVars
<1>3. "runner" \in Threads /\ "c13" \in Chans \ Watched /\ "c9" \in OutChans /\ "c9" \in Watched
  BY DEF Threads, Chans, OutChans, Watched
<1>4. CASE UNCHANGED <<runStore, runs>> /\ (UNCHANGED pend \/ Sends("runner", both))
  <2>1. both = To("c14", fail) \o To("c14", fail)
    BY DEF Reply
  <2>2. \A i \in 1..Len(both) : both[i].ch \notin Watched
    BY <2>1, Twice DEF Watched
  <2> HIDE DEF both
  <2>3. \A c \in Watched : \A z : z \in Carried'[c] <=> z \in Carried[c]
    BY <1>1, <1>2, <1>3, <1>4, <2>2, NoneAside, HandledAside
  <2>4. QED
    BY <1>1, <1>4, <2>3, ActiveStays, AloofStays, TrailAside
<1>5. CASE /\ SetStatus(r[1], "cancelled")
           /\ runStore' = [runStore EXCEPT ![d.nonce] = [id |-> m.id, worker |-> NoWorker]]
           /\ Sends("runner", To("c9", ask))
  <2>1. ask.id = m.id /\ d.nonce = k /\ ask.kind = "delete"
    BY DEF Ask, NonceOf
  <2> HIDE DEF ask
  <2>2. /\ \A n \in Nonce \ {k} : runStore'[n] = runStore[n]
        /\ runStore'[k].id = m.id
    BY <1>1, <1>5, <2>1 DEF TypeInv, InFlight
  <2>3. \A i \in 1..Len(runs') : runs'[i].status = "active" => i \in 1..Len(runs) /\ runs[i].status = "active"
    <3>1. Len(runs') = Len(runs)
      BY <1>1, <1>5, SetStatusTyped DEF Status
    <3>2. QED
      BY <1>1, <1>5, <3>1, SetStatusElsewhere
  <2>4. QED
    BY <1>1, <1>2, <1>3, <1>5, <2>1, <2>2, <2>3, Passed
<1>6. \/ UNCHANGED <<runStore, runs>> /\ (UNCHANGED pend \/ Sends("runner", both))
      \/ /\ SetStatus(r[1], "cancelled")
         /\ runStore' = [runStore EXCEPT ![d.nonce] = [id |-> m.id, worker |-> NoWorker]]
         /\ Sends("runner", To("c9", ask))
  BY Zenon DEF RunnerDeleteRun, RunnerPanics, runVars
<1>7. QED
  BY ONLY <1>4, <1>5, <1>6

\* What the runner finds when a response reaches it.
LEMMA RespondedTyped ==
  ASSUME TypeInv, NEW ch \in {"c10", "c16"}, Takes("runner", ch)
  PROVE  /\ Head(chan[ch]) \in Carried[ch]
         /\ Head(chan[ch]).id \in 1..Len(req)
         /\ NonceOf(Head(chan[ch]).id) \in Nonce
         /\ runStore[NonceOf(Head(chan[ch]).id)] \in EntryOf(Len(req))
<1> DEFINE m == Head(chan[ch])
<1>1. ch \in OutChans
  BY DEF OutChans
<1>2. chan[ch] \in Seq(MsgOf(Len(req))) /\ chan[ch] # <<>>
  BY <1>1 DEF TypeInv, InFlight, Chans, Takes
<1>3. m = chan[ch][1] /\ 1 \in 1..Len(chan[ch]) /\ m \in MsgOf(Len(req))
  BY <1>2
<1>4. m \in Carried[ch]
  BY <1>1, <1>3, CarriedBy DEF Spread
<1>5. m.id \in 1..Len(req)
  BY <1>1, <1>4, CarriedTyped
<1>6. NonceOf(m.id) \in Nonce
  BY <1>5, RequestTyped DEF NonceOf
<1>7. QED
  BY <1>4, <1>5, <1>6 DEF TypeInv, InFlight

\* An entry that is answered is forgotten, and its answer leaves by c14.
LEMMA ResolvedTrail ==
  ASSUME TrailInv, TypeInv', [Next]_vars, UNCHANGED req,
         NEW ch \in {"c10", "c16"}, Takes("runner", ch),
         NEW ok, NEW run, NEW k \in Nonce, k = NonceOf(Head(chan[ch]).id),
         Resolve(runStore[k], k, ok, run),
         \A r \in 1..Len(runs') : runs'[r].status = "active" =>
           (r \in 1..Len(runs) /\ runs[r].status = "active") \/ r \in Held
  PROVE  Trail'
<1> DEFINE x == [Message(runStore[k].id) EXCEPT !.ok = ok, !.run = run]
<1>1. ch \in Chans /\ "runner" \in Threads /\ "c14" \in OutChans
  BY DEF Chans, OutChans, Threads
<1>2. Sends("runner", To("c14", x))
  BY DEF Resolve, Reply
<1>3. /\ \A n \in Nonce \ {k} : runStore'[n] = runStore[n]
      /\ runStore'[k].id = Absent
  BY DEF Resolve, NoEntry, TrailInv, TypeInv, InFlight
<1> HIDE DEF x
<1>4. QED
  BY <1>1, <1>2, <1>3, Passed

LEMMA DatabaseRespondsTrail ==
  ASSUME TrailInv, TypeInv', [Next]_vars, RunnerDatabaseResponds
  PROVE  Trail'
<1> DEFINE m == Head(chan["c16"])
           n == NonceOf(m.id)
           e == runStore[n]
           x == Ask(e.id, "create", NewRunId, e.worker)
           rec == [worker |-> e.worker, for |-> e.id, status |-> "created"]
<1>1. TypeInv /\ OwnNonce /\ Takes("runner", "c16") /\ UNCHANGED req
  BY DEF RunnerDatabaseResponds, clientVars, TrailInv, Trail
<1>2. n \in Nonce /\ "c16" \in {"c10", "c16"}
  BY <1>1, RespondedTyped
<1>3. "runner" \in Threads /\ "c16" \in Chans /\ "c9" \in OutChans /\ "c9" \in Watched
  BY DEF Threads, Chans, OutChans, Watched
<1>4. CASE e.id = Absent /\ UNCHANGED <<pend, runStore, runs>>
  BY <1>1, <1>2, <1>3, <1>4, Dropped
<1>5. CASE Resolve(e, n, FALSE, 0) /\ UNCHANGED runs
  BY <1>1, <1>2, <1>5, ResolvedTrail
<1>6. CASE runs' = Append(runs, rec) /\ e.id # Absent
  <2>1. Len(runs) \in Nat /\ Len(runs') = Len(runs) + 1 /\ runs'[Len(runs) + 1] = rec
        /\ \A r \in 1..Len(runs) : runs'[r] = runs[r]
    BY <1>1, <1>6 DEF TypeInv, Recorded
  <2>2. rec.status # "active" /\ rec.worker = e.worker
    OBVIOUS
  <2>3. x.id = e.id /\ x.run = Len(runs) + 1 /\ x.worker = e.worker
    BY DEF Ask, NewRunId
  <2> HIDE DEF rec, x
  <2>4. \A r \in 1..Len(runs') : r \in 1..Len(runs) \/ r = Len(runs) + 1
    BY <2>1
  <2>5. \A r \in 1..Len(runs') : runs'[r].status = "active" => r \in 1..Len(runs) /\ runs[r].status = "active"
    BY <2>1, <2>2, <2>4
  <2>6. CASE Resolve(e, n, FALSE, 0)
    BY <1>1, <1>2, <2>5, <2>6, ResolvedTrail
  <2>7. CASE Sends("runner", To("c9", x)) /\ UNCHANGED runStore
    <3>1. NonceOf(e.id) = n
      BY <1>1, <1>2, <1>6 DEF OwnNonce
    <3>2. x.run \in 1..Len(runs') /\ x.worker = runs'[x.run].worker
      BY <2>1, <2>2, <2>3
    <3>3. QED
      BY <1>1, <1>2, <1>3, <2>3, <2>5, <2>7, <3>1, <3>2, Passed
  <2>8. QED
    BY <1>6, <2>6, <2>7 DEF RunnerDatabaseResponds, runVars, x, rec
<1>7. QED
  BY <1>4, <1>5, <1>6 DEF RunnerDatabaseResponds, runVars

LEMMA SocketRespondsTrail ==
  ASSUME TrailInv, TypeInv', [Next]_vars, RunnerSocketResponds
  PROVE  Trail'
<1> DEFINE m == Head(chan["c10"])
           n == NonceOf(m.id)
           e == runStore[n]
<1>1. TypeInv /\ Sent /\ Takes("runner", "c10") /\ UNCHANGED req
  BY DEF RunnerSocketResponds, clientVars, TrailInv, Trail
<1>2. n \in Nonce /\ "c10" \in {"c10", "c16"} /\ m \in Carried["c10"]
  BY <1>1, RespondedTyped
<1>3. "runner" \in Threads /\ "c10" \in Chans
  BY DEF Threads, Chans, OutChans
<1>4. CASE e.id = Absent /\ UNCHANGED <<pend, runStore, runs>>
  BY <1>1, <1>2, <1>3, <1>4, Dropped
<1>5. CASE Dispatched(m) /\ Resolve(e, n, TRUE, m.run) /\ SetStatus(m.run, "active")
  <2>1. m.run \in Held
    BY <1>1, <1>2, <1>5 DEF Sent, Dispatched
  <2>2. Len(runs') = Len(runs)
    BY <1>1, <1>5, SetStatusTyped DEF Status
  <2>3. \A r \in 1..Len(runs') : runs'[r].status = "active" =>
          (r \in 1..Len(runs) /\ runs[r].status = "active") \/ r \in Held
    BY <1>1, <1>5, <2>1, <2>2, SetStatusElsewhere
  <2>4. QED
    BY <1>1, <1>2, <1>5, <2>3, ResolvedTrail
<1>6. CASE Resolve(e, n, m.ok, 0) /\ UNCHANGED runs
  BY <1>1, <1>2, <1>6, ResolvedTrail
<1>7. QED
  BY <1>4, <1>5, <1>6 DEF RunnerSocketResponds, runVars

\* The threads at the other end answer a message with one of the same nonce.
LEMMA ServedTrail ==
  ASSUME TrailInv, TypeInv', [Next]_vars, DatabaseServesRunner \/ SocketServesRunner
  PROVE  Trail'
<1>1. TypeInv /\ OwnNonce /\ AsRecorded /\ UNCHANGED <<req, runStore, runs>>
  BY DEF DatabaseServesRunner, SocketServesRunner, clientVars, runVars, TrailInv, Trail
<1>2. /\ {"database", "socket"} \subseteq Threads
      /\ {"c9", "c10", "c15", "c16"} \subseteq OutChans \cap Watched
      /\ "c9" \in Chans /\ "c15" \in Chans
  BY DEF Threads, Chans, OutChans, Watched
<1>3. ASSUME NEW ch \in OutChans, NEW t \in Threads, Takes(t, ch)
      PROVE  /\ Head(chan[ch]) \in Carried[ch]
             /\ NonceOf(Head(chan[ch]).id) \in Nonce
             /\ Head(chan[ch]) \in MsgOf(Len(req))
  <2>1. chan[ch] \in Seq(MsgOf(Len(req))) /\ chan[ch] # <<>>
    BY <1>1, <1>3 DEF TypeInv, InFlight, Chans, Takes
  <2>2. Head(chan[ch]) = chan[ch][1] /\ 1 \in 1..Len(chan[ch])
    BY <2>1
  <2>3. Head(chan[ch]) \in Carried[ch]
    BY <1>1, <2>2, CarriedBy DEF Spread
  <2>4. QED
    BY <1>1, <2>3, CarriedTyped, RequestTyped
<1>4. CASE DatabaseServesRunner
  <2> DEFINE m == Head(chan["c15"])
             k == NonceOf(m.id)
  <2>1. PICK ok \in BOOLEAN : Sends("database", To("c16", [m EXCEPT !.ok = ok])) /\ Takes("database", "c15")
    BY <1>4 DEF DatabaseServesRunner
  <2> DEFINE x == [m EXCEPT !.ok = ok]
  <2>2. k \in Nonce /\ x.id = m.id
    BY <1>2, <1>3, <2>1 DEF MsgOf
  <2>3. Sends("database", To("c16", x))
    BY <2>1
  <2> HIDE DEF x
  <2>4. runStore'[k].id # Absent => NonceOf(runStore'[k].id) = k
    BY <1>1, <2>2 DEF OwnNonce
  <2>5. QED
    BY <1>1, <1>2, <2>1, <2>2, <2>3, <2>4, Passed
<1>5. CASE SocketServesRunner
  <2> DEFINE m == Head(chan["c9"])
             k == NonceOf(m.id)
  <2>1. PICK ok \in BOOLEAN :
          /\ Takes("socket", "c9")
          /\ ok => m.worker # NoWorker
          /\ wire' = IF ok THEN Append(wire, [kind |-> m.kind, run |-> m.run, worker |-> m.worker])
                           ELSE wire
          /\ Sends("socket", To("c10", [m EXCEPT !.ok = ok]))
    BY <1>5 DEF SocketServesRunner
  <2> DEFINE x == [m EXCEPT !.ok = ok]
             z == [kind |-> m.kind, run |-> m.run, worker |-> m.worker]
  <2>2. k \in Nonce /\ m \in Carried["c9"] /\ m \in MsgOf(Len(req))
    BY <1>2, <1>3, <2>1
  <2>3. x.id = m.id /\ x.ok = ok /\ x.run = m.run /\ x.kind = m.kind
    BY <2>2 DEF MsgOf
  <2>4. Sends("socket", To("c10", x)) /\ (ok => wire' = Append(wire, z))
    BY <2>1
  <2>5. z.kind = m.kind /\ z.run = m.run
    OBVIOUS
  <2> HIDE DEF x, z
  <2>6. x.kind = "create" /\ x.ok => x.run \in Held'
    <3> SUFFICES ASSUME x.kind = "create", x.ok PROVE x.run \in Held'
      OBVIOUS
    <3>1. m.run \in 1..Len(runs')
      BY <1>1, <2>2, <2>3 DEF AsRecorded
    <3>2. wire \in Seq(Letter) /\ wire' = Append(wire, z)
      BY <1>1, <2>3, <2>4 DEF TypeInv, Recorded
    <3>3. Len(wire) + 1 \in 1..Len(wire') /\ wire'[Len(wire) + 1] = z
      BY <3>2
    <3>4. QED
      BY <2>3, <2>5, <3>1, <3>3 DEF Held
  <2>7. runStore'[k].id # Absent => NonceOf(runStore'[k].id) = k
    BY <1>1, <2>2 DEF OwnNonce
  <2>8. QED
    BY <1>1, <1>2, <2>1, <2>2, <2>3, <2>4, <2>6, <2>7, Passed
<1>6. QED
  BY <1>4, <1>5

LEMMA InitTrail == Init => TrailInv
<1> SUFFICES ASSUME Init PROVE TrailInv
  OBVIOUS
<1>1. TypeInv
  BY InitTyped
<1>2. /\ \A n \in Nonce : runStore[n].id = Absent
      /\ \A c \in OutChans : chan[c] = <<>>
      /\ \A t \in Threads : pend[t] = <<>>
      /\ runs = <<>> /\ req = <<>>
  BY DEF Init, NoEntry
<1>3. ASSUME NEW c \in OutChans, NEW m PROVE m \notin Carried[c]
  <2>1. chan[c] = <<>> /\ \A t \in Threads : pend[t] = <<>>
    BY <1>2
  <2>2. \A i : i \notin 1..Len(<<>>)
    OBVIOUS
  <2>3. QED
    BY <1>1, <2>1, <2>2, CarriedBy DEF Spread
<1>4. "processor" \in Threads /\ "c9" \in OutChans /\ "c10" \in OutChans
  BY DEF Threads, OutChans
<1>5. Aloof /\ Reported /\ ActiveWasDispatched
  BY <1>2, <1>4 DEF Aloof, Reported, ActiveWasDispatched
<1>6. OwnNonce /\ Awaited
  BY <1>2 DEF OwnNonce, Awaited
<1>7. AsRecorded /\ Sent
  BY <1>3, <1>4 DEF AsRecorded, Sent
<1>8. QED
  BY <1>1, <1>5, <1>6, <1>7 DEF TrailInv, Trail

LEMMA StepTrail == TrailInv /\ [Next]_vars => TrailInv'
<1> SUFFICES ASSUME TrailInv, [Next]_vars PROVE TypeInv' /\ Trail'
  BY DEF TrailInv
<1>1. TypeInv'
  BY StepTyped DEF TrailInv
<1>2. Trail'
  BY <1>1, OutsideTrail, GetTrail, CreateTrail, UpdateTrail, DeleteTrail, DatabaseRespondsTrail,
     SocketRespondsTrail, ServedTrail
  DEF Next, RunnerThread
<1>3. QED
  BY <1>1, <1>2

\* A message that is carried on a watched channel is in transit.
LEMMA CarriedInTransit ==
  ASSUME TypeInv, Aloof, NEW c \in Watched, NEW m \in Carried[c]
  PROVE  InTransit(NonceOf(m.id))
<1>1. \/ \E i \in 1..Len(chan[c]) : chan[c][i] = m
      \/ \E t \in Threads : \E i \in 1..Len(pend[t]) : pend[t][i] = [ch |-> c, msg |-> m]
  BY CarriedBy, WatchedOut DEF Spread
<1>2. CASE \E i \in 1..Len(chan[c]) : chan[c][i] = m
  BY <1>2 DEF InTransit, Watched
<1>3. CASE \E t \in Threads : \E i \in 1..Len(pend[t]) : pend[t][i] = [ch |-> c, msg |-> m]
  <2>1. PICK t \in Threads : \E i \in 1..Len(pend[t]) : pend[t][i] = [ch |-> c, msg |-> m]
    BY <1>3
  <2>2. PICK i \in 1..Len(pend[t]) : pend[t][i] = [ch |-> c, msg |-> m]
    BY <2>1
  <2>3. pend[t][i].ch = c /\ pend[t][i].msg = m
    BY <2>2
  <2>4. t \in {"runner", "database", "socket"}
    BY <2>2, <2>3 DEF Aloof, Threads
  <2>5. QED
    BY <2>2, <2>3, <2>4 DEF InTransit, Watched
<1>4. QED
  BY <1>1, <1>2, <1>3

\* Whatever the runner has stored, an answer that will resolve it is under way, however many
\* requests and workers there are.
THEOREM StoredIsAwaited == Spec => []RunnerStoreIsAwaited
<1>1. Spec => []TrailInv
  BY InitTrail, StepTrail, PTL DEF Spec
<1>2. TrailInv => RunnerStoreIsAwaited
  BY CarriedInTransit DEF TrailInv, Trail, Awaited, RunnerStoreIsAwaited
<1>3. QED
  BY <1>1, <1>2, PTL

\* A run is active only after its worker was told of it, for any placement of runs.
THEOREM ActiveIsDispatched == Spec => []ActiveWasDispatched
<1>1. Spec => []TrailInv
  BY InitTrail, StepTrail, PTL DEF Spec
<1>2. TrailInv => ActiveWasDispatched
  BY DEF TrailInv, Trail
<1>3. QED
  BY <1>1, <1>2, PTL
-----------------------------------------------------------------------------
(* A run is dispatched once.  Whoever carries a message is not enough here: what counts is  *)
(* in how many places the creation of a run is.                                             *)

\* The places of creations: in the runner's hands, on their way to the socket thread, written.
Bound(p)     == {i \in 1..Len(p) : p[i].ch = "c9" /\ p[i].msg.kind = "create"}
Creations(q) == {i \in 1..Len(q) : q[i].kind = "create"}
Hand == Bound(pend["runner"])
Line == Creations(chan["c9"])
Gone == Creations(wire)

\* Creations in different places are of different runs.
Apart(p, c, w) ==
  /\ \A i, j \in Bound(p) : p[i].msg.run = p[j].msg.run => i = j
  /\ \A i, j \in Creations(c) : c[i].run = c[j].run => i = j
  /\ \A i, j \in Creations(w) : w[i].run = w[j].run => i = j
  /\ \A i \in Bound(p), j \in Creations(c) : p[i].msg.run # c[j].run
  /\ \A i \in Bound(p), j \in Creations(w) : p[i].msg.run # w[j].run
  /\ \A i \in Creations(c), j \in Creations(w) : c[i].run # w[j].run

\* Nobody but the runner sends to the socket thread.
Modest == \A t \in {"database", "socket"} : \A i \in 1..Len(pend[t]) : pend[t][i].ch # "c9"

Single == Apart(pend["runner"], chan["c9"], wire)

\* What is written is as recorded.
Written == \A i \in Gone : wire[i].run \in 1..Len(runs) /\ wire[i].worker = runs[wire[i].run].worker

OutInv == TrailInv /\ Modest /\ Single /\ Written

\* Whatever is about to be dispatched is recorded.
LEMMA PlacesRecorded ==
  ASSUME TrailInv
  PROVE  /\ \A i \in Hand : pend["runner"][i].msg.run \in 1..Len(runs)
         /\ \A i \in Line : /\ chan["c9"][i].run \in 1..Len(runs)
                            /\ chan["c9"][i].worker = runs[chan["c9"][i].run].worker
<1>1. TypeInv /\ AsRecorded /\ "c9" \in OutChans /\ "runner" \in Threads
  BY DEF TrailInv, Trail, OutChans, Threads
<1>2. ASSUME NEW i \in Hand PROVE pend["runner"][i].msg.run \in 1..Len(runs)
  <2> DEFINE m == pend["runner"][i].msg
  <2>1. pend["runner"] \in Seq(SendOf(Len(req))) /\ i \in 1..Len(pend["runner"])
    BY <1>1 DEF TypeInv, InFlight, Hand, Bound
  <2>2. pend["runner"][i] \in SendOf(Len(req))
    BY <2>1, ElementOfSeq
  <2>3. pend["runner"][i] = [ch |-> "c9", msg |-> m] /\ m.kind = "create"
    BY <2>2 DEF SendOf, Hand, Bound
  <2>4. m \in Carried["c9"]
    BY <1>1, <2>1, <2>3, CarriedBy DEF Spread
  <2>5. QED
    BY <1>1, <2>3, <2>4 DEF AsRecorded
<1>3. ASSUME NEW i \in Line
      PROVE  /\ chan["c9"][i].run \in 1..Len(runs)
             /\ chan["c9"][i].worker = runs[chan["c9"][i].run].worker
  <2>1. chan["c9"][i] \in Carried["c9"] /\ chan["c9"][i].kind = "create"
    BY <1>1, CarriedBy DEF Spread, Line, Creations
  <2>2. QED
    BY <1>1, <2>1 DEF AsRecorded
<1>4. QED
  BY <1>2, <1>3

\* What the first message of a sequence is, and the others.
LEMMA Heads ==
  ASSUME NEW T, NEW q \in Seq(T), q # <<>>
  PROVE  /\ Tail(q) \in Seq(T) /\ Head(q) \in T /\ Head(q) = q[1] /\ 1 \in 1..Len(q)
         /\ \A i \in 1..Len(Tail(q)) : i + 1 \in 1..Len(q) /\ i + 1 # 1 /\ Tail(q)[i] = q[i + 1]
OBVIOUS

LEMMA Grows ==
  ASSUME NEW T, NEW q \in Seq(T), NEW x
  PROVE  /\ Len(Append(q, x)) = Len(q) + 1 /\ Len(q) + 1 \notin 1..Len(q)
         /\ \A i \in 1..Len(Append(q, x)) :
              \/ i \in 1..Len(q) /\ Append(q, x)[i] = q[i]
              \/ i = Len(q) + 1 /\ Append(q, x)[i] = x
OBVIOUS

\* What steps do to the hands of the threads.
LEMMA HandsChange ==
  ASSUME TypeInv, [Next]_vars
  PROVE  /\ pend'["runner"] = pend["runner"] \/ Flush("runner") \/ RunnerThread
         /\ \A t \in {"database", "socket"} :
              \/ pend'[t] = pend[t] \/ Flush(t)
              \/ \E o \in {"c10", "c12", "c16"} : \E x : pend'[t] = To(o, x)
<1>1. DOMAIN pend = Threads /\ {"runner", "database", "socket", "processor"} = Threads
  BY DEF TypeInv, InFlight, Threads
<1>2. CASE Clients \/ UNCHANGED vars
  <2>1. UNCHANGED pend
    BY <1>2, Zenon DEF Clients, IssueQuery, IssueCreateRun, IssueGetRun, IssueStopRun, WorkerReports,
                ClientReceives, Issue, vars
  <2>2. QED
    BY <2>1
<1>3. CASE ProcessorThread
  <2>1. UNCHANGED pend \/ \E ms : Sends("processor", ms)
    BY <1>3, Zenon DEF ProcessorThread, ProcQuery, ProcCreateRun, ProcForward, ProcPipeline,
                ProcRunnerResponds, Answers
  <2>2. QED
    BY <1>1, <2>1 DEF Sends
<1>4. CASE RunnerThread
  <2>1. UNCHANGED pend \/ \E ms : Sends("runner", ms)
    <3>1. RunnerGetRun \/ RunnerCreateRun => UNCHANGED pend \/ \E ms : Sends("runner", ms)
      BY DEF RunnerGetRun, RunnerCreateRun, RunnerPanics
    <3>2. RunnerUpdateRun => UNCHANGED pend \/ \E ms : Sends("runner", ms)
      BY DEF RunnerUpdateRun, RunnerPanics
    <3>3. RunnerDeleteRun => UNCHANGED pend \/ \E ms : Sends("runner", ms)
      BY DEF RunnerDeleteRun, RunnerPanics
    <3>4. RunnerDatabaseResponds => UNCHANGED pend \/ \E ms : Sends("runner", ms)
      BY DEF RunnerDatabaseResponds, Resolve
    <3>5. RunnerSocketResponds => UNCHANGED pend \/ \E ms : Sends("runner", ms)
      BY DEF RunnerSocketResponds, Resolve
    <3>6. QED
      BY <1>4, <3>1, <3>2, <3>3, <3>4, <3>5 DEF RunnerThread
  <2>2. QED
    BY <1>1, <1>4, <2>1 DEF Sends
<1>5. CASE DatabaseServesProcessor \/ DatabaseServesRunner \/ SocketServesRunner
  <2>1. \E o \in {"c10", "c12", "c16"} : \E x : Sends("database", To(o, x)) \/ Sends("socket", To(o, x))
    BY <1>5 DEF DatabaseServesProcessor, DatabaseServesRunner, SocketServesRunner
  <2>2. QED
    BY <1>1, <2>1 DEF Sends
<1>6. ASSUME NEW t \in Threads, Flush(t)
      PROVE  \A u \in Threads \ {t} : pend'[u] = pend[u]
  BY <1>1, <1>6 DEF Flush
<1>7. CASE \E t \in Threads : Flush(t)
  BY <1>1, <1>6, <1>7
<1>8. QED
  BY <1>2, <1>3, <1>4, <1>5, <1>7 DEF Next

LEMMA ModestStays ==
  ASSUME TypeInv, [Next]_vars, Modest
  PROVE  Modest'
<1> SUFFICES ASSUME NEW t \in {"database", "socket"}, NEW i \in 1..Len(pend'[t])
             PROVE  pend'[t][i].ch # "c9"
  BY DEF Modest
<1>1. t \in Threads
  BY DEF Threads
<1>2. CASE pend'[t] = pend[t]
  BY <1>2 DEF Modest
<1>3. CASE Flush(t)
  <2> DEFINE p == pend[t]
  <2>1. p \in Seq(SendOf(Len(req))) /\ p # <<>> /\ pend'[t] = Tail(p)
    BY <1>1, <1>3 DEF Flush, TypeInv, InFlight
  <2>2. \A k \in 1..Len(p) : p[k].ch # "c9"
    BY DEF Modest
  <2> HIDE DEF p
  <2>3. i + 1 \in 1..Len(p) /\ Tail(p)[i] = p[i + 1]
    BY <2>1, Heads
  <2>4. QED
    BY <2>1, <2>2, <2>3
<1>4. CASE \E o \in {"c10", "c12", "c16"} : \E x : pend'[t] = To(o, x)
  <2>1. PICK o \in {"c10", "c12", "c16"} : \E x : pend'[t] = To(o, x)
    BY <1>4
  <2>2. PICK x : pend'[t] = To(o, x)
    BY <2>1
  <2>3. Len(To(o, x)) = 1 /\ To(o, x)[1].ch = o
    BY DEF To
  <2>4. i = 1
    BY <2>2, <2>3
  <2>5. QED
    BY <2>2, <2>3, <2>4
<1>5. QED
  BY <1>2, <1>3, <1>4, HandsChange

\* What steps do to the channel to the socket thread.
LEMMA LineChanges ==
  ASSUME OutInv, [Next]_vars
  PROVE  chan'["c9"] = chan["c9"] \/ Flush("runner") \/ SocketServesRunner
<1>1. /\ TypeInv /\ Aloof /\ Modest /\ DOMAIN chan = Chans /\ "c9" \in Chans
      /\ {"runner", "database", "socket", "processor"} = Threads
  BY DEF OutInv, TrailInv, Trail, TypeInv, InFlight, Threads, Chans, OutChans
<1>2. \A t, ch : Takes(t, ch) /\ ch # "c9" => chan'["c9"] = chan["c9"]
  BY <1>1 DEF Takes
<1>3. CASE Clients \/ UNCHANGED vars
  <2>1. \A s : InOf(s) # "c9" \/ s \notin Sources
    BY DEF InOf, Sources
  <2>2. ASSUME NEW s \in Sources, NEW act, NEW run, NEW rep, Issue(s, act, run, rep)
        PROVE  chan'["c9"] = chan["c9"]
    BY <1>1, <2>1, <2>2 DEF Issue
  <2>3. (\E ch \in {"c6", "c8", "c19"} : ClientReceives(ch)) => chan'["c9"] = chan["c9"]
    BY <1>1 DEF ClientReceives
  <2>4. Clients => \/ \E s \in Sources : \E act, run, rep : Issue(s, act, run, rep)
                   \/ \E ch \in {"c6", "c8", "c19"} : ClientReceives(ch)
    BY DEF Clients, IssueQuery, IssueCreateRun, IssueGetRun, IssueStopRun, WorkerReports, Sources
  <2>5. QED
    BY <1>3, <2>2, <2>3, <2>4 DEF vars
<1>4. CASE ProcessorThread
  <2>1. \A s \in Sources : InOf(s) # "c9"
    BY DEF InOf, Sources
  <2>2. \A s \in Sources : ProcQuery(s) \/ ProcCreateRun(s) \/ ProcForward(s) => Takes("processor", InOf(s))
    BY DEF ProcQuery, ProcCreateRun, ProcForward, ProcTakesRequest
  <2>3. ProcPipeline => Takes("processor", "c12")
    BY DEF ProcPipeline
  <2>4. ProcRunnerResponds => Takes("processor", "c14")
    BY DEF ProcRunnerResponds
  <2>5. QED
    BY <1>2, <1>4, <2>1, <2>2, <2>3, <2>4 DEF ProcessorThread
<1>5. CASE RunnerThread
  <2>1. RunnerGetRun \/ RunnerCreateRun \/ RunnerUpdateRun \/ RunnerDeleteRun => Takes("runner", "c13")
    BY Zenon DEF RunnerGetRun, RunnerCreateRun, RunnerUpdateRun, RunnerDeleteRun, RunnerTakes
  <2>2. RunnerDatabaseResponds => Takes("runner", "c16")
    BY DEF RunnerDatabaseResponds
  <2>3. RunnerSocketResponds => Takes("runner", "c10")
    BY DEF RunnerSocketResponds
  <2>4. QED
    BY <1>2, <1>5, <2>1, <2>2, <2>3 DEF RunnerThread
<1>6. CASE DatabaseServesProcessor \/ DatabaseServesRunner
  <2>1. \E ch : Takes("database", ch) /\ ch # "c9"
    BY <1>6 DEF DatabaseServesProcessor, DatabaseServesRunner
  <2>2. QED
    BY <1>2, <2>1
<1>7. ASSUME NEW t \in Threads, Flush(t), t # "runner" PROVE chan'["c9"] = chan["c9"]
  <2> DEFINE p == pend[t]
  <2>1. p \in Seq(SendOf(Len(req))) /\ p # <<>>
        /\ chan' = [chan EXCEPT ![Head(p).ch] = Append(@, Head(p).msg)]
    BY <1>1, <1>7 DEF Flush, TypeInv, InFlight
  <2>2. \A i \in 1..Len(p) : p[i].ch # "c9"
    BY <1>1, <1>7 DEF Aloof, Modest, Watched
  <2> HIDE DEF p
  <2>3. Head(p) = p[1] /\ 1 \in 1..Len(p)
    BY <2>1, Heads
  <2>4. QED
    BY <1>1, <2>1, <2>2, <2>3
<1>8. QED
  BY <1>3, <1>4, <1>5, <1>6, <1>7 DEF Next

\* The runner's handlers let go of nothing on that channel, and make one creation of a new run
\* at most.
LEMMA RunnerMakes ==
  ASSUME TypeInv, RunnerThread
  PROVE  \/ pend'["runner"] = pend["runner"]
         \/ \A i \in 1..Len(pend'["runner"]) : pend'["runner"][i].ch = "c9" => pend'["runner"][i].msg.kind # "create"
         \/ \E x : /\ pend'["runner"] = To("c9", x)
                   /\ x.run = Len(runs) + 1
<1> DEFINE Harmless(ms) == \A i \in 1..Len(ms) : ms[i].ch = "c9" => ms[i].msg.kind # "create"
           Idles == pend'["runner"] = pend["runner"]
           Made  == \E x : pend'["runner"] = To("c9", x) /\ x.run = Len(runs) + 1
<1>1. "runner" \in Threads /\ DOMAIN pend = Threads
  BY DEF TypeInv, InFlight, Threads
<1>2. ASSUME NEW o, NEW x, Sends("runner", To(o, x)), o # "c9" \/ x.kind # "create"
      PROVE  Harmless(pend'["runner"])
  <2>1. pend'["runner"] = To(o, x) /\ Len(To(o, x)) = 1 /\ To(o, x)[1].ch = o /\ To(o, x)[1].msg = x
    BY <1>1, <1>2 DEF Sends, To
  <2>2. \A i \in 1..Len(To(o, x)) : i = 1
    BY <2>1
  <2>3. QED
    BY <1>2, <2>1, <2>2
<1>3. ASSUME NEW x, Sends("runner", Reply(x)) PROVE Harmless(pend'["runner"])
  BY <1>2, <1>3 DEF Reply
<1>4. ASSUME NEW x, Sends("runner", Reply(x) \o Reply(x)) PROVE Harmless(pend'["runner"])
  <2>1. pend'["runner"] = To("c14", x) \o To("c14", x)
    BY <1>1, <1>4 DEF Sends, Reply
  <2>2. QED
    BY <2>1, Twice
<1>5. UNCHANGED pend => Idles
  OBVIOUS
<1> HIDE DEF Harmless, Idles, Made
<1>6. RunnerGetRun => Idles \/ Harmless(pend'["runner"])
  BY <1>3, <1>5 DEF RunnerGetRun, RunnerPanics, GetReply
<1>7. CASE RunnerCreateRun
  <2>1. \E x : Sends("runner", To("c15", x))
    BY <1>7 DEF RunnerCreateRun
  <2>2. QED
    BY <1>2, <2>1 DEF Harmless
<1>8. CASE RunnerUpdateRun
  <2>1. UNCHANGED pend \/ (\E x : Sends("runner", Reply(x))) \/ \E x : Sends("runner", To("c15", x))
    BY <1>8 DEF RunnerUpdateRun, RunnerPanics
  <2>2. QED
    BY <1>2, <1>3, <1>5, <2>1 DEF Harmless, Idles
<1>9. CASE RunnerDeleteRun
  <2>1. \/ UNCHANGED pend
        \/ \E x : Sends("runner", Reply(x) \o Reply(x))
        \/ \E id, run, worker : Sends("runner", To("c9", Ask(id, "delete", run, worker)))
    BY <1>9 DEF RunnerDeleteRun, RunnerPanics
  <2>2. \A id, run, worker : Ask(id, "delete", run, worker).kind = "delete"
    BY DEF Ask
  <2>3. QED
    BY <1>2, <1>4, <1>5, <2>1, <2>2 DEF Harmless, Idles
<1>10. CASE RunnerDatabaseResponds
  <2>1. \/ UNCHANGED pend
        \/ \E x : Sends("runner", Reply(x))
        \/ \E id, worker : Sends("runner", To("c9", Ask(id, "create", NewRunId, worker)))
    BY <1>10 DEF RunnerDatabaseResponds, Resolve
  <2>2. ASSUME NEW id, NEW worker, Sends("runner", To("c9", Ask(id, "create", NewRunId, worker)))
        PROVE  Made
    <3>1. Ask(id, "create", NewRunId, worker).run = Len(runs) + 1
      BY DEF Ask, NewRunId
    <3>2. pend'["runner"] = To("c9", Ask(id, "create", NewRunId, worker))
      BY <1>1, <2>2 DEF Sends
    <3>3. QED
      BY <3>1, <3>2 DEF Made
  <2>3. QED
    BY <1>3, <1>5, <2>1, <2>2 DEF Harmless, Idles, Made
<1>11. RunnerSocketResponds => Idles \/ Harmless(pend'["runner"])
  BY <1>3, <1>5 DEF RunnerSocketResponds, Resolve
<1>12. QED
  BY <1>6, <1>7, <1>8, <1>9, <1>10, <1>11 DEF RunnerThread, Harmless, Idles, Made

\* Fewer creations in the hands, as many elsewhere.
LEMMA HandsDown ==
  ASSUME NEW p, NEW c, NEW w, Apart(p, c, w), NEW p2, Bound(p2) = {}
  PROVE  Apart(p2, c, w)
BY DEF Apart

\* A message that is no creation, or is bound elsewhere, is let go of.
LEMMA LetGo ==
  ASSUME NEW S, NEW p \in Seq(S), p # <<>>, NEW c, NEW w, Apart(p, c, w)
  PROVE  Apart(Tail(p), c, w)
<1> DEFINE p2 == Tail(p)
<1>1. \A i \in 1..Len(p2) : i + 1 \in 1..Len(p) /\ p2[i] = p[i + 1]
  BY Heads
<1> HIDE DEF p2
<1>2. \A i \in Bound(p2) : i \in Int /\ i + 1 \in Bound(p) /\ p2[i] = p[i + 1]
  BY <1>1 DEF Bound
<1>3. \A i, j \in Bound(p2) : p2[i].msg.run = p2[j].msg.run => i + 1 = j + 1
  BY <1>2 DEF Apart
<1>4. \A i, j \in Bound(p2) : p2[i].msg.run = p2[j].msg.run => i = j
  BY <1>2, <1>3
<1>5. Apart(p2, c, w)
  BY <1>2, <1>4 DEF Apart
<1>6. QED
  BY <1>5 DEF p2

\* The same for the channel to the socket thread.
LEMMA LineShrinks ==
  ASSUME NEW S, NEW c \in Seq(S), c # <<>>, NEW p, NEW w, Apart(p, c, w)
  PROVE  Apart(p, Tail(c), w)
<1> DEFINE c2 == Tail(c)
<1>1. \A i \in 1..Len(c2) : i + 1 \in 1..Len(c) /\ c2[i] = c[i + 1]
  BY Heads
<1> HIDE DEF c2
<1>2. \A i \in Creations(c2) : i \in Int /\ i + 1 \in Creations(c) /\ c2[i] = c[i + 1]
  BY <1>1 DEF Creations
<1>3. \A i, j \in Creations(c2) : c2[i].run = c2[j].run => i + 1 = j + 1
  BY <1>2 DEF Apart
<1>4. \A i, j \in Creations(c2) : c2[i].run = c2[j].run => i = j
  BY <1>2, <1>3
<1>5. Apart(p, c2, w)
  BY <1>2, <1>4 DEF Apart
<1>6. QED
  BY <1>5 DEF c2

\* The head of the hands joins the line.
LEMMA Joins ==
  ASSUME NEW S, NEW p \in Seq(S), p # <<>>, p[1].ch = "c9", NEW Z, NEW c \in Seq(Z), NEW w, Apart(p, c, w)
  PROVE  Apart(Tail(p), Append(c, p[1].msg), w)
<1> DEFINE c2 == Append(c, p[1].msg)
           p2 == Tail(p)
           n  == Len(c) + 1
<1>1. \A i \in 1..Len(c2) : (i \in 1..Len(c) /\ c2[i] = c[i]) \/ (i = n /\ c2[i] = p[1].msg)
  BY Grows
<1>2. \A i \in 1..Len(p2) : i + 1 \in 1..Len(p) /\ i + 1 # 1 /\ p2[i] = p[i + 1]
  BY Heads
<1>3. 1 \in 1..Len(p)
  BY Heads
<1>4. Apart(p2, c, w)
  BY LetGo
<1> HIDE DEF c2, p2, n
<1>5. \A i \in Creations(c2) : \/ i \in Creations(c) /\ c2[i] = c[i]
                               \/ i = n /\ c2[i] = p[1].msg /\ 1 \in Bound(p)
  BY <1>1, <1>3 DEF Creations, Bound
<1>6. \A i \in Bound(p2) : i + 1 \in Bound(p) /\ i + 1 # 1 /\ p2[i] = p[i + 1]
  BY <1>2 DEF Bound
<1>7. \A i \in Bound(p2) : 1 \in Bound(p) => p2[i].msg.run # p[1].msg.run
  BY <1>6 DEF Apart
<1>8. \A i, j \in Creations(c2) : c2[i].run = c2[j].run => i = j
  BY <1>5 DEF Apart
<1>9. \A i \in Bound(p2), j \in Creations(c2) : p2[i].msg.run # c2[j].run
  BY <1>4, <1>5, <1>7 DEF Apart
<1>10. \A i \in Creations(c2), j \in Creations(w) : c2[i].run # w[j].run
  BY <1>5 DEF Apart
<1>11. Apart(p2, c2, w)
  BY <1>4, <1>8, <1>9, <1>10 DEF Apart
<1>12. QED
  BY <1>11 DEF c2, p2

\* The head of the line is written.
LEMMA Leaves ==
  ASSUME NEW Z, NEW c \in Seq(Z), c # <<>>, NEW p, NEW S, NEW w \in Seq(S), Apart(p, c, w),
         NEW z, z.kind = c[1].kind, z.run = c[1].run
  PROVE  Apart(p, Tail(c), Append(w, z))
<1> DEFINE w2 == Append(w, z)
           c2 == Tail(c)
           n  == Len(w) + 1
<1>1. \A i \in 1..Len(w2) : (i \in 1..Len(w) /\ w2[i] = w[i]) \/ (i = n /\ w2[i] = z)
  BY Grows
<1>2. \A i \in 1..Len(c2) : i + 1 \in 1..Len(c) /\ i + 1 # 1 /\ c2[i] = c[i + 1]
  BY Heads
<1>3. 1 \in 1..Len(c)
  BY Heads
<1>4. Apart(p, c2, w)
  BY LineShrinks
<1> HIDE DEF c2, w2, n
<1>5. \A i \in Creations(w2) : \/ i \in Creations(w) /\ w2[i] = w[i]
                               \/ i = n /\ w2[i].run = c[1].run /\ 1 \in Creations(c)
  BY <1>1, <1>3 DEF Creations
<1>6. \A i \in Creations(c2) : i + 1 \in Creations(c) /\ i + 1 # 1 /\ c2[i] = c[i + 1]
  BY <1>2 DEF Creations
<1>7. \A i \in Creations(c2) : 1 \in Creations(c) => c2[i].run # c[1].run
  BY <1>6 DEF Apart
<1>8. \A i, j \in Creations(w2) : w2[i].run = w2[j].run => i = j
  BY <1>5 DEF Apart
<1>9. \A i \in Creations(c2), j \in Creations(w2) : c2[i].run # w2[j].run
  BY <1>4, <1>5, <1>7 DEF Apart
<1>10. \A i \in Bound(p), j \in Creations(w2) : p[i].msg.run # w2[j].run
  BY <1>5 DEF Apart
<1>11. Apart(p, c2, w2)
  BY <1>4, <1>8, <1>9, <1>10 DEF Apart
<1>12. QED
  BY <1>11 DEF c2, w2

\* The creation of a run that is nowhere yet comes to hand.
LEMMA ComesToHand ==
  ASSUME NEW p, NEW c, NEW w, Apart(p, c, w), NEW x,
         \A j \in Creations(c) : c[j].run # x.run, \A j \in Creations(w) : w[j].run # x.run
  PROVE  Apart(To("c9", x), c, w)
<1> DEFINE p2 == To("c9", x)
<1>1. \A i \in Bound(p2) : i = 1 /\ p2[i].msg = x
  BY DEF Bound, To
<1> HIDE DEF p2
<1>2. QED
  BY <1>1 DEF Apart, p2

\* The socket thread writes the head of its channel to a connection, or fails to.
LEMMA Writes ==
  ASSUME OutInv, SocketServesRunner
  PROVE  /\ Apart(pend'["runner"], chan'["c9"], wire')
         /\ \A i \in Creations(wire') :
              \/ i \in Gone /\ wire'[i] = wire[i]
              \/ wire'[i].run \in 1..Len(runs) /\ wire'[i].worker = runs[wire'[i].run].worker
<1> DEFINE c == chan["c9"]
           m == Head(c)
           z == [kind |-> m.kind, run |-> m.run, worker |-> m.worker]
<1>1. /\ TypeInv /\ Single /\ TrailInv /\ "c9" \in Chans /\ "runner" \in Threads /\ "socket" \in Threads
      /\ DOMAIN chan = Chans /\ DOMAIN pend = Threads
  BY DEF OutInv, TrailInv, TypeInv, InFlight, Threads, Chans, OutChans
<1>2. /\ c # <<>> /\ chan'["c9"] = Tail(c) /\ (wire' = wire \/ wire' = Append(wire, z))
      /\ pend'["runner"] = pend["runner"]
  BY <1>1 DEF SocketServesRunner, Takes, Sends
<1>3. c \in Seq(MsgOf(Len(req))) /\ wire \in Seq(Letter)
  BY <1>1 DEF TypeInv, InFlight, Recorded
<1>4. z.kind = m.kind /\ z.run = m.run /\ z.worker = m.worker
  OBVIOUS
<1>5. Apart(pend["runner"], c, wire)
  BY <1>1 DEF Single
<1>6. \A i \in Creations(c) : c[i].run \in 1..Len(runs) /\ c[i].worker = runs[c[i].run].worker
  BY <1>1, PlacesRecorded DEF Line
<1> HIDE DEF c, z
<1>7. m = c[1] /\ 1 \in 1..Len(c)
  BY <1>2, <1>3, Heads
<1>8. Apart(pend["runner"], Tail(c), wire) /\ Apart(pend["runner"], Tail(c), Append(wire, z))
  BY <1>2, <1>3, <1>4, <1>5, <1>7, LineShrinks, Leaves
<1>9. ASSUME NEW i \in Creations(Append(wire, z))
      PROVE  \/ i \in Gone /\ Append(wire, z)[i] = wire[i]
             \/ /\ Append(wire, z)[i].run \in 1..Len(runs)
                /\ Append(wire, z)[i].worker = runs[Append(wire, z)[i].run].worker
  <2>1. (i \in 1..Len(wire) /\ Append(wire, z)[i] = wire[i]) \/ Append(wire, z)[i] = z
    BY <1>3, Grows DEF Creations
  <2>2. z.kind = "create" => 1 \in Creations(c)
    BY <1>4, <1>7 DEF Creations
  <2>3. Append(wire, z)[i].kind = "create"
    BY DEF Creations
  <2>4. QED
    BY <1>4, <1>6, <1>7, <2>1, <2>2, <2>3 DEF Creations, Gone
<1>10. QED
  BY <1>2, <1>8, <1>9 DEF Gone

\* The runner lets go of its first message.
LEMMA RunnerLetsGo ==
  ASSUME OutInv, Flush("runner")
  PROVE  Apart(pend'["runner"], chan'["c9"], wire')
<1> DEFINE p == pend["runner"]
<1>1. /\ TypeInv /\ Single /\ "c9" \in Chans /\ "runner" \in Threads
      /\ DOMAIN chan = Chans /\ DOMAIN pend = Threads
  BY DEF OutInv, TrailInv, TypeInv, InFlight, Threads, Chans, OutChans
<1>2. /\ p # <<>> /\ pend'["runner"] = Tail(p) /\ wire' = wire
      /\ chan'["c9"] = IF Head(p).ch = "c9" THEN Append(chan["c9"], Head(p).msg) ELSE chan["c9"]
  BY <1>1 DEF Flush, outerVars
<1>3. /\ p \in Seq(SendOf(Len(req))) /\ chan["c9"] \in Seq(MsgOf(Len(req)))
      /\ Apart(p, chan["c9"], wire)
  BY <1>1 DEF TypeInv, InFlight, Single
<1> HIDE DEF p
<1>4. Head(p) = p[1]
  BY <1>2, <1>3, Heads
<1>5. CASE p[1].ch = "c9"
  BY <1>2, <1>3, <1>4, <1>5, Joins
<1>6. CASE p[1].ch # "c9"
  BY <1>2, <1>3, <1>4, <1>6, LetGo
<1>7. QED
  BY <1>5, <1>6

\* A handler of the runner makes a creation of a run that was not recorded before.
LEMMA RunnerHands ==
  ASSUME OutInv, RunnerThread, wire' = wire, chan'["c9"] = chan["c9"]
  PROVE  Apart(pend'["runner"], chan'["c9"], wire')
<1>1. TypeInv /\ TrailInv /\ Apart(pend["runner"], chan["c9"], wire)
  BY DEF OutInv, TrailInv, Single
<1>2. CASE pend'["runner"] = pend["runner"]
  BY <1>1, <1>2
<1>3. CASE \A i \in 1..Len(pend'["runner"]) : pend'["runner"][i].ch = "c9" => pend'["runner"][i].msg.kind # "create"
  <2>1. Bound(pend'["runner"]) = {}
    BY <1>3 DEF Bound
  <2>2. QED
    BY <1>1, <2>1, HandsDown
<1>4. ASSUME NEW x, pend'["runner"] = To("c9", x), x.run = Len(runs) + 1
      PROVE  Apart(pend'["runner"], chan'["c9"], wire')
  <2>1. Len(runs) \in Nat
    BY <1>1 DEF TypeInv, Recorded
  <2>2. \A r \in 1..Len(runs) : r # x.run
    BY <1>4, <2>1
  <2>3. /\ \A j \in Creations(chan["c9"]) : chan["c9"][j].run # x.run
        /\ \A j \in Creations(wire) : wire[j].run # x.run
    BY <1>1, <2>2, PlacesRecorded DEF OutInv, Written, Line, Gone
  <2>4. QED
    BY <1>1, <1>4, <2>3, ComesToHand
<1>5. QED
  BY <1>1, <1>2, <1>3, <1>4, RunnerMakes

LEMMA StepOut == OutInv /\ [Next]_vars => OutInv'
<1> SUFFICES ASSUME OutInv, [Next]_vars PROVE TrailInv' /\ Modest' /\ Single' /\ Written'
  BY DEF OutInv
<1>1. TypeInv /\ TrailInv /\ TrailInv' /\ TypeInv'
  BY StepTrail DEF OutInv, TrailInv
<1>2. Modest'
  BY <1>1, ModestStays DEF OutInv
<1>3. UNCHANGED wire \/ SocketServesRunner
  BY WireChange DEF vars
<1>4. Single'
  <2>1. Apart(pend'["runner"], chan'["c9"], wire')
    <3>1. CASE SocketServesRunner
      BY <3>1, Writes
    <3>2. CASE Flush("runner")
      BY <3>2, RunnerLetsGo
    <3>3. CASE ~SocketServesRunner /\ ~Flush("runner")
      <4>1. wire' = wire /\ chan'["c9"] = chan["c9"]
        BY <1>3, <3>3, LineChanges
      <4>2. CASE RunnerThread
        BY <4>1, <4>2, RunnerHands
      <4>3. CASE pend'["runner"] = pend["runner"]
        BY <4>1, <4>3 DEF OutInv, Single
      <4>4. QED
        BY <1>1, <3>3, <4>2, <4>3, HandsChange
    <3>4. QED
      BY <3>1, <3>2, <3>3
  <2>2. QED
    BY <2>1 DEF Single
<1>5. Written'
  <2>1. \A r \in 1..Len(runs) : r \in 1..Len(runs') /\ runs'[r].worker = runs[r].worker
    BY <1>1, RecordsStay
  <2>2. \A i \in Creations(wire') :
          \/ i \in Gone /\ wire'[i] = wire[i]
          \/ wire'[i].run \in 1..Len(runs) /\ wire'[i].worker = runs[wire'[i].run].worker
    <3>1. CASE SocketServesRunner
      BY <3>1, Writes
    <3>2. CASE wire' = wire
      BY <3>2 DEF Gone
    <3>3. QED
      BY <1>3, <3>1, <3>2
  <2>3. \A i \in Gone : wire[i].run \in 1..Len(runs) /\ wire[i].worker = runs[wire[i].run].worker
    BY DEF OutInv, Written
  <2>4. \A i \in Creations(wire') : wire'[i].run \in 1..Len(runs') /\ wire'[i].worker = runs'[wire'[i].run].worker
    BY <2>1, <2>2, <2>3
  <2>5. QED
    BY <2>4 DEF Written, Gone
<1>6. QED
  BY <1>1, <1>2, <1>4, <1>5

LEMMA InitOut == Init => OutInv
<1> SUFFICES ASSUME Init PROVE OutInv
  OBVIOUS
<1>1. /\ wire = <<>> /\ chan["c9"] = <<>> /\ \A t \in Threads : pend[t] = <<>>
  BY DEF Init, OutChans
<1>2. {"runner", "database", "socket"} \subseteq Threads /\ \A i : i \notin 1..Len(<<>>)
  BY DEF Threads
<1>3. Modest
  BY <1>1, <1>2 DEF Modest
<1>4. Bound(pend["runner"]) = {} /\ Creations(chan["c9"]) = {} /\ Creations(wire) = {}
  BY <1>1, <1>2 DEF Bound, Creations
<1>5. Single /\ Written
  BY <1>4 DEF Single, Apart, Written, Gone
<1>6. QED
  BY <1>3, <1>5, InitTrail DEF OutInv

\* A run is written to one connection, once, and to that of the worker its record names.
THEOREM DispatchedOnce == Spec => []DispatchedOnceAsRecorded
<1>1. Spec => []OutInv
  BY InitOut, StepOut, PTL DEF Spec
<1>2. OutInv => DispatchedOnceAsRecorded
  BY DEF OutInv, Single, Apart, Written, Gone, Creations, DispatchedOnceAsRecorded
<1>3. QED
  BY <1>1, <1>2, PTL
-----------------------------------------------------------------------------
(* A run gets one statistic record.  A worker says once that a run has ended: that word is  *)
(* in one place only on its way from the worker to the statistic database.                  *)

\* What says nothing of a run's end.
Mute == -1
Silent(s) == \A i \in 1..Len(s) : s[i] = Mute

\* Of the runs named in the sequences q, none is named in two places, and all are in E.
Traced(q, E) ==
  /\ \A f, g \in DOMAIN q : \A i \in 1..Len(q[f]), j \in 1..Len(q[g]) :
       q[f][i] = q[g][j] /\ q[f][i] # Mute => f = g /\ i = j
  /\ \A f \in DOMAIN q : \A i \in 1..Len(q[f]) : q[f][i] \in E \cup {Mute}

\* The head of one sequence is dropped.
LEMMA TraceDropped ==
  ASSUME NEW q, NEW r, DOMAIN r = DOMAIN q, NEW E, Traced(q, E),
         NEW f \in DOMAIN q, q[f] \in Seq(Int), q[f] # <<>>, r[f] = Tail(q[f]),
         \A d \in DOMAIN q \ {f} : r[d] = q[d] \/ Silent(r[d])
  PROVE  Traced(r, E)
<1>t. /\ \A d, e \in DOMAIN q : \A i \in 1..Len(q[d]), j \in 1..Len(q[e]) :
           q[d][i] = q[e][j] /\ q[d][i] # Mute => d = e /\ i = j
      /\ \A d \in DOMAIN q : \A i \in 1..Len(q[d]) : q[d][i] \in E \cup {Mute}
  BY DEF Traced
<1>1. \A d \in DOMAIN q : \A i \in 1..Len(r[d]) : r[d][i] # Mute =>
        \/ d = f /\ i \in Int /\ i + 1 \in 1..Len(q[f]) /\ r[d][i] = q[f][i + 1]
        \/ d # f /\ i \in 1..Len(q[d]) /\ r[d][i] = q[d][i]
  <2> SUFFICES ASSUME NEW d \in DOMAIN q, NEW i \in 1..Len(r[d]), r[d][i] # Mute
               PROVE  \/ d = f /\ i \in Int /\ i + 1 \in 1..Len(q[f]) /\ r[d][i] = q[f][i + 1]
                      \/ d # f /\ i \in 1..Len(q[d]) /\ r[d][i] = q[d][i]
    OBVIOUS
  <2>1. CASE d = f
    <3>1. q[f] \in Seq(Int)
      OBVIOUS
    <3>2. i + 1 \in 1..Len(q[f]) /\ Tail(q[f])[i] = q[f][i + 1]
      BY <2>1, <3>1, Heads, SMTT(30)
    <3>3. r[d] = Tail(q[f])
      BY ONLY <2>1, r[f] = Tail(q[f])
    <3>4. i \in Int
      BY ONLY i \in 1..Len(r[d])
    <3> QED
      BY ONLY <2>1, <3>2, <3>3, <3>4
  <2>2. CASE d # f
    BY <2>2 DEF Silent
  <2> QED
    BY <2>1, <2>2
<1>2. ASSUME NEW d \in DOMAIN q, NEW g \in DOMAIN q, NEW i \in 1..Len(r[d]), NEW j \in 1..Len(r[g]),
             r[d][i] = r[g][j], r[d][i] # Mute
      PROVE  d = g /\ i = j
  <2>1. CASE d = f /\ g = f
    <3>1. i + 1 = j + 1 /\ i \in Int /\ j \in Int
      BY ONLY <1>t, <1>1, <1>2, <2>1, SMTT(30),
       d \in DOMAIN q, g \in DOMAIN q, f \in DOMAIN q, i \in 1..Len(r[d]), j \in 1..Len(r[g])
    <3> QED
      BY <2>1, <3>1
  <2>2. CASE d # f /\ g # f
    BY ONLY <1>t, <1>1, <1>2, <2>2, SMTT(30),
       d \in DOMAIN q, g \in DOMAIN q, f \in DOMAIN q, i \in 1..Len(r[d]), j \in 1..Len(r[g])
  <2>3. CASE d = f /\ g # f
    BY ONLY <1>t, <1>1, <1>2, <2>3, SMTT(30),
       d \in DOMAIN q, g \in DOMAIN q, f \in DOMAIN q, i \in 1..Len(r[d]), j \in 1..Len(r[g])
  <2>4. CASE d # f /\ g = f
    BY ONLY <1>t, <1>1, <1>2, <2>4, SMTT(30),
       d \in DOMAIN q, g \in DOMAIN q, f \in DOMAIN q, i \in 1..Len(r[d]), j \in 1..Len(r[g])
  <2> QED
    BY <2>1, <2>2, <2>3, <2>4
<1>3. \A d \in DOMAIN q : \A i \in 1..Len(r[d]) : r[d][i] \in E \cup {Mute}
  BY ONLY <1>t, <1>1, DOMAIN r = DOMAIN q, f \in DOMAIN q
<1> QED
  BY ONLY <1>2, <1>3, DOMAIN r = DOMAIN q DEF Traced

\* The head of one sequence goes to the end of another.
LEMMA TraceMoved ==
  ASSUME NEW q, NEW r, DOMAIN r = DOMAIN q, NEW E, Traced(q, E),
         NEW f \in DOMAIN q, q[f] \in Seq(Int), q[f] # <<>>, r[f] = Tail(q[f]),
         NEW g \in DOMAIN q, g # f, q[g] \in Seq(Int), r[g] = Append(q[g], q[f][1]),
         \A d \in DOMAIN q \ {f, g} : r[d] = q[d] \/ Silent(r[d])
  PROVE  Traced(r, E)
<1>t. /\ \A d, e \in DOMAIN q : \A i \in 1..Len(q[d]), j \in 1..Len(q[e]) :
           q[d][i] = q[e][j] /\ q[d][i] # Mute => d = e /\ i = j
      /\ \A d \in DOMAIN q : \A i \in 1..Len(q[d]) : q[d][i] \in E \cup {Mute}
  BY DEF Traced
<1> DEFINE n == Len(q[g]) + 1
           From(d, i) == \/ d = f /\ i \in Int /\ i + 1 \in 1..Len(q[f]) /\ i + 1 # 1 /\ r[d][i] = q[f][i + 1]
                         \/ d = g /\ i = n /\ r[d][i] = q[f][1]
                         \/ d # f /\ i \in 1..Len(q[d]) /\ r[d][i] = q[d][i]
<1>0. 1 \in 1..Len(q[f]) /\ q[f] \in Seq(Int) /\ q[g] \in Seq(Int)
  OBVIOUS
<1>1. ASSUME NEW d \in DOMAIN q, NEW i \in 1..Len(r[d]), r[d][i] # Mute PROVE From(d, i)
  <2>1. CASE d = f
    <3>1. i + 1 \in 1..Len(q[f]) /\ i + 1 # 1 /\ Tail(q[f])[i] = q[f][i + 1]
      BY <1>0, <2>1, Heads
    <3> QED
      BY <2>1, <3>1
  <2>2. CASE d = g
    <3>1. \/ i \in 1..Len(q[g]) /\ Append(q[g], q[f][1])[i] = q[g][i]
          \/ i = Len(q[g]) + 1 /\ Append(q[g], q[f][1])[i] = q[f][1]
      BY <1>0, <2>2, Grows
    <3> QED
      BY <2>2, <3>1
  <2>3. CASE d \notin {f, g}
    BY <1>1, <2>3 DEF Silent
  <2> QED
    BY <2>1, <2>2, <2>3
<1> HIDE DEF n
<1>2. ASSUME NEW d \in DOMAIN q, NEW e \in DOMAIN q, NEW i \in 1..Len(r[d]), NEW j \in 1..Len(r[e]),
             r[d][i] = r[e][j], r[d][i] # Mute
      PROVE  d = e /\ i = j
  <2>1. From(d, i) /\ From(e, j)
    BY <1>1, <1>2
  <2>2. CASE d = f /\ e = f
    <3>1. i + 1 = j + 1 /\ i \in Int /\ j \in Int
      BY ONLY <1>t, <1>2, <2>1, <2>2,
         d \in DOMAIN q, e \in DOMAIN q, f \in DOMAIN q, i \in 1..Len(r[d]), j \in 1..Len(r[e])
    <3> QED
      BY <2>2, <3>1
  <2>3. CASE d = f /\ e # f
    BY ONLY <1>t, <1>0, <1>2, <2>1, <2>3,
       d \in DOMAIN q, e \in DOMAIN q, f \in DOMAIN q, g \in DOMAIN q, i \in 1..Len(r[d]), j \in 1..Len(r[e])
  <2>4. CASE d # f /\ e = f
    BY ONLY <1>t, <1>0, <1>2, <2>1, <2>4,
       d \in DOMAIN q, e \in DOMAIN q, f \in DOMAIN q, g \in DOMAIN q, i \in 1..Len(r[d]), j \in 1..Len(r[e])
  <2>5. CASE d # f /\ e # f
    BY ONLY <1>t, <1>0, <1>2, <2>1, <2>5,
       d \in DOMAIN q, e \in DOMAIN q, f \in DOMAIN q, g \in DOMAIN q, i \in 1..Len(r[d]), j \in 1..Len(r[e])
  <2> QED
    BY <2>2, <2>3, <2>4, <2>5
<1>3. ASSUME NEW d \in DOMAIN q, NEW i \in 1..Len(r[d]) PROVE r[d][i] \in E \cup {Mute}
  <2>1. CASE r[d][i] = Mute
    BY <2>1
  <2>2. CASE r[d][i] # Mute
    <3>1. From(d, i)
      BY <1>1, <2>2
    <3> QED
      BY ONLY <1>t, <1>0, <3>1, f \in DOMAIN q, g \in DOMAIN q, d \in DOMAIN q
  <2> QED
    BY <2>1, <2>2
<1> QED
  BY ONLY <1>2, <1>3, DOMAIN r = DOMAIN q DEF Traced

\* A word of a run not in E, or none at all, joins a sequence.
LEMMA TraceBegun ==
  ASSUME NEW q, NEW r, DOMAIN r = DOMAIN q, NEW E, Traced(q, E),
         NEW g \in DOMAIN q, q[g] \in Seq(Int), NEW x, x = Mute \/ x \notin E, r[g] = Append(q[g], x),
         \A d \in DOMAIN q \ {g} : r[d] = q[d]
  PROVE  Traced(r, E \cup {x})
<1>t. /\ \A d, e \in DOMAIN q : \A i \in 1..Len(q[d]), j \in 1..Len(q[e]) :
           q[d][i] = q[e][j] /\ q[d][i] # Mute => d = e /\ i = j
      /\ \A d \in DOMAIN q : \A i \in 1..Len(q[d]) : q[d][i] \in E \cup {Mute}
  BY DEF Traced
<1> DEFINE n == Len(q[g]) + 1
           From(d, i) == \/ d = g /\ i = n /\ r[d][i] = x
                         \/ i \in 1..Len(q[d]) /\ r[d][i] = q[d][i]
<1>0. q[g] \in Seq(Int)
  OBVIOUS
<1>1. ASSUME NEW d \in DOMAIN q, NEW i \in 1..Len(r[d]) PROVE From(d, i)
  <2>1. CASE d = g
    <3>1. \/ i \in 1..Len(q[g]) /\ Append(q[g], x)[i] = q[g][i]
          \/ i = Len(q[g]) + 1 /\ Append(q[g], x)[i] = x
      BY <1>0, <2>1, Grows
    <3> QED
      BY <2>1, <3>1
  <2>2. CASE d # g
    BY <1>1, <2>2
  <2> QED
    BY <2>1, <2>2
<1> HIDE DEF n
<1>2. ASSUME NEW d \in DOMAIN q, NEW e \in DOMAIN q, NEW i \in 1..Len(r[d]), NEW j \in 1..Len(r[e]),
             r[d][i] = r[e][j], r[d][i] # Mute
      PROVE  d = e /\ i = j
  <2>1. From(d, i) /\ From(e, j)
    BY <1>1, <1>2
  <2> QED
    BY ONLY <1>t, <1>2, <2>1, x = Mute \/ x \notin E,
       d \in DOMAIN q, e \in DOMAIN q, g \in DOMAIN q, i \in 1..Len(r[d]), j \in 1..Len(r[e])
<1>3. ASSUME NEW d \in DOMAIN q, NEW i \in 1..Len(r[d]) PROVE r[d][i] \in E \cup {x} \cup {Mute}
  BY <1>t, <1>1
<1> QED
  BY ONLY <1>2, <1>3, DOMAIN r = DOMAIN q DEF Traced

\* More may have begun than is told of.
LEMMA TraceWidens ==
  ASSUME NEW q, NEW E, NEW F, Traced(q, E), E \subseteq F \cup {Mute}
  PROVE  Traced(q, F)
BY DEF Traced

\* A request says how a run ended.
Final(R, id) == R[id].act = "Update" /\ EndsRun(R[id])

\* The run whose end message m on channel c is about.
EndWord(R, c, m) ==
  IF c = "c15" THEN IF m.kind = "statistic" THEN m.run ELSE Mute
  ELSE IF c \in InChans \cup {"c13"} THEN IF Final(R, m.id) THEN R[m.id].run ELSE Mute
  ELSE Mute

\* The creation that message m on channel c carries on.
NewWord(R, c, m) ==
  IF c \in {"c11", "c12"} THEN m.id
  ELSE IF c \in {"c15", "c16"} THEN IF m.kind = "statistic" THEN Mute ELSE m.id
  ELSE IF c \in InChans \cup {"c13"} THEN IF R[m.id].act = "Create" THEN m.id ELSE Mute
  ELSE Mute

\* Two things are followed on their way: the word that a run has ended, and its creation.
Matters == {"end", "create"}
Word(k, R, c, m) == IF k = "end" THEN EndWord(R, c, m) ELSE NewWord(R, c, m)

\* The words on a channel, and in somebody's hands.
Heard(k, R, c, q) == [i \in 1..Len(q) |-> Word(k, R, c, q[i])]
Meant(k, R, p)    == [i \in 1..Len(p) |-> Word(k, R, p[i].ch, p[i].msg)]

\* What is told on each channel, in the hands of each thread, and by what is kept.
Stages == Chans \cup Threads \cup {"kept"}
Track(k, R, C, P, S) ==
  [g \in Stages |->
     IF g \in Chans THEN Heard(k, R, g, C[g])
     ELSE IF g \in Threads THEN Meant(k, R, P[g])
     ELSE S]

\* The way ends in the statistics, or in the records of the runs that have a worker; it
\* begins with a report, or with a request.
Kept(k)  == IF k = "end" THEN stats
            ELSE [r \in 1..Len(runs) |-> IF runs[r].worker \in Workers THEN runs[r].for ELSE Mute]
Begun(k) == IF k = "end" THEN ended ELSE {id \in 1..Len(req) : req[id].act = "Create"}

\* What is told before a step and after it.
Told(k)     == Track(k, req, chan, pend, Kept(k))
Followed(k) == Traced(Told(k), Begun(k))

LEMMA StageNames ==
  /\ Chans \cap Threads = {} /\ "kept" \notin Chans \cup Threads
  /\ Chans \subseteq Stages /\ Threads \subseteq Stages /\ "kept" \in Stages
  /\ OutChans \subseteq Chans /\ InChans \subseteq Chans
  /\ "c13" \in Chans /\ "c15" \in Chans
BY DEF Chans, Threads, InChans, OutChans, Stages

LEMMA TrackAt ==
  ASSUME NEW k, NEW R, NEW C, NEW P, NEW S, NEW q, q = Track(k, R, C, P, S)
  PROVE  /\ DOMAIN q = Stages
         /\ \A g \in Chans : q[g] = Heard(k, R, g, C[g])
         /\ \A t \in Threads : q[t] = Meant(k, R, P[t])
         /\ q["kept"] = S
<1>1. \A g \in Stages : q[g] =
        IF g \in Chans THEN Heard(k, R, g, C[g])
        ELSE IF g \in Threads THEN Meant(k, R, P[g])
        ELSE S
  BY DEF Track
<1>2. \A t \in Threads : t \in Stages /\ t \notin Chans
  BY StageNames
<1>3. \A g \in Chans : g \in Stages
  BY StageNames
<1>4. "kept" \in Stages /\ "kept" \notin Chans /\ "kept" \notin Threads
  BY StageNames
<1>5. DOMAIN q = Stages
  BY DEF Track
<1> QED
  BY <1>1, <1>2, <1>3, <1>4, <1>5, Zenon

\* A sequence of integers is made place by place.
LEMMA MadeOf ==
  ASSUME NEW n \in Nat, NEW s, s = [i \in 1..n |-> s[i]], \A i \in 1..n : s[i] \in Int
  PROVE  s \in Seq(Int) /\ Len(s) = n
<1>1. s \in [1..n -> Int]
  OBVIOUS
<1> QED
  BY <1>1, SeqDef, LenProperties

\* Nothing but runs, requests and silence is told.
LEMMA WordTyped ==
  ASSUME TypeInv, NEW k, NEW c, NEW m \in MsgOf(Len(req))
  PROVE  Word(k, req, c, m) \in Int
<1>1. m.id \in 1..Len(req) /\ m.run \in Nat
  BY DEF MsgOf
<1>2. req[m.id].run \in Nat
  BY <1>1, RequestTyped DEF Request
<1>3. m.id \in Int /\ Mute \in Int
  BY <1>1 DEF Mute
<1> QED
  BY <1>1, <1>2, <1>3 DEF Word, EndWord, NewWord

\* What is kept of runs and their ends.
LEMMA KeptTyped ==
  ASSUME TypeInv, NEW k
  PROVE  Kept(k) \in Seq(Int)
<1>1. stats \in Seq(Nat) /\ runs \in Seq(Run) /\ Len(runs) \in Nat
  BY DEF TypeInv, Recorded
<1>2. CASE k = "end"
  BY <1>1, <1>2 DEF Kept
<1>3. CASE k # "end"
  <2> DEFINE s == [r \in 1..Len(runs) |-> IF runs[r].worker \in Workers THEN runs[r].for ELSE Mute]
  <2>1. \A r \in 1..Len(runs) : runs[r].for \in Int
    <3> TAKE r \in 1..Len(runs)
    <3>1. runs[r] \in Run
      BY <1>1, ElementOfSeq
    <3> QED
      BY <3>1 DEF Run, Ids
  <2>2. s = [r \in 1..Len(runs) |-> s[r]] /\ \A r \in 1..Len(runs) : s[r] \in Int
    BY <2>1 DEF Mute
  <2>3. Kept(k) = s
    BY <1>3 DEF Kept
  <2> HIDE DEF s
  <2> QED
    BY <1>1, <2>2, <2>3, MadeOf
<1> QED
  BY <1>2, <1>3

LEMMA TrackTyped ==
  ASSUME TypeInv, NEW k
  PROVE  /\ Told(k) \in [Stages -> Seq(Int)]
         /\ \A g \in Chans : Len(Told(k)[g]) = Len(chan[g])
         /\ \A t \in Threads : Len(Told(k)[t]) = Len(pend[t])
<1> DEFINE q == Told(k)
<1>0. q = Track(k, req, chan, pend, Kept(k))
  BY DEF Told
<1>1. ASSUME NEW g \in Chans PROVE q[g] \in Seq(Int) /\ Len(q[g]) = Len(chan[g])
  <2>1. chan[g] \in Seq(MsgOf(Len(req))) /\ Len(chan[g]) \in Nat
    BY DEF TypeInv, InFlight
  <2>2. q[g] = [i \in 1..Len(chan[g]) |-> Word(k, req, g, chan[g][i])]
    BY <1>0, TrackAt DEF Heard
  <2>3. \A i \in 1..Len(chan[g]) : Word(k, req, g, chan[g][i]) \in Int
    BY <2>1, WordTyped, ElementOfSeq
  <2> HIDE DEF q
  <2> QED
    BY <2>1, <2>2, <2>3, MadeOf
<1>2. ASSUME NEW t \in Threads PROVE q[t] \in Seq(Int) /\ Len(q[t]) = Len(pend[t])
  <2>1. pend[t] \in Seq(SendOf(Len(req))) /\ Len(pend[t]) \in Nat
    BY DEF TypeInv, InFlight
  <2>2. q[t] = [i \in 1..Len(pend[t]) |-> Word(k, req, pend[t][i].ch, pend[t][i].msg)]
    BY <1>0, TrackAt DEF Meant
  <2>3. \A i \in 1..Len(pend[t]) : Word(k, req, pend[t][i].ch, pend[t][i].msg) \in Int
    <3> TAKE i \in 1..Len(pend[t])
    <3>1. pend[t][i] \in SendOf(Len(req))
      BY <2>1, ElementOfSeq
    <3>2. pend[t][i].msg \in MsgOf(Len(req))
      BY <3>1 DEF SendOf
    <3> QED
      BY <3>2, WordTyped
  <2> HIDE DEF q
  <2> QED
    BY <2>1, <2>2, <2>3, MadeOf
<1>3. q["kept"] \in Seq(Int)
  <2>1. q["kept"] = Kept(k)
    BY <1>0, TrackAt
  <2> QED
    BY <2>1, KeptTyped
<1>4. q = [g \in Stages |-> q[g]]
  BY <1>0 DEF Track
<1>5. \A g \in Stages : q[g] \in Seq(Int)
  BY <1>1, <1>2, <1>3 DEF Stages
<1> HIDE DEF q
<1>6. q \in [Stages -> Seq(Int)]
  BY <1>4, <1>5
<1> QED
  BY <1>1, <1>2, <1>6 DEF q

\* Two sequences told apart by no place are the same.
LEMMA TailIs ==
  ASSUME NEW u \in Seq(Int), u # <<>>, NEW v \in Seq(Int), Len(v) = Len(u) - 1,
         \A i \in 1..Len(v) : v[i] = u[i + 1]
  PROVE  v = Tail(u)
<1>1. Tail(u) \in Seq(Int) /\ Len(Tail(u)) = Len(u) - 1 /\ \A i \in 1..Len(Tail(u)) : Tail(u)[i] = u[i + 1]
  OBVIOUS
<1> QED
  BY <1>1, SeqEqual

LEMMA AppendIs ==
  ASSUME NEW u \in Seq(Int), NEW x \in Int, NEW v \in Seq(Int), Len(v) = Len(u) + 1,
         \A i \in 1..Len(u) : v[i] = u[i], v[Len(u) + 1] = x
  PROVE  v = Append(u, x)
<1>1. /\ Append(u, x) \in Seq(Int) /\ Len(Append(u, x)) = Len(u) + 1
      /\ \A i \in 1..Len(u) : Append(u, x)[i] = u[i]
      /\ Append(u, x)[Len(u) + 1] = x
  OBVIOUS
<1>2. \A i \in 1..Len(v) : i \in 1..Len(u) \/ i = Len(u) + 1
  OBVIOUS
<1>3. \A i \in 1..Len(v) : v[i] = Append(u, x)[i]
  BY <1>1, <1>2
<1> QED
  BY <1>1, <1>3, SeqEqual

ToldTyped ==
  \A k \in Matters :
    /\ Told(k) \in [Stages -> Seq(Int)]
    /\ \A g \in Chans : Len(Told(k)[g]) = Len(chan[g])
    /\ \A t \in Threads : Len(Told(k)[t]) = Len(pend[t])

LEMMA ToldIsTyped == TypeInv => ToldTyped
BY TrackTyped DEF ToldTyped

LEMMA ToldAt ==
  ASSUME TypeInv, TypeInv', NEW k \in Matters
  PROVE  /\ Told(k) \in [Stages -> Seq(Int)] /\ Told(k)' \in [Stages -> Seq(Int)]
         /\ \A g \in Chans : /\ Told(k)[g] = Heard(k, req, g, chan[g])
                             /\ Told(k)'[g] = Heard(k, req', g, chan'[g])
                             /\ Len(Told(k)[g]) = Len(chan[g]) /\ Len(Told(k)'[g]) = Len(chan'[g])
         /\ \A t \in Threads :
              /\ Told(k)[t] = Meant(k, req, pend[t])
              /\ Told(k)'[t] = Meant(k, req', pend'[t])
              /\ Len(Told(k)[t]) = Len(pend[t]) /\ Len(Told(k)'[t]) = Len(pend'[t])
         /\ Told(k)["kept"] = Kept(k) /\ Told(k)'["kept"] = Kept(k)'
<1>1. TypeInv' => ToldTyped'
  BY ToldIsTyped, PTL
<1>2. /\ Told(k) = Track(k, req, chan, pend, Kept(k))
      /\ Told(k)' = Track(k, req', chan', pend', Kept(k)')
  BY DEF Told
<1>3. /\ \A g \in Chans : Told(k)[g] = Heard(k, req, g, chan[g])
      /\ \A t \in Threads : Told(k)[t] = Meant(k, req, pend[t])
      /\ Told(k)["kept"] = Kept(k)
  BY <1>2, TrackAt
<1>4. /\ \A g \in Chans : Told(k)'[g] = Heard(k, req', g, chan'[g])
      /\ \A t \in Threads : Told(k)'[t] = Meant(k, req', pend'[t])
      /\ Told(k)'["kept"] = Kept(k)'
  BY <1>2, TrackAt
<1>5. ToldTyped /\ ToldTyped'
  BY <1>1, ToldIsTyped
<1> QED
  BY <1>3, <1>4, <1>5, Zenon DEF ToldTyped

\* A channel that is left alone, or loses its head.
LEMMA ChannelTold ==
  ASSUME TypeInv, TypeInv', UNCHANGED req, NEW k \in Matters, NEW c \in Chans
  PROVE  /\ chan'[c] = chan[c] => Told(k)'[c] = Told(k)[c]
         /\ chan[c] # <<>> => /\ Told(k)[c] # <<>> /\ Told(k)[c][1] = Word(k, req, c, Head(chan[c]))
                              /\ chan'[c] = Tail(chan[c]) => Told(k)'[c] = Tail(Told(k)[c])
<1>1. /\ Told(k)[c] = [i \in 1..Len(chan[c]) |-> Word(k, req, c, chan[c][i])]
      /\ Told(k)'[c] = [i \in 1..Len(chan'[c]) |-> Word(k, req, c, chan'[c][i])]
      /\ Len(Told(k)[c]) = Len(chan[c]) /\ Len(Told(k)'[c]) = Len(chan'[c])
      /\ Told(k)[c] \in Seq(Int) /\ Told(k)'[c] \in Seq(Int)
  <2>1. /\ Told(k)[c] = Heard(k, req, c, chan[c]) /\ Told(k)'[c] = Heard(k, req, c, chan'[c])
        /\ Len(Told(k)[c]) = Len(chan[c]) /\ Len(Told(k)'[c]) = Len(chan'[c])
    BY ToldAt
  <2>2. Told(k)[c] \in Seq(Int) /\ Told(k)'[c] \in Seq(Int)
    BY ToldAt, StageNames
  <2> QED
    BY <2>1, <2>2 DEF Heard
<1>2. chan[c] \in Seq(MsgOf(Len(req)))
  BY DEF TypeInv, InFlight
<1>3. ASSUME chan[c] # <<>>
      PROVE  /\ Told(k)[c] # <<>> /\ Told(k)[c][1] = Word(k, req, c, Head(chan[c]))
             /\ chan'[c] = Tail(chan[c]) => Told(k)'[c] = Tail(Told(k)[c])
  <2>1. /\ Len(chan[c]) \in Nat \ {0} /\ 1 \in 1..Len(chan[c]) /\ Head(chan[c]) = chan[c][1]
        /\ Len(Tail(chan[c])) = Len(chan[c]) - 1
        /\ \A i \in 1..Len(Tail(chan[c])) : i + 1 \in 1..Len(chan[c]) /\ Tail(chan[c])[i] = chan[c][i + 1]
    BY <1>2, <1>3
  <2>2. Told(k)[c] # <<>>
    BY <1>1, <2>1
  <2>3. Told(k)[c][1] = Word(k, req, c, Head(chan[c]))
    BY <1>1, <2>1
  <2>4. ASSUME chan'[c] = Tail(chan[c]) PROVE Told(k)'[c] = Tail(Told(k)[c])
    <3>1. Len(Told(k)'[c]) = Len(Told(k)[c]) - 1
      BY <1>1, <2>1, <2>4
    <3>2. \A i \in 1..Len(Told(k)'[c]) : Told(k)'[c][i] = Told(k)[c][i + 1]
      <4> TAKE i \in 1..Len(Told(k)'[c])
      <4>1. i \in 1..Len(Tail(chan[c]))
        BY <1>1, <2>4
      <4>2. Told(k)'[c][i] = Word(k, req, c, Tail(chan[c])[i])
        BY <1>1, <2>4, <4>1
      <4>3. Told(k)[c][i + 1] = Word(k, req, c, chan[c][i + 1])
        BY <1>1, <2>1, <4>1
      <4> QED
        BY <2>1, <4>1, <4>2, <4>3
    <3> QED
      BY <1>1, <2>2, <3>1, <3>2, TailIs
  <2> QED
    BY <2>2, <2>3, <2>4
<1> QED
  BY <1>1, <1>3

\* A handler: the head of its channel is taken, its thread sends ms.
LEMMA HandlerTold ==
  ASSUME TypeInv, TypeInv', UNCHANGED req, NEW k \in Matters, NEW t \in Threads, NEW ch \in Chans, Takes(t, ch),
         NEW ms, Sends(t, ms)
  PROVE  /\ Told(k)[ch] # <<>> /\ Told(k)[ch][1] = Word(k, req, ch, Head(chan[ch]))
         /\ Told(k)'[ch] = Tail(Told(k)[ch])
         /\ Told(k)[t] = <<>>
         /\ Told(k)'[t] = Meant(k, req, ms)
         /\ Told(k)'[t] \in Seq(Int)
         /\ \A d \in Stages \ {ch, t, "kept"} : Told(k)'[d] = Told(k)[d]
<1>1. /\ pend[t] = <<>> /\ chan[ch] # <<>> /\ chan'[ch] = Tail(chan[ch])
      /\ \A c \in Chans \ {ch} : chan'[c] = chan[c]
      /\ pend'[t] = ms /\ \A u \in Threads \ {t} : pend'[u] = pend[u]
  BY DEF Takes, Idle, Sends, TypeInv, InFlight
<1>2. Told(k)[ch] # <<>> /\ Told(k)[ch][1] = Word(k, req, ch, Head(chan[ch])) /\ Told(k)'[ch] = Tail(Told(k)[ch])
  BY <1>1, ChannelTold
<1>3. \A u \in Threads :
        /\ Told(k)[u] = Meant(k, req, pend[u])
        /\ Told(k)'[u] = Meant(k, req, pend'[u])
        /\ Len(Told(k)[u]) = Len(pend[u]) /\ Told(k)[u] \in Seq(Int) /\ Told(k)'[u] \in Seq(Int)
  BY ToldAt, StageNames
<1>4. Told(k)[t] = <<>>
  <2>1. Len(Told(k)[t]) = 0 /\ Told(k)[t] \in Seq(Int)
    BY <1>1, <1>3
  <2> QED
    BY <2>1, EmptySeq
<1>5. /\ Told(k)'[t] = Meant(k, req, ms)
      /\ Told(k)'[t] \in Seq(Int)
      /\ \A u \in Threads \ {t} : Told(k)'[u] = Told(k)[u]
  BY <1>1, <1>3
<1>6. \A c \in Chans \ {ch} : Told(k)'[c] = Told(k)[c]
  BY <1>1, ChannelTold
<1> QED
  BY <1>2, <1>4, <1>5, <1>6 DEF Stages

LEMMA ToSilent ==
  ASSUME NEW k, NEW R, NEW o, NEW m, Word(k, R, o, m) = Mute
  PROVE  Silent(Meant(k, R, To(o, m))) /\ Silent(Meant(k, R, To(o, m) \o To(o, m)))
<1> DEFINE s == To(o, m)
           d == s \o s
<1>1. s \in Seq({[ch |-> o, msg |-> m]}) /\ Len(s) = 1
  BY DEF To
<1> HIDE DEF s
<1>2. d \in Seq({[ch |-> o, msg |-> m]}) /\ Len(d) = 2
  <2> DEFINE S == {[ch |-> o, msg |-> m]}
  <2>1. s \in Seq(S) /\ Len(s) = 1
    BY <1>1
  <2> HIDE DEF S
  <2>2. d \in Seq(S) /\ Len(d) = Len(s) + Len(s)
    BY <2>1, ConcatProperties, Zenon
  <2> QED
    BY <2>1, <2>2 DEF S
<1> HIDE DEF d
<1>3. \A i \in 1..Len(s) : s[i] = [ch |-> o, msg |-> m]
  BY <1>1, ElementOfSeq
<1>4. \A i \in 1..Len(d) : d[i] = [ch |-> o, msg |-> m]
  <2> TAKE i \in 1..Len(d)
  <2>1. d[i] \in {[ch |-> o, msg |-> m]}
    BY ONLY <1>2, i \in 1..Len(d), ElementOfSeq
  <2> QED
    BY ONLY <2>1
<1>5. Silent(Meant(k, R, s)) /\ Silent(Meant(k, R, d))
  BY <1>1, <1>2, <1>3, <1>4 DEF Silent, Meant
<1> QED
  BY <1>5 DEF s, d

LEMMA ToSpeaks ==
  ASSUME NEW k, NEW R, NEW o, NEW m, Word(k, R, o, m) \in Int
  PROVE  Meant(k, R, To(o, m)) = Append(<<>>, Word(k, R, o, m))
<1>1. To(o, m) = <<[ch |-> o, msg |-> m]>>
  BY DEF To
<1>2. Meant(k, R, To(o, m)) = [i \in 1..1 |-> Word(k, R, o, m)]
  BY <1>1 DEF Meant
<1> QED
  BY <1>2

\* A handler that says nothing of what is followed.
LEMMA HandlerSilent ==
  ASSUME TypeInv, TypeInv', NEW k \in Matters, UNCHANGED <<req, Kept(k), Begun(k)>>,
         NEW t \in Threads, NEW ch \in Chans, Takes(t, ch), Followed(k),
         \/ UNCHANGED pend
         \/ \E o, m : Word(k, req, o, m) = Mute /\ (Sends(t, To(o, m)) \/ Sends(t, To(o, m) \o To(o, m)))
  PROVE  Followed(k)'
<1>1. ASSUME NEW ms, Sends(t, ms), Silent(Meant(k, req, ms))
      PROVE  Followed(k)'
  <2>1. /\ Told(k)[ch] # <<>> /\ Told(k)'[ch] = Tail(Told(k)[ch])
        /\ Silent(Told(k)'[t])
        /\ \A d \in Stages \ {ch, t, "kept"} : Told(k)'[d] = Told(k)[d]
    BY <1>1, HandlerTold
  <2>2. Told(k) \in [Stages -> Seq(Int)] /\ Told(k)' \in [Stages -> Seq(Int)] /\ Told(k)'["kept"] = Told(k)["kept"]
    BY ToldAt
  <2>3. ch \in Stages /\ ch # t /\ ch # "kept"
    BY StageNames
  <2>4. DOMAIN Told(k)' = Stages /\ Traced(Told(k), Begun(k)) /\ \A d \in Stages \ {ch} : Told(k)'[d] = Told(k)[d] \/ Silent(Told(k)'[d])
    BY <2>1, <2>2 DEF Followed
  <2>5. Told(k)[ch] \in Seq(Int) /\ DOMAIN Told(k) = Stages
    BY <2>2, <2>3
  <2>6. Traced(Told(k)', Begun(k))
    BY ONLY <2>1, <2>3, <2>4, <2>5, TraceDropped
  <2> QED
    BY <2>6 DEF Followed
<1>2. CASE UNCHANGED pend
  <2>1. Sends(t, <<>>)
    BY <1>2 DEF Takes, Idle, Sends, TypeInv, InFlight
  <2>2. Silent(Meant(k, req, <<>>))
    BY DEF Silent, Meant
  <2> QED
    BY <1>1, <2>1, <2>2
<1>3. ASSUME NEW o, NEW m, Word(k, req, o, m) = Mute,
             Sends(t, To(o, m)) \/ Sends(t, To(o, m) \o To(o, m))
      PROVE  Followed(k)'
  BY <1>1, <1>3, ToSilent
<1> QED
  BY <1>2, <1>3

\* A handler that hands on what the head of its channel tells.
LEMMA HandlerSpeaks ==
  ASSUME TypeInv, TypeInv', NEW k \in Matters, UNCHANGED <<req, Kept(k), Begun(k)>>,
         NEW t \in Threads, NEW ch \in Chans, Takes(t, ch), Followed(k),
         NEW o, NEW m, Sends(t, To(o, m)), Word(k, req, o, m) = Word(k, req, ch, Head(chan[ch]))
  PROVE  Followed(k)'
<1>1. /\ Told(k)[ch] # <<>> /\ Told(k)'[ch] = Tail(Told(k)[ch]) /\ Told(k)[t] = <<>>
      /\ Told(k)[ch][1] = Word(k, req, o, m)
      /\ Told(k)'[t] = Meant(k, req, To(o, m))
      /\ \A d \in Stages \ {ch, t, "kept"} : Told(k)'[d] = Told(k)[d]
  BY HandlerTold
<1>2. Told(k) \in [Stages -> Seq(Int)] /\ Told(k)' \in [Stages -> Seq(Int)] /\ Told(k)'["kept"] = Told(k)["kept"]
  BY ToldAt
<1>3. ch \in Stages /\ t \in Stages /\ ch # t /\ ch # "kept" /\ t # "kept"
  BY StageNames
<1>4. Word(k, req, o, m) \in Int
  BY TakesTyped, WordTyped
<1>5. Told(k)'[t] = Append(Told(k)[t], Told(k)[ch][1])
  BY <1>1, <1>4, ToSpeaks
<1>6. DOMAIN Told(k)' = Stages /\ Traced(Told(k), Begun(k)) /\ \A d \in Stages \ {ch, t} : Told(k)'[d] = Told(k)[d] \/ Silent(Told(k)'[d])
  BY <1>1, <1>2 DEF Followed
<1>7. Told(k)[ch] \in Seq(Int) /\ Told(k)[t] \in Seq(Int) /\ DOMAIN Told(k) = Stages
  BY <1>2, <1>3
<1>8. Traced(Told(k)', Begun(k))
  BY ONLY <1>1, <1>3, <1>5, <1>6, <1>7, TraceMoved
<1> QED
  BY <1>8 DEF Followed

\* A handler that says nothing, and keeps nothing or what the head of its channel tells.
LEMMA HandlerKeeps ==
  ASSUME TypeInv, TypeInv', NEW k \in Matters, UNCHANGED <<req, Begun(k)>>,
         NEW t \in Threads, NEW ch \in Chans, Takes(t, ch), Followed(k),
         NEW o, NEW m, Sends(t, To(o, m)), Word(k, req, o, m) = Mute,
         NEW x \in Int, Kept(k)' = Append(Kept(k), x),
         x = Mute \/ x = Word(k, req, ch, Head(chan[ch]))
  PROVE  Followed(k)'
<1>1. /\ Told(k)[ch] # <<>> /\ Told(k)'[ch] = Tail(Told(k)[ch])
      /\ Told(k)[ch][1] = Word(k, req, ch, Head(chan[ch]))
      /\ Told(k)'[t] = Meant(k, req, To(o, m))
      /\ \A d \in Stages \ {ch, t, "kept"} : Told(k)'[d] = Told(k)[d]
  BY HandlerTold
<1>2. Silent(Told(k)'[t])
  BY <1>1, ToSilent
<1>3. Told(k) \in [Stages -> Seq(Int)] /\ Told(k)' \in [Stages -> Seq(Int)]
      /\ Told(k)'["kept"] = Append(Told(k)["kept"], x)
  BY ToldAt
<1>4. ch \in Stages /\ "kept" \in Stages /\ "kept" # ch /\ t # "kept" /\ t # ch
  BY StageNames
<1>5. /\ Told(k)[ch] \in Seq(Int) /\ Told(k)["kept"] \in Seq(Int)
      /\ DOMAIN Told(k) = Stages /\ DOMAIN Told(k)' = Stages /\ Traced(Told(k), Begun(k))
  BY <1>3, <1>4 DEF Followed
<1>6. \A d \in Stages \ {ch, "kept"} : Told(k)'[d] = Told(k)[d] \/ Silent(Told(k)'[d])
  BY <1>1, <1>2
<1>7. CASE x = Told(k)[ch][1]
  <2>1. Traced(Told(k)', Begun(k))
    BY ONLY <1>1, <1>3, <1>4, <1>5, <1>6, <1>7, TraceMoved
  <2> QED
    BY <2>1 DEF Followed
<1>8. CASE x = Mute
  <2> DEFINE q == [Told(k)' EXCEPT !["kept"] = Told(k)["kept"]]
  <2>1. /\ DOMAIN q = Stages /\ q["kept"] = Told(k)["kept"]
        /\ \A d \in Stages \ {"kept"} : q[d] = Told(k)'[d]
    BY <1>4, <1>5
  <2> HIDE DEF q
  <2>2. q[ch] = Tail(Told(k)[ch])
    BY <1>1, <1>4, <2>1
  <2>3. \A d \in Stages \ {ch} : q[d] = Told(k)[d] \/ Silent(q[d])
    BY <1>4, <1>6, <2>1
  <2>4. Traced(q, Begun(k))
    BY ONLY <1>1, <1>4, <1>5, <2>1, <2>2, <2>3, TraceDropped
  <2>5. Traced(Told(k)', Begun(k) \cup {x})
    BY ONLY <1>3, <1>4, <1>5, <1>8, <2>1, <2>4, TraceBegun
  <2>6. Begun(k) \cup {x} \subseteq Begun(k) \cup {Mute}
    BY <1>8
  <2>7. Traced(Told(k)', Begun(k))
    BY ONLY <2>5, <2>6, TraceWidens
  <2> QED
    BY <2>7 DEF Followed
<1> QED
  BY <1>1, <1>7, <1>8

\* What requests said before they still say.
LEMMA WordsStay ==
  ASSUME TypeInv, NEW k, \A id \in 1..Len(req) : req'[id] = req[id]
  PROVE  /\ \A c : \A m \in MsgOf(Len(req)) : Word(k, req', c, m) = Word(k, req, c, m)
         /\ \A g \in Chans : \A i \in 1..Len(chan[g]) :
              Word(k, req', g, chan[g][i]) = Word(k, req, g, chan[g][i])
         /\ \A t \in Threads : \A i \in 1..Len(pend[t]) :
              Word(k, req', pend[t][i].ch, pend[t][i].msg) = Word(k, req, pend[t][i].ch, pend[t][i].msg)
<1>1. ASSUME NEW c, NEW m \in MsgOf(Len(req)) PROVE Word(k, req', c, m) = Word(k, req, c, m)
  <2>1. m.id \in 1..Len(req)
    BY DEF MsgOf
  <2>2. req'[m.id] = req[m.id]
    BY <2>1
  <2> QED
    BY ONLY <2>2 DEF Word, EndWord, NewWord, Final
<1>2. ASSUME NEW g \in Chans, NEW i \in 1..Len(chan[g])
      PROVE  Word(k, req', g, chan[g][i]) = Word(k, req, g, chan[g][i])
  <2>1. chan[g] \in Seq(MsgOf(Len(req)))
    BY DEF TypeInv, InFlight
  <2>2. chan[g][i] \in MsgOf(Len(req))
    BY <2>1, ElementOfSeq
  <2> QED
    BY <1>1, <2>2
<1>3. ASSUME NEW t \in Threads, NEW i \in 1..Len(pend[t])
      PROVE  Word(k, req', pend[t][i].ch, pend[t][i].msg) = Word(k, req, pend[t][i].ch, pend[t][i].msg)
  <2>1. pend[t] \in Seq(SendOf(Len(req)))
    BY DEF TypeInv, InFlight
  <2>2. pend[t][i] \in SendOf(Len(req))
    BY <2>1, ElementOfSeq
  <2>3. pend[t][i].msg \in MsgOf(Len(req))
    BY <2>2 DEF SendOf
  <2> QED
    BY <1>1, <2>3
<1> QED
  BY <1>1, <1>2, <1>3

\* Channels and hands that are left alone, whatever is asked meanwhile.
LEMMA StillTold ==
  ASSUME TypeInv, TypeInv', NEW k \in Matters, \A id \in 1..Len(req) : req'[id] = req[id]
  PROVE  /\ \A c \in Chans : chan'[c] = chan[c] => Told(k)'[c] = Told(k)[c]
         /\ \A t \in Threads : pend'[t] = pend[t] => Told(k)'[t] = Told(k)[t]
<1>1. ASSUME NEW c \in Chans, chan'[c] = chan[c] PROVE Told(k)'[c] = Told(k)[c]
  <2>1. Heard(k, req', c, chan[c]) = Heard(k, req, c, chan[c])
    BY WordsStay DEF Heard
  <2> QED
    BY <1>1, <2>1, ToldAt
<1>2. ASSUME NEW t \in Threads, pend'[t] = pend[t] PROVE Told(k)'[t] = Told(k)[t]
  <2>1. Meant(k, req', pend[t]) = Meant(k, req, pend[t])
    BY WordsStay DEF Meant
  <2> QED
    BY <1>2, <2>1, ToldAt
<1> QED
  BY <1>1, <1>2

\* A channel that gets one message more.
LEMMA ChannelGrows ==
  ASSUME TypeInv, TypeInv', NEW k \in Matters, \A id \in 1..Len(req) : req'[id] = req[id],
         NEW c \in Chans, NEW m, chan'[c] = Append(chan[c], m), Word(k, req', c, m) \in Int
  PROVE  Told(k)'[c] = Append(Told(k)[c], Word(k, req', c, m))
<1>1. /\ Told(k)[c] = [i \in 1..Len(chan[c]) |-> Word(k, req, c, chan[c][i])]
      /\ Told(k)'[c] = [i \in 1..Len(chan'[c]) |-> Word(k, req', c, chan'[c][i])]
      /\ Len(Told(k)[c]) = Len(chan[c]) /\ Len(Told(k)'[c]) = Len(chan'[c])
      /\ Told(k)[c] \in Seq(Int) /\ Told(k)'[c] \in Seq(Int)
  BY ToldAt, StageNames DEF Heard
<1>2. chan[c] \in Seq(MsgOf(Len(req))) /\ Len(chan[c]) \in Nat
  BY DEF TypeInv, InFlight
<1>3. /\ Len(chan'[c]) = Len(chan[c]) + 1
      /\ \A i \in 1..Len(chan[c]) : i \in 1..Len(chan'[c]) /\ chan'[c][i] = chan[c][i]
      /\ Len(chan[c]) + 1 \in 1..Len(chan'[c]) /\ chan'[c][Len(chan[c]) + 1] = m
  BY <1>2
<1>4. \A i \in 1..Len(Told(k)[c]) : Told(k)'[c][i] = Told(k)[c][i]
  <2> TAKE i \in 1..Len(Told(k)[c])
  <2>1. Told(k)'[c][i] = Word(k, req', c, chan[c][i]) /\ Told(k)[c][i] = Word(k, req, c, chan[c][i])
    BY <1>1, <1>3
  <2>2. Word(k, req', c, chan[c][i]) = Word(k, req, c, chan[c][i])
    <3>1. i \in 1..Len(chan[c])
      BY <1>1
    <3> QED
      BY <3>1, WordsStay
  <2> QED
    BY <2>1, <2>2
<1>5. Told(k)'[c][Len(Told(k)[c]) + 1] = Word(k, req', c, m)
  BY <1>1, <1>3
<1>6. Len(Told(k)'[c]) = Len(Told(k)[c]) + 1
  BY <1>1, <1>3
<1> QED
  BY ONLY <1>1, <1>4, <1>5, <1>6, Word(k, req', c, m) \in Int, AppendIs

\* A send that completes takes its word from the hand to the channel.
LEMMA FlushTold ==
  ASSUME TypeInv, TypeInv', NEW k \in Matters, Followed(k), NEW t \in Threads, Flush(t)
  PROVE  Followed(k)'
<1> DEFINE s == Head(pend[t])
           c == s.ch
<1>1. /\ pend[t] # <<>> /\ pend[t] \in Seq(SendOf(Len(req)))
      /\ pend'[t] = Tail(pend[t]) /\ \A u \in Threads \ {t} : pend'[u] = pend[u]
      /\ UNCHANGED <<req, Kept(k), Begun(k)>>
  BY DEF Flush, TypeInv, InFlight, clientVars, outerVars, runVars, Kept, Begun
<1>2. s \in SendOf(Len(req))
  BY <1>1
<1>3. c \in Chans /\ s.msg \in MsgOf(Len(req))
  BY <1>2, StageNames DEF SendOf
<1>4. chan' = [chan EXCEPT ![c] = Append(@, s.msg)] /\ DOMAIN chan = Chans
  BY DEF Flush, TypeInv, InFlight
<1>5. chan'[c] = Append(chan[c], s.msg) /\ \A d \in Chans \ {c} : chan'[d] = chan[d]
  BY <1>3, <1>4
<1>6. Word(k, req', c, s.msg) = Word(k, req, c, s.msg) /\ Word(k, req, c, s.msg) \in Int
  BY <1>1, <1>3, WordTyped
<1>7. Told(k)'[c] = Append(Told(k)[c], Word(k, req, c, s.msg))
  <2>1. \A id \in 1..Len(req) : req'[id] = req[id]
    BY <1>1
  <2>2. Word(k, req', c, s.msg) \in Int
    BY <1>6
  <2> HIDE DEF c, s
  <2> QED
    BY <1>3, <1>5, <1>6, <2>1, <2>2, ChannelGrows
<1> HIDE DEF c
<1>8. /\ Told(k) \in [Stages -> Seq(Int)] /\ Told(k)' \in [Stages -> Seq(Int)]
      /\ Told(k)["kept"] = Kept(k) /\ Told(k)'["kept"] = Kept(k)'
  BY ToldAt
<1>9. /\ Told(k)[t] = [i \in 1..Len(pend[t]) |-> Word(k, req, pend[t][i].ch, pend[t][i].msg)]
      /\ Told(k)'[t] = [i \in 1..Len(pend'[t]) |-> Word(k, req, pend'[t][i].ch, pend'[t][i].msg)]
      /\ Len(Told(k)[t]) = Len(pend[t]) /\ Len(Told(k)'[t]) = Len(pend'[t])
      /\ Told(k)[t] \in Seq(Int) /\ Told(k)'[t] \in Seq(Int)
  <2>1. /\ Told(k)[t] = Meant(k, req, pend[t]) /\ Told(k)'[t] = Meant(k, req, pend'[t])
        /\ Len(Told(k)[t]) = Len(pend[t]) /\ Len(Told(k)'[t]) = Len(pend'[t])
    BY <1>1, ToldAt
  <2>2. Told(k)[t] \in Seq(Int) /\ Told(k)'[t] \in Seq(Int)
    BY ToldAt, StageNames
  <2> QED
    BY <2>1, <2>2 DEF Meant
<1>10. /\ Len(pend[t]) \in Nat \ {0} /\ 1 \in 1..Len(pend[t]) /\ s = pend[t][1]
       /\ Len(pend'[t]) = Len(pend[t]) - 1
       /\ \A i \in 1..Len(pend'[t]) : i + 1 \in 1..Len(pend[t]) /\ pend'[t][i] = pend[t][i + 1]
  BY <1>1
<1>11. Told(k)[t] # <<>> /\ Told(k)[t][1] = Word(k, req, c, s.msg)
  BY <1>9, <1>10 DEF c
<1>12. Told(k)'[t] = Tail(Told(k)[t])
  <2>1. \A i \in 1..Len(Told(k)'[t]) : Told(k)'[t][i] = Told(k)[t][i + 1]
    BY <1>9, <1>10
  <2> QED
    BY <1>9, <1>10, <1>11, <2>1, TailIs
<1>13. \A d \in Stages \ {t, c} : Told(k)'[d] = Told(k)[d] \/ Silent(Told(k)'[d])
  <2>1. \A d \in Chans \ {c} : Told(k)'[d] = Told(k)[d]
    BY <1>1, <1>5, StillTold
  <2>2. \A u \in Threads \ {t} : Told(k)'[u] = Told(k)[u]
    BY <1>1, StillTold
  <2> QED
    BY <1>1, <1>8, <2>1, <2>2 DEF Stages
<1>14. t \in Stages /\ c \in Stages /\ c # t
  BY <1>3, StageNames
<1>15. /\ Told(k)[c] \in Seq(Int) /\ Told(k)[t] \in Seq(Int) /\ DOMAIN Told(k) = Stages /\ DOMAIN Told(k)' = Stages
       /\ Traced(Told(k), Begun(k)) /\ Told(k)'[c] = Append(Told(k)[c], Told(k)[t][1])
  BY <1>7, <1>8, <1>11, <1>14 DEF Followed
<1>16. Traced(Told(k)', Begun(k))
  BY ONLY <1>11, <1>12, <1>13, <1>14, <1>15, TraceMoved
<1> QED
  BY <1>1, <1>16 DEF Followed

\* A client that takes an answer.
LEMMA ReceiptTold ==
  ASSUME TypeInv, TypeInv', NEW k \in Matters, Followed(k),
         NEW ch \in {"c6", "c8", "c19"}, ClientReceives(ch)
  PROVE  Followed(k)'
<1>1. {"c6", "c8", "c19"} \subseteq Chans
  BY DEF Chans, OutChans
<1>2. /\ UNCHANGED <<req, pend, Kept(k), Begun(k)>> /\ chan[ch] # <<>> /\ ch \in Chans
      /\ chan' = [chan EXCEPT ![ch] = Tail(@)] /\ DOMAIN chan = Chans
  BY <1>1 DEF ClientReceives, clientVars, runVars, outerVars, TypeInv, InFlight, Kept, Begun
<1>3. chan'[ch] = Tail(chan[ch]) /\ \A c \in Chans \ {ch} : chan'[c] = chan[c]
  BY <1>2
<1>4. /\ Told(k)[ch] # <<>> /\ Told(k)'[ch] = Tail(Told(k)[ch])
      /\ \A c \in Chans \ {ch} : Told(k)'[c] = Told(k)[c]
  BY <1>2, <1>3, ChannelTold
<1>5. /\ \A t \in Threads : Told(k)'[t] = Told(k)[t]
      /\ Told(k)'["kept"] = Told(k)["kept"]
      /\ DOMAIN Told(k) = Stages /\ DOMAIN Told(k)' = Stages /\ Told(k) \in [Stages -> Seq(Int)]
  BY <1>2, ToldAt
<1>6. \A d \in Stages \ {ch} : Told(k)'[d] = Told(k)[d] \/ Silent(Told(k)'[d])
  BY <1>4, <1>5 DEF Stages
<1>7. ch \in Stages /\ Told(k)[ch] \in Seq(Int) /\ Traced(Told(k), Begun(k))
  BY <1>2, <1>5, StageNames DEF Followed
<1>8. Traced(Told(k)', Begun(k))
  BY ONLY <1>4, <1>5, <1>6, <1>7, TraceDropped
<1> QED
  BY <1>2, <1>8 DEF Followed

\* A request that is issued says nothing, or begins what is followed.
LEMMA IssueTold ==
  ASSUME TypeInv, TypeInv', NEW k \in Matters, Followed(k), NEW s \in Sources, NEW act, NEW run,
         NEW rep, Issue(s, act, run, rep), UNCHANGED Kept(k), Begun(k) \subseteq Begun(k)',
         NEW x \in Int, x = Word(k, req', InOf(s), Message(Len(req) + 1)),
         x = Mute \/ x \in Begun(k)' \ Begun(k)
  PROVE  Followed(k)'
<1> DEFINE c == InOf(s)
           m == Message(Len(req) + 1)
<1>1. \A id \in 1..Len(req) : req'[id] = req[id]
  BY DEF Issue, TypeInv, Recorded
<1>2. c \in Chans /\ DOMAIN chan = Chans /\ UNCHANGED pend
  BY ChanNames DEF Issue, TypeInv, InFlight, Chans
<1>3. chan'[c] = Append(chan[c], m) /\ \A d \in Chans \ {c} : chan'[d] = chan[d]
  BY <1>2 DEF Issue
<1>4. x = Word(k, req', c, m)
  OBVIOUS
<1> HIDE DEF c, m
<1>5. Told(k)'[c] = Append(Told(k)[c], x)
  BY <1>1, <1>2, <1>3, <1>4, ChannelGrows
<1>6. /\ Told(k) \in [Stages -> Seq(Int)] /\ Told(k)' \in [Stages -> Seq(Int)]
      /\ Told(k)["kept"] = Told(k)'["kept"]
  BY ToldAt
<1>7. \A d \in Stages \ {c} : Told(k)'[d] = Told(k)[d]
  <2>1. \A d \in Chans \ {c} : Told(k)'[d] = Told(k)[d]
    BY <1>1, <1>3, StillTold
  <2>2. \A u \in Threads : Told(k)'[u] = Told(k)[u]
    BY <1>1, <1>2, StillTold
  <2> QED
    BY <1>6, <2>1, <2>2 DEF Stages
<1>8. /\ c \in Stages /\ Told(k)[c] \in Seq(Int) /\ DOMAIN Told(k) = Stages /\ DOMAIN Told(k)' = Stages
      /\ Traced(Told(k), Begun(k))
  BY <1>2, <1>6, StageNames DEF Followed
<1>9. x = Mute \/ x \notin Begun(k)
  OBVIOUS
<1>10. Traced(Told(k)', Begun(k) \cup {x})
  BY ONLY <1>5, <1>7, <1>8, <1>9, TraceBegun
<1>11. Begun(k) \cup {x} \subseteq Begun(k)' \cup {Mute}
  OBVIOUS
<1>12. Traced(Told(k)', Begun(k)')
  BY ONLY <1>10, <1>11, TraceWidens
<1> QED
  BY <1>12 DEF Followed

LEMMA EndMatters ==
  /\ "end" \in Matters
  /\ Kept("end") = stats /\ Kept("end")' = stats'
  /\ Begun("end") = ended /\ Begun("end")' = ended'
BY DEF Matters, Kept, Begun

\* What is said elsewhere than on the way of a last report is silence.
LEMMA MuteWords ==
  /\ \A R, m : \A o \in OutChans \ {"c13", "c15"} : Word("end", R, o, m) = Mute
  /\ \A R, m : m.kind # "statistic" => Word("end", R, "c15", m) = Mute
  /\ \A R, m : R[m.id].act # "Update" => Word("end", R, "c13", m) = Mute
  /\ \A s \in Sources : OutOf(s) \in OutChans \ {"c13", "c15"}
<1>1. \A o \in OutChans \ {"c13", "c15"} : o # "c15" /\ o \notin InChans \cup {"c13"}
  BY ChanNames
<1>2. "c13" # "c15" /\ "c15" \notin InChans
  BY DEF InChans
<1>3. \A s \in Sources : OutOf(s) \in OutChans \ {"c13", "c15"}
  BY DEF Sources, OutOf, OutChans
<1> QED
  BY <1>1, <1>2, <1>3 DEF Word, EndWord, Final

LEMMA MessageId == \A id : Message(id).id = id /\ Message(id).kind = "request"
BY DEF Message

\* The processor thread hands reports on as they came, and says nothing else.
LEMMA ProcessorTold ==
  ASSUME TypeInv, TypeInv', Followed("end"), ProcessorThread
  PROVE  Followed("end")'
<1> DEFINE t == "processor"
<1>1. UNCHANGED <<req, Kept("end"), Begun("end")>>
  BY Zenon DEF ProcessorThread, ProcQuery, ProcCreateRun, ProcForward, ProcPipeline,
               ProcRunnerResponds, clientVars, outerVars, Kept, Begun
<1>2. t \in Threads /\ "c12" \in Chans /\ "c14" \in Chans /\ "c11" \in OutChans \ {"c13", "c15"}
      /\ \A s \in Sources : InOf(s) \in Chans
  BY ChanNames DEF Threads, Chans, OutChans
<1>3. \A id \in 1..Len(req) : OutOf(req[id].src) \in OutChans \ {"c13", "c15"}
  BY RequestTyped, MuteWords
<1>4. \A n \in Nonce : procStore[n] # Absent => procStore[n] \in 1..Len(req)
  <2> TAKE n \in Nonce
  <2>1. procStore[n] \in 0..Len(req) /\ Len(req) \in Nat
    BY DEF TypeInv, InFlight, Recorded
  <2> QED
    BY <2>1 DEF Absent
<1>5. ASSUME NEW ch \in Chans, Takes(t, ch), NEW id \in 1..Len(req), NEW from, NEW ok, NEW run,
             Answers(id, from, ok, run)
      PROVE  Followed("end")'
  <2>1. Word("end", req, OutOf(req[id].src), Message(id)) = Mute
    BY <1>3, MuteWords
  <2>2. Sends(t, To(OutOf(req[id].src), Message(id)))
    BY <1>5 DEF Answers
  <2> QED
    BY <1>1, <1>2, <1>5, <2>1, <2>2, HandlerSilent, EndMatters
<1>6. ASSUME NEW ch \in Chans, Takes(t, ch), UNCHANGED pend
      PROVE  Followed("end")'
  BY <1>1, <1>2, <1>6, HandlerSilent, EndMatters
<1>7. ASSUME NEW s \in Sources, NEW A, ProcTakesRequest(s, A)
      PROVE  /\ Takes(t, InOf(s)) /\ iReq' = Head(chan[InOf(s)]).id
             /\ iReq' \in 1..Len(req) /\ req[iReq'].act \in A
  <2>1. Takes(t, InOf(s)) /\ iReq' = Head(chan[InOf(s)]).id /\ req[iReq'].act \in A
    BY <1>7 DEF ProcTakesRequest
  <2> QED
    BY <1>2, <2>1, TakesTyped
<1>8. ASSUME NEW s \in Sources, ProcQuery(s) PROVE Followed("end")'
  <2>1. ProcTakesRequest(s, {"Query"}) /\ Answers(iReq', iReq', TRUE, 0)
    BY <1>8 DEF ProcQuery
  <2> QED
    BY <1>2, <1>5, <1>7, <2>1
<1>9. ASSUME NEW s \in Sources, ProcCreateRun(s) PROVE Followed("end")'
  <2>1. ProcTakesRequest(s, {"Create"})
        /\ Sends(t, To("c11", [Message(iReq') EXCEPT !.kind = "pipeline"]))
    BY <1>9 DEF ProcCreateRun
  <2>2. \A m : Word("end", req, "c11", m) = Mute
    BY <1>2, MuteWords
  <2>3. Takes(t, InOf(s)) /\ InOf(s) \in Chans
    BY <1>2, <1>7, <2>1
  <2> QED
    BY <1>1, <1>2, <2>1, <2>2, <2>3, HandlerSilent, EndMatters
<1>10. ASSUME NEW s \in Sources, ProcForward(s) PROVE Followed("end")'
  <2>1. ProcTakesRequest(s, {"Get", "Update", "Delete"}) /\ Sends(t, To("c13", Message(iReq')))
    BY <1>10 DEF ProcForward
  <2>2. Takes(t, InOf(s)) /\ InOf(s) \in Chans /\ iReq' = Head(chan[InOf(s)]).id
    BY <1>2, <1>7, <2>1
  <2>3. InOf(s) \in InChans /\ InOf(s) # "c15"
    BY ChanNames DEF InChans
  <2>4. Word("end", req, "c13", Message(iReq')) = Word("end", req, InOf(s), Head(chan[InOf(s)]))
    BY <2>2, <2>3, MessageId DEF Word, EndWord
  <2> QED
    BY <1>1, <1>2, <2>1, <2>2, <2>4, HandlerSpeaks, EndMatters
<1>11. CASE ProcPipeline
  <2> DEFINE id == procStore[NonceOf(Head(chan["c12"]).id)]
  <2>1. Takes(t, "c12")
    BY <1>11 DEF ProcPipeline
  <2>2. id # Absent => id \in 1..Len(req)
    BY <1>2, <1>4, <2>1, TakesTyped
  <2>3. \/ UNCHANGED pend
        \/ id # Absent /\ Answers(id, id, FALSE, 0)
        \/ id # Absent /\ req[id].act = "Create"
           /\ \E w \in Workers : Sends(t, To("c13", [Message(id) EXCEPT !.worker = w]))
    BY <1>11 DEF ProcPipeline
  <2> HIDE DEF id
  <2>4. ASSUME req[id].act = "Create", NEW w, Sends(t, To("c13", [Message(id) EXCEPT !.worker = w]))
        PROVE  Followed("end")'
    <3> DEFINE m == [Message(id) EXCEPT !.worker = w]
    <3>1. m.id = id
      BY DEF Message
    <3> HIDE DEF m
    <3>2. Word("end", req, "c13", m) = Mute
      BY <2>4, <3>1, MuteWords
    <3>3. Sends(t, To("c13", m))
      BY <2>4 DEF m
    <3> QED
      BY <1>1, <1>2, <2>1, <3>2, <3>3, HandlerSilent, EndMatters
  <2> QED
    BY <1>2, <1>5, <1>6, <2>1, <2>2, <2>3, <2>4
<1>12. CASE ProcRunnerResponds
  <2> DEFINE id == procStore[NonceOf(iReq)]
  <2>1. Takes(t, "c14")
    BY <1>12 DEF ProcRunnerResponds
  <2>2. iReq # Absent => NonceOf(iReq) \in Nonce
    <3>1. iReq \in 0..Len(req) /\ Len(req) \in Nat
      BY DEF TypeInv, InFlight, Recorded
    <3> QED
      BY <3>1, RequestTyped DEF Absent
  <2>3. \/ UNCHANGED pend
        \/ iReq # Absent /\ id # Absent /\ \E from, ok, run : Answers(id, from, ok, run)
    BY <1>12 DEF ProcRunnerResponds, procVars
  <2> HIDE DEF id
  <2>4. iReq # Absent /\ id # Absent => id \in 1..Len(req)
    BY <1>4, <2>2 DEF id
  <2> QED
    BY <1>2, <1>5, <1>6, <2>1, <2>3, <2>4
<1> QED
  BY <1>8, <1>9, <1>10, <1>11, <1>12 DEF ProcessorThread

\* The runner asks for the statistic record of the run the report named.
LEMMA RunnerTold ==
  ASSUME TrailInv, TypeInv', Followed("end"), RunnerThread
  PROVE  Followed("end")'
<1> DEFINE t == "runner"
<1>0. TypeInv /\ Reported
  BY DEF TrailInv, Trail
<1>1. UNCHANGED <<req, Kept("end"), Begun("end")>>
  BY Zenon DEF RunnerThread, RunnerGetRun, RunnerCreateRun, RunnerUpdateRun, RunnerDeleteRun,
           RunnerTakes, RunnerDatabaseResponds, RunnerSocketResponds, clientVars, outerVars, Kept, Begun
<1>2. t \in Threads /\ "c10" \in Chans /\ "c13" \in Chans /\ "c16" \in Chans
      /\ "c9" \in OutChans \ {"c13", "c15"} /\ "c14" \in OutChans \ {"c13", "c15"}
  BY DEF Threads, Chans, OutChans
<1>3. \A m : Word("end", req, "c9", m) = Mute /\ Word("end", req, "c14", m) = Mute
  BY <1>2, MuteWords
<1>4. ASSUME NEW ch \in Chans, Takes(t, ch), UNCHANGED pend PROVE Followed("end")'
  BY <1>0, <1>1, <1>2, <1>4, HandlerSilent, EndMatters
<1>5. ASSUME NEW ch \in Chans, Takes(t, ch), NEW x,
             Sends(t, Reply(x)) \/ Sends(t, Reply(x) \o Reply(x)) \/ Sends(t, To("c9", x))
      PROVE  Followed("end")'
  <2>1. \/ Sends(t, To("c14", x)) \/ Sends(t, To("c14", x) \o To("c14", x))
        \/ Sends(t, To("c9", x))
    BY <1>5 DEF Reply
  <2> QED
    BY <1>0, <1>1, <1>2, <1>3, <1>5, <2>1, HandlerSilent, EndMatters
<1>6. RunnerGetRun \/ RunnerCreateRun \/ RunnerUpdateRun \/ RunnerDeleteRun => Takes(t, "c13")
  BY Zenon DEF RunnerGetRun, RunnerCreateRun, RunnerUpdateRun, RunnerDeleteRun, RunnerTakes
<1>7. CASE RunnerGetRun
  <2>1. UNCHANGED pend \/ \E x : Sends(t, Reply(x))
    BY <1>7 DEF RunnerGetRun, RunnerPanics, GetReply
  <2> QED
    BY <1>2, <1>4, <1>5, <1>6, <1>7, <2>1
<1>8. CASE RunnerCreateRun
  <2> DEFINE x == [Message(Head(chan["c13"]).id) EXCEPT !.kind = "pipeline"]
  <2>1. Sends(t, To("c15", x))
    BY <1>8 DEF RunnerCreateRun
  <2>2. x.kind = "pipeline"
    BY DEF Message
  <2> HIDE DEF x
  <2>3. Word("end", req, "c15", x) = Mute
    BY <2>2, MuteWords
  <2> QED
    BY <1>0, <1>1, <1>2, <1>6, <1>8, <2>1, <2>3, HandlerSilent, EndMatters
<1>9. CASE RunnerUpdateRun
  <2> DEFINE m   == Head(chan["c13"])
             u   == req[m.id]
             r   == Lookup(u.run)
             ask == Ask(m.id, "statistic", r[1], NoWorker)
  <2>1. Takes(t, "c13") /\ u.act = "Update" /\ m.id \in 1..Len(req)
    BY <1>0, <1>2, <1>6, <1>9, TakesTyped DEF RunnerUpdateRun, RunnerTakes
  <2>2. \/ UNCHANGED pend
        \/ \E x : Sends(t, Reply(x))
        \/ EndsRun(u) /\ Sends(t, To("c15", ask))
    BY <1>9 DEF RunnerUpdateRun, RunnerPanics
  <2>3. ASSUME EndsRun(u), Sends(t, To("c15", ask)) PROVE Followed("end")'
    <3>1. u.run \in Held /\ Held \subseteq 1..Len(runs)
      BY <1>0, <2>1 DEF Reported, Held
    <3>2. r[1] = u.run
      <4>1. u.run \in 1..Len(runs)
        BY ONLY <3>1
      <4>2. Len(runs) \in Nat
        BY <1>0 DEF TypeInv, Recorded
      <4>3. u.run # 0
        BY ONLY <4>1, <4>2
      <4> QED
        BY ONLY <4>1, <4>3 DEF Lookup
    <3>3. ask.kind = "statistic" /\ ask.run = u.run
      BY <3>2 DEF Ask
    <3> HIDE DEF ask
    <3>4. Word("end", req, "c15", ask) = u.run
      BY <3>3 DEF Word, EndWord
    <3>5. Word("end", req, "c13", m) = u.run
      BY <2>1, <2>3 DEF Word, EndWord, Final
    <3> QED
      BY <1>0, <1>1, <1>2, <2>1, <2>3, <3>4, <3>5, HandlerSpeaks, EndMatters
  <2> QED
    BY <1>2, <1>4, <1>5, <2>1, <2>2, <2>3
<1>10. CASE RunnerDeleteRun
  <2>1. \/ UNCHANGED pend
        \/ \E x : Sends(t, Reply(x) \o Reply(x))
        \/ \E x : Sends(t, To("c9", x))
    BY <1>10 DEF RunnerDeleteRun, RunnerPanics
  <2> QED
    BY <1>2, <1>4, <1>5, <1>6, <1>10, <2>1
<1>11. CASE RunnerDatabaseResponds
  <2>1. UNCHANGED pend \/ (\E x : Sends(t, Reply(x))) \/ \E x : Sends(t, To("c9", x))
    BY <1>11 DEF RunnerDatabaseResponds, Resolve
  <2>2. Takes(t, "c16")
    BY <1>11 DEF RunnerDatabaseResponds
  <2> QED
    BY <1>2, <1>4, <1>5, <2>1, <2>2
<1>12. CASE RunnerSocketResponds
  <2>1. UNCHANGED pend \/ \E x : Sends(t, Reply(x))
    BY <1>12 DEF RunnerSocketResponds, Resolve
  <2>2. Takes(t, "c10")
    BY <1>12 DEF RunnerSocketResponds
  <2> QED
    BY <1>2, <1>4, <1>5, <2>1, <2>2
<1> QED
  BY <1>7, <1>8, <1>9, <1>10, <1>11, <1>12 DEF RunnerThread

\* The database thread stores the record it was asked for, or fails to.
LEMMA DatabaseTold ==
  ASSUME TypeInv, TypeInv', Followed("end"), DatabaseServesRunner
  PROVE  Followed("end")'
<1> DEFINE m == Head(chan["c15"])
           t == "database"
<1>1. PICK ok \in BOOLEAN :
        /\ Sends(t, To("c16", [m EXCEPT !.ok = ok]))
        /\ stats' = IF ok /\ m.kind = "statistic" THEN Append(stats, m.run) ELSE stats
  BY DEF DatabaseServesRunner
<1>2. Takes(t, "c15") /\ UNCHANGED <<req, ended>> /\ t \in Threads
  BY DEF DatabaseServesRunner, clientVars, Threads
<1>3. "c15" \in Chans /\ "c16" \in OutChans \ {"c13", "c15"}
  BY DEF Chans, OutChans
<1>4. \A x : Word("end", req, "c16", x) = Mute
  BY <1>3, MuteWords
<1>5. CASE ok /\ m.kind = "statistic"
  <2>1. Word("end", req, "c15", m) = m.run /\ stats' = Append(stats, m.run)
    BY <1>1, <1>5 DEF Word, EndWord
  <2>2. m.run \in Int
    BY <1>2, <1>3, TakesTyped DEF MsgOf
  <2> QED
    BY <1>1, <1>2, <1>3, <1>4, <2>1, <2>2, HandlerKeeps, EndMatters
<1>6. CASE ~(ok /\ m.kind = "statistic")
  BY <1>1, <1>2, <1>3, <1>4, <1>6, HandlerSilent, EndMatters
<1> QED
  BY <1>5, <1>6

\* The other handlers say nothing of the end of runs.
LEMMA OthersTold ==
  ASSUME TypeInv, TypeInv', Followed("end"),
         \/ DatabaseServesProcessor \/ SocketServesRunner
         \/ \E ch \in {"c6", "c8", "c19"} : ClientReceives(ch)
  PROVE  Followed("end")'
<1>1. {"database", "socket"} \subseteq Threads /\ {"c9", "c11"} \subseteq Chans
      /\ {"c10", "c12"} \subseteq OutChans \ {"c13", "c15"}
      /\ {"c6", "c8", "c19"} \subseteq Chans
  BY DEF Threads, Chans, OutChans
<1>2. \A m : Word("end", req, "c10", m) = Mute /\ Word("end", req, "c12", m) = Mute
  BY <1>1, MuteWords
<1>3. CASE DatabaseServesProcessor
  <2>1. /\ Takes("database", "c11") /\ \E x : Sends("database", To("c12", x))
        /\ UNCHANGED <<req, Kept("end"), Begun("end")>>
    BY <1>3 DEF DatabaseServesProcessor, clientVars, outerVars, Kept, Begun
  <2> QED
    BY <1>1, <1>2, <2>1, HandlerSilent, EndMatters
<1>4. CASE SocketServesRunner
  <2>1. /\ Takes("socket", "c9") /\ \E x : Sends("socket", To("c10", x))
        /\ UNCHANGED <<req, Kept("end"), Begun("end")>>
    BY <1>4 DEF SocketServesRunner, clientVars, Kept, Begun
  <2> QED
    BY <1>1, <1>2, <2>1, HandlerSilent, EndMatters
<1> QED
  BY <1>3, <1>4, ReceiptTold DEF Matters

\* A report says that its run ended only if it had not before.
LEMMA ClientsTold ==
  ASSUME TypeInv, TypeInv', Followed("end"), Clients
  PROVE  Followed("end")'
<1>1. "HttpClient" \in Sources /\ "Socket" \in Sources
  BY DEF Sources
<1>2. ASSUME NEW s \in Sources, NEW act, NEW run, NEW rep, Issue(s, act, run, rep),
             ended \subseteq ended', act = "Update" /\ EndsRun(rep) => run \in ended' \ ended
      PROVE  Followed("end")'
  <2> DEFINE n == Len(req) + 1
             x == Word("end", req', InOf(s), Message(n))
  <2>1. req'[n].act = act /\ req'[n].run = run /\ (EndsRun(req'[n]) <=> EndsRun(rep))
    BY <1>2 DEF Issue, TypeInv, Recorded, EndsRun
  <2>2. InOf(s) \in InChans /\ InOf(s) # "c15"
    BY ChanNames DEF InChans
  <2>3. x = IF Final(req', n) THEN req'[n].run ELSE Mute
    BY <2>2, MessageId DEF Word, EndWord
  <2>4. x = Mute \/ (x = run /\ run \in ended' \ ended)
    BY <1>2, <2>1, <2>3 DEF Final
  <2>5. ended' \subseteq Nat
    BY DEF TypeInv, Recorded
  <2> HIDE DEF x
  <2>6. x \in Int
    <3>1. x = Mute \/ x \in Nat
      BY ONLY <2>4, <2>5
    <3> QED
      BY <3>1 DEF Mute
  <2>7. UNCHANGED stats
    BY <1>2 DEF Issue
  <2>8. x = Word("end", req', InOf(s), Message(Len(req) + 1))
    BY DEF x
  <2> QED
    BY <1>2, <2>4, <2>6, <2>7, <2>8, IssueTold, EndMatters
<1>3. ASSUME NEW s \in Sources, IssueQuery(s) \/ IssueCreateRun(s) PROVE Followed("end")'
  <2>1. /\ Issue(s, "Query", 0, NoReport) \/ Issue(s, "Create", 0, NoReport)
        /\ UNCHANGED ended
    BY <1>3 DEF IssueQuery, IssueCreateRun
  <2> QED
    BY <1>2, <2>1
<1>4. ASSUME NEW r \in RunArgs, IssueGetRun(r) \/ IssueStopRun(r) PROVE Followed("end")'
  <2>1. /\ Issue("HttpClient", "Get", r, NoReport) \/ Issue("HttpClient", "Delete", r, NoReport)
        /\ UNCHANGED ended
    BY <1>4 DEF IssueGetRun, IssueStopRun
  <2> QED
    BY <1>1, <1>2, <2>1
<1>5. ASSUME NEW r \in 1..Len(runs), NEW rep \in Reports, WorkerReports(r, rep) PROVE Followed("end")'
  <2>1. /\ r \notin ended /\ Issue("Socket", "Update", r, rep)
        /\ ended' = IF rep.status \in Terminal THEN ended \cup {r} ELSE ended
    BY <1>5 DEF WorkerReports
  <2>2. ended \subseteq ended'
    BY <2>1
  <2>3. EndsRun(rep) => r \in ended' \ ended
    BY <2>1 DEF EndsRun
  <2> QED
    BY <1>1, <1>2, <2>1, <2>2, <2>3
<1> QED
  BY <1>3, <1>4, <1>5, ReceiptTold DEF Clients, Matters

LEMMA InitTold == Init => \A k \in Matters : Followed(k)
<1> SUFFICES ASSUME Init, NEW k \in Matters PROVE Followed(k)
  OBVIOUS
<1>1. TypeInv
  BY InitTyped
<1>2. /\ \A g \in Chans : Len(chan[g]) = 0
      /\ \A t \in Threads : Len(pend[t]) = 0
      /\ stats = <<>> /\ runs = <<>> /\ Len(<<>>) = 0
  BY DEF Init, Chans
<1>3. Len(Kept(k)) = 0
  BY <1>2 DEF Kept
<1>4. DOMAIN Told(k) = Stages /\ \A g \in Stages : Len(Told(k)[g]) = 0
  <2>1. /\ Told(k) \in [Stages -> Seq(Int)] /\ Told(k)["kept"] = Kept(k)
        /\ \A g \in Chans : Len(Told(k)[g]) = Len(chan[g])
        /\ \A t \in Threads : Len(Told(k)[t]) = Len(pend[t])
    BY <1>1, ToldIsTyped, TrackAt DEF ToldTyped, Told
  <2> QED
    BY <1>2, <1>3, <2>1 DEF Stages
<1>5. Traced(Told(k), Begun(k))
  BY <1>4 DEF Traced
<1> QED
  BY <1>5 DEF Followed

LEMMA StepTold == TrailInv /\ Followed("end") /\ [Next]_vars => Followed("end")'
<1> SUFFICES ASSUME TrailInv, Followed("end"), [Next]_vars PROVE Followed("end")'
  OBVIOUS
<1>1. TypeInv /\ TypeInv'
  BY StepTyped DEF TrailInv
<1>2. CASE UNCHANGED vars
  BY <1>2 DEF vars, Followed, Told, Kept, Begun, Track, Heard, Meant
<1>3. CASE Next
  BY <1>1, <1>3, ClientsTold, ProcessorTold, RunnerTold, DatabaseTold, OthersTold, FlushTold DEF Next, Matters
<1> QED
  BY <1>2, <1>3

LEMMA TracedRecords == TypeInv /\ Followed("end") => OneStatisticPerEndedRun
<1> SUFFICES ASSUME TypeInv, Followed("end") PROVE OneStatisticPerEndedRun
  OBVIOUS
<1>1. stats \in Seq(Nat)
  BY DEF TypeInv, Recorded
<1>2. Told("end")["kept"] = stats /\ DOMAIN Told("end") = Stages /\ "kept" \in Stages
  BY TrackAt, StageNames, EndMatters DEF Told
<1>3. \A i \in 1..Len(stats) : stats[i] \in Nat
  BY <1>1
<1>4. \A i \in 1..Len(stats) : stats[i] # Mute
  BY <1>3 DEF Mute
<1>5. Traced(Told("end"), ended)
  BY EndMatters DEF Followed
<1>6. /\ \A i, j \in 1..Len(stats) : stats[i] = stats[j] /\ stats[i] # Mute => i = j
      /\ \A i \in 1..Len(stats) : stats[i] \in ended \cup {Mute}
  BY ONLY <1>2, <1>5 DEF Traced
<1> QED
  BY <1>4, <1>6 DEF OneStatisticPerEndedRun

\* A run gets one statistic record at most, and none before its worker said that it ended:
\* the report is passed on, asked about and stored without ever being doubled, although
\* answers are matched to requests by nonces that coincide.
THEOREM OneStatistic == Spec => []OneStatisticPerEndedRun
<1>1. Init => Followed("end")
  BY InitTold, EndMatters
<1>2. Spec => [](TrailInv /\ Followed("end"))
  BY <1>1, InitTrail, StepTrail, StepTold, PTL DEF Spec
<1>3. TrailInv /\ Followed("end") => OneStatisticPerEndedRun
  BY TracedRecords DEF TrailInv
<1>4. QED
  BY <1>2, <1>3, PTL
-----------------------------------------------------------------------------
(* NumOfRuns never counts fewer runs than a worker has, as long as no two creations have    *)
(* one nonce.  A creation is in one place only on its way from the client to the record of  *)
(* its run, and every run that was assigned to a worker was counted when it was assigned.   *)

\* No two creations have one nonce: the pools have not met, and have not wrapped.
CreatesApart ==
  \A i, j \in 1..Len(req) :
    req[i].act = "Create" /\ req[j].act = "Create" /\ NonceOf(i) = NonceOf(j) => i = j

\* What the runner has stored for a worker is a creation.
Placings ==
  \A n \in Nonce : runStore[n].worker \in Workers =>
    runStore[n].id # Absent /\ req[runStore[n].id].act = "Create"

\* On the channels off the way of a creation nothing is said of it.
Quiet == {"c6", "c8", "c19", "c9", "c10", "c14"}

LEMMA NewWords ==
  /\ "create" \in Matters /\ Quiet \subseteq OutChans
  /\ \A R, m : \A o \in Quiet : Word("create", R, o, m) = Mute
  /\ \A R, m : Word("create", R, "c11", m) = m.id /\ Word("create", R, "c12", m) = m.id
  /\ \A R, m : \A o \in {"c15", "c16"} :
       Word("create", R, o, m) = IF m.kind = "statistic" THEN Mute ELSE m.id
  /\ \A R, m : \A o \in InChans \cup {"c13"} :
       Word("create", R, o, m) = IF R[m.id].act = "Create" THEN m.id ELSE Mute
  /\ \A s \in Sources : OutOf(s) \in Quiet /\ InOf(s) \in InChans
<1>1. "create" \in Matters /\ "create" # "end" /\ Quiet \subseteq OutChans
  BY DEF Matters, Quiet, OutChans
<1>2. \A o \in Quiet : o \notin {"c11", "c12", "c15", "c16", "c13"} /\ o \notin InChans
  BY DEF Quiet, InChans
<1>3. \A o \in InChans \cup {"c13"} : o \notin {"c11", "c12", "c15", "c16"}
  BY DEF InChans
<1>4. \A s \in Sources : OutOf(s) \in Quiet /\ InOf(s) \in InChans
  BY DEF Sources, OutOf, InOf, Quiet, InChans
<1>5. \A R, c, m : Word("create", R, c, m) = NewWord(R, c, m)
  BY <1>1 DEF Word
<1>6. \A R, m : \A o \in Quiet : NewWord(R, o, m) = Mute
  BY <1>2 DEF NewWord
<1>7. \A R, m : \A o \in InChans \cup {"c13"} :
        NewWord(R, o, m) = IF R[m.id].act = "Create" THEN m.id ELSE Mute
  BY <1>3 DEF NewWord
<1>8. /\ \A R, m : NewWord(R, "c11", m) = m.id /\ NewWord(R, "c12", m) = m.id
      /\ \A R, m : \A o \in {"c15", "c16"} :
           NewWord(R, o, m) = IF m.kind = "statistic" THEN Mute ELSE m.id
  BY DEF NewWord
<1> QED
  BY <1>1, <1>4, <1>5, <1>6, <1>7, <1>8

\* The runs that are recorded keep their request and their worker.
LEMMA KeptStays ==
  ASSUME TypeInv, UNCHANGED runs \/ \E r, s : SetStatus(r, s)
  PROVE  UNCHANGED Kept("create")
<1>1. CASE UNCHANGED runs
  BY <1>1 DEF Kept
<1>2. ASSUME NEW r, NEW s, SetStatus(r, s) PROVE UNCHANGED Kept("create")
  <2>1. runs' = [runs EXCEPT ![r].status = s] /\ runs \in Seq(Run) /\ Len(runs) \in Nat
    BY <1>2 DEF SetStatus, TypeInv, Recorded
  <2>2. Len(runs') = Len(runs)
    BY <2>1
  <2>3. \A i \in 1..Len(runs) : runs'[i].worker = runs[i].worker /\ runs'[i].for = runs[i].for
    <3> TAKE i \in 1..Len(runs)
    <3>1. runs[i] \in Run
      BY <2>1, ElementOfSeq
    <3>2. runs'[i] = IF i = r THEN [runs[i] EXCEPT !.status = s] ELSE runs[i]
      BY <2>1
    <3> QED
      BY <3>1, <3>2 DEF Run
  <2> QED
    BY <2>2, <2>3 DEF Kept
<1> QED
  BY <1>1, <1>2

LEMMA KeptGrows ==
  ASSUME TypeInv, TypeInv', NEW x, runs' = Append(runs, x),
         NEW y \in Int, y = IF x.worker \in Workers THEN x.for ELSE Mute
  PROVE  Kept("create")' = Append(Kept("create"), y)
<1> DEFINE k == Kept("create")
           l == Kept("create")'
<1>1. runs \in Seq(Run) /\ Len(runs) \in Nat /\ Len(runs') = Len(runs) + 1
      /\ runs'[Len(runs) + 1] = x /\ \A r \in 1..Len(runs) : runs'[r] = runs[r]
  BY DEF TypeInv, Recorded
<1>2. /\ k = [r \in 1..Len(runs) |-> IF runs[r].worker \in Workers THEN runs[r].for ELSE Mute]
      /\ l = [r \in 1..Len(runs') |-> IF runs'[r].worker \in Workers THEN runs'[r].for ELSE Mute]
  BY DEF Kept
<1>3. /\ Told("create") \in [Stages -> Seq(Int)] /\ Told("create")' \in [Stages -> Seq(Int)]
      /\ Told("create")["kept"] = k /\ Told("create")'["kept"] = l
  BY ToldAt, NewWords
<1>4. k \in Seq(Int) /\ l \in Seq(Int)
  BY <1>3, StageNames
<1> HIDE DEF k, l
<1>5. Len(k) = Len(runs) /\ Len(l) = Len(runs')
  BY ONLY <1>1, <1>2, <1>4
<1>6. \A i \in 1..Len(k) : l[i] = k[i]
  BY <1>1, <1>2, <1>5
<1>7. l[Len(k) + 1] = y
  BY <1>1, <1>2, <1>5
<1>8. l = Append(k, y)
  BY ONLY <1>1, <1>4, <1>5, <1>6, <1>7, y \in Int, AppendIs
<1> QED
  BY <1>8 DEF k, l

\* What the head of a channel tells has begun.
LEMMA HeadTold ==
  ASSUME TypeInv, TypeInv', UNCHANGED req, NEW k \in Matters, NEW c \in Chans, chan[c] # <<>>, Followed(k)
  PROVE  Word(k, req, c, Head(chan[c])) \in Begun(k) \cup {Mute}
<1>1. Told(k) \in [Stages -> Seq(Int)] /\ c \in Stages
  BY ToldAt, StageNames
<1>2. Told(k)[c] # <<>> /\ Told(k)[c][1] = Word(k, req, c, Head(chan[c]))
  BY ChannelTold
<1>3. 1 \in 1..Len(Told(k)[c]) /\ DOMAIN Told(k) = Stages
  BY <1>1, <1>2
<1>4. Told(k)[c][1] \in Begun(k) \cup {Mute}
  BY <1>1, <1>3 DEF Followed, Traced
<1> QED
  BY <1>2, <1>4

\* The processor thread hands a creation on, to the database and from there to the runner:
\* with one creation a nonce, what it stored under the nonce of a response is what that
\* response is about.
LEMMA ProcessorPlaced ==
  ASSUME OnceInv, TypeInv', CreatesApart, Followed("create"), ProcessorThread
  PROVE  Followed("create")'
<1> DEFINE t == "processor"
<1>0. TypeInv /\ Open
  BY DEF OnceInv, Once
<1>1. UNCHANGED <<req, Kept("create"), Begun("create")>>
  <2>1. UNCHANGED <<req, runs>>
    BY Zenon DEF ProcessorThread, ProcQuery, ProcCreateRun, ProcForward, ProcPipeline,
                 ProcRunnerResponds, clientVars, runVars
  <2> QED
    BY <2>1 DEF Kept, Begun
<1>2. /\ t \in Threads /\ {"c11", "c12", "c13", "c14"} \subseteq OutChans /\ OutChans \subseteq Chans
      /\ InChans \subseteq Chans
  BY DEF Threads, Chans, OutChans
<1>3. \A n \in Nonce : procStore[n] # Absent => procStore[n] \in 1..Len(req)
  <2> TAKE n \in Nonce
  <2>1. procStore[n] \in 0..Len(req) /\ Len(req) \in Nat
    BY <1>0 DEF TypeInv, InFlight, Recorded
  <2> QED
    BY <2>1 DEF Absent
<1>4. ASSUME NEW ch \in Chans, Takes(t, ch), NEW o, NEW m, Sends(t, To(o, m)),
             \/ Word("create", req, o, m) = Mute
             \/ Word("create", req, o, m) = Word("create", req, ch, Head(chan[ch]))
      PROVE  Followed("create")'
  <2>1. CASE Word("create", req, o, m) = Mute
    BY <1>0, <1>1, <1>2, <1>4, <2>1, HandlerSilent, NewWords
  <2>2. CASE Word("create", req, o, m) = Word("create", req, ch, Head(chan[ch]))
    BY <1>0, <1>1, <1>2, <1>4, <2>2, HandlerSpeaks, NewWords
  <2> QED
    BY <1>4, <2>1, <2>2
<1>5. ASSUME NEW ch \in Chans, Takes(t, ch), NEW id \in 1..Len(req), NEW from, NEW ok, NEW run,
             Answers(id, from, ok, run)
      PROVE  Followed("create")'
  <2>1. req[id].src \in Sources
    BY <1>0, RequestTyped DEF Request
  <2>2. Word("create", req, OutOf(req[id].src), Message(id)) = Mute
    BY <2>1, NewWords
  <2>3. Sends(t, To(OutOf(req[id].src), Message(id)))
    BY <1>5 DEF Answers
  <2> QED
    BY <1>4, <1>5, <2>2, <2>3
<1>6. ASSUME NEW ch \in Chans, Takes(t, ch), UNCHANGED pend
      PROVE  Followed("create")'
  BY <1>0, <1>1, <1>2, <1>6, HandlerSilent, NewWords
<1>7. ASSUME NEW s \in Sources, NEW A, ProcTakesRequest(s, A)
      PROVE  /\ Takes(t, InOf(s)) /\ InOf(s) \in Chans /\ InOf(s) \in InChans
             /\ iReq' = Head(chan[InOf(s)]).id
             /\ iReq' \in 1..Len(req) /\ req[iReq'].act \in A
  <2>1. Takes(t, InOf(s)) /\ iReq' = Head(chan[InOf(s)]).id /\ req[iReq'].act \in A
    BY <1>7 DEF ProcTakesRequest
  <2>2. InOf(s) \in Chans /\ InOf(s) \in InChans
    BY <1>2, NewWords
  <2> QED
    BY <1>0, <1>2, <2>1, <2>2, TakesTyped
<1>8. ASSUME NEW s \in Sources, ProcQuery(s) PROVE Followed("create")'
  <2>1. ProcTakesRequest(s, {"Query"}) /\ Answers(iReq', iReq', TRUE, 0)
    BY <1>8 DEF ProcQuery
  <2> QED
    BY <1>5, <1>7, <2>1
<1>9. ASSUME NEW s \in Sources, ProcCreateRun(s) PROVE Followed("create")'
  <2> DEFINE x == [Message(iReq') EXCEPT !.kind = "pipeline"]
  <2>1. ProcTakesRequest(s, {"Create"}) /\ Sends(t, To("c11", x))
    BY <1>9 DEF ProcCreateRun
  <2>2. x.id = iReq'
    BY DEF Message
  <2> HIDE DEF x
  <2>3. /\ Takes(t, InOf(s)) /\ InOf(s) \in Chans /\ InOf(s) \in InChans
        /\ iReq' = Head(chan[InOf(s)]).id /\ req[iReq'].act = "Create"
    BY <1>7, <2>1
  <2>4. Word("create", req, "c11", x) = Word("create", req, InOf(s), Head(chan[InOf(s)]))
    BY <2>2, <2>3, NewWords
  <2> QED
    BY <1>4, <2>1, <2>3, <2>4
<1>10. ASSUME NEW s \in Sources, ProcForward(s) PROVE Followed("create")'
  <2>1. ProcTakesRequest(s, {"Get", "Update", "Delete"}) /\ Sends(t, To("c13", Message(iReq')))
    BY <1>10 DEF ProcForward
  <2>2. Takes(t, InOf(s)) /\ InOf(s) \in Chans /\ req[iReq'].act # "Create"
    BY <1>7, <2>1
  <2>3. Word("create", req, "c13", Message(iReq')) = Mute
    BY <2>2, MessageId, NewWords
  <2> QED
    BY <1>4, <2>1, <2>2, <2>3
<1>11. CASE ProcPipeline
  <2> DEFINE m  == Head(chan["c12"])
             id == procStore[NonceOf(m.id)]
  <2>1. Takes(t, "c12")
    BY <1>11 DEF ProcPipeline
  <2>2. /\ "c12" \in Chans /\ m.id \in 1..Len(req) /\ NonceOf(m.id) \in Nonce
        /\ id # Absent => id \in 1..Len(req)
    BY <1>0, <1>2, <1>3, <2>1, TakesTyped
  <2>3. \/ UNCHANGED pend
        \/ id # Absent /\ Answers(id, id, FALSE, 0)
        \/ id # Absent /\ req[id].act = "Create"
           /\ \E w \in Workers : Sends(t, To("c13", [Message(id) EXCEPT !.worker = w]))
    BY <1>11 DEF ProcPipeline
  <2>4. id # Absent => NonceOf(id) = NonceOf(m.id)
    BY <1>0, <2>2 DEF Open
  <2> HIDE DEF id
  <2>5. ASSUME id # Absent, req[id].act = "Create", NEW w,
               Sends(t, To("c13", [Message(id) EXCEPT !.worker = w]))
        PROVE  Followed("create")'
    <3> DEFINE x == [Message(id) EXCEPT !.worker = w]
    <3>1. x.id = id /\ Sends(t, To("c13", x))
      BY <2>5 DEF Message
    <3> HIDE DEF x
    <3>2. Word("create", req, "c12", m) = m.id /\ Word("create", req, "c13", x) = id
      BY <2>5, <3>1, NewWords
    <3>3. req[m.id].act = "Create"
      <4>1. m.id \in Begun("create") \cup {Mute}
        BY <1>0, <1>1, <2>1, <2>2, <3>2, HeadTold, NewWords DEF Takes
      <4>2. m.id # Mute
        BY ONLY <2>2 DEF Mute
      <4>3. Begun("create") = {i \in 1..Len(req) : req[i].act = "Create"}
        BY DEF Begun
      <4> QED
        BY <4>1, <4>2, <4>3
    <3>4. id = m.id
      BY <2>2, <2>4, <2>5, <3>3 DEF CreatesApart
    <3> QED
      BY <1>4, <2>1, <2>2, <3>1, <3>2, <3>4
  <2> QED
    BY <1>5, <1>6, <2>1, <2>2, <2>3, <2>5
<1>12. CASE ProcRunnerResponds
  <2> DEFINE id == procStore[NonceOf(iReq)]
  <2>1. Takes(t, "c14") /\ "c14" \in Chans
    BY <1>2, <1>12 DEF ProcRunnerResponds
  <2>2. iReq # Absent => NonceOf(iReq) \in Nonce
    <3>1. iReq \in 0..Len(req) /\ Len(req) \in Nat
      BY <1>0 DEF TypeInv, InFlight, Recorded
    <3> QED
      BY <1>0, <3>1, RequestTyped DEF Absent
  <2>3. \/ UNCHANGED pend
        \/ iReq # Absent /\ id # Absent /\ \E from, ok, run : Answers(id, from, ok, run)
    BY <1>12 DEF ProcRunnerResponds, procVars
  <2> HIDE DEF id
  <2>4. iReq # Absent /\ id # Absent => id \in 1..Len(req)
    BY <1>3, <2>2 DEF id
  <2> QED
    BY <1>5, <1>6, <2>1, <2>3, <2>4
<1> QED
  BY <1>8, <1>9, <1>10, <1>11, <1>12 DEF ProcessorThread

\* The runner records the run of a creation when the pipeline is there; what it stored is
\* the creation the response is about.
LEMMA RunnerPlaced ==
  ASSUME TrailInv, TypeInv', Placings, CreatesApart, Followed("create"), RunnerThread
  PROVE  Followed("create")'
<1> DEFINE t == "runner"
<1>0. TypeInv /\ OwnNonce
  BY DEF TrailInv, Trail
<1>1. UNCHANGED <<req, Begun("create")>>
  <2>1. UNCHANGED req
    BY Zenon DEF RunnerThread, RunnerGetRun, RunnerCreateRun, RunnerUpdateRun, RunnerDeleteRun,
                 RunnerTakes, RunnerDatabaseResponds, RunnerSocketResponds, clientVars
  <2> QED
    BY <2>1 DEF Begun
<1>2. t \in Threads /\ {"c10", "c13", "c15", "c16"} \subseteq Chans
  BY DEF Threads, Chans, OutChans
<1>3. \A m : Word("create", req, "c9", m) = Mute /\ Word("create", req, "c14", m) = Mute
  BY NewWords DEF Quiet
<1>4. ASSUME NEW ch \in Chans, Takes(t, ch), UNCHANGED runs \/ \E r, s : SetStatus(r, s),
             \/ UNCHANGED pend
             \/ \E x : Sends(t, Reply(x)) \/ Sends(t, Reply(x) \o Reply(x)) \/ Sends(t, To("c9", x))
             \/ \E x : x.kind = "statistic" /\ Sends(t, To("c15", x))
      PROVE  Followed("create")'
  <2>1. UNCHANGED Kept("create")
    BY <1>0, <1>4, KeptStays
  <2>2. ASSUME NEW o, NEW x, Word("create", req, o, x) = Mute,
               Sends(t, To(o, x)) \/ Sends(t, To(o, x) \o To(o, x))
        PROVE  Followed("create")'
    BY <1>0, <1>1, <1>2, <1>4, <2>1, <2>2, HandlerSilent, NewWords
  <2>3. CASE UNCHANGED pend
    BY <1>0, <1>1, <1>2, <1>4, <2>1, <2>3, HandlerSilent, NewWords
  <2>4. ASSUME NEW x, Sends(t, Reply(x)) \/ Sends(t, Reply(x) \o Reply(x)) \/ Sends(t, To("c9", x))
        PROVE  Followed("create")'
    BY <1>3, <2>2, <2>4 DEF Reply
  <2>5. ASSUME NEW x, x.kind = "statistic", Sends(t, To("c15", x)) PROVE Followed("create")'
    BY <2>2, <2>5, NewWords
  <2> QED
    BY <1>4, <2>3, <2>4, <2>5
<1>6. RunnerGetRun \/ RunnerCreateRun \/ RunnerUpdateRun \/ RunnerDeleteRun => Takes(t, "c13")
  BY Zenon DEF RunnerGetRun, RunnerCreateRun, RunnerUpdateRun, RunnerDeleteRun, RunnerTakes
<1>7. CASE RunnerGetRun
  <2>1. UNCHANGED runs /\ (UNCHANGED pend \/ \E x : Sends(t, Reply(x)))
    BY <1>7 DEF RunnerGetRun, RunnerPanics, GetReply, runVars
  <2> QED
    BY <1>2, <1>4, <1>6, <1>7, <2>1
<1>8. CASE RunnerCreateRun
  <2> DEFINE m == Head(chan["c13"])
             x == [Message(m.id) EXCEPT !.kind = "pipeline"]
  <2>1. Sends(t, To("c15", x)) /\ UNCHANGED runs /\ req[m.id].act = "Create"
    BY <1>8 DEF RunnerCreateRun, RunnerTakes
  <2>2. x.kind = "pipeline" /\ x.id = m.id
    BY DEF Message
  <2> HIDE DEF x, m
  <2>3. Word("create", req, "c15", x) = m.id
    BY <2>2, NewWords
  <2>4. Word("create", req, "c13", m) = m.id
    BY <2>1, NewWords
  <2>5. Word("create", req, "c15", x) = Word("create", req, "c13", Head(chan["c13"]))
    BY <2>3, <2>4 DEF m
  <2>6. UNCHANGED Kept("create")
    BY <1>0, <2>1, KeptStays
  <2> QED
    BY <1>0, <1>1, <1>2, <1>6, <1>8, <2>1, <2>5, <2>6, HandlerSpeaks, NewWords
<1>9. CASE RunnerUpdateRun
  <2>1. UNCHANGED runs \/ \E r, s : SetStatus(r, s)
    BY <1>9 DEF RunnerUpdateRun, RunnerPanics, runVars
  <2>2. \A id, r, w : Ask(id, "statistic", r, w).kind = "statistic"
    BY DEF Ask
  <2>3. \/ UNCHANGED pend
        \/ \E x : Sends(t, Reply(x))
        \/ \E id, r, w : Sends(t, To("c15", Ask(id, "statistic", r, w)))
    BY <1>9 DEF RunnerUpdateRun, RunnerPanics
  <2> QED
    BY <1>2, <1>4, <1>6, <1>9, <2>1, <2>2, <2>3
<1>10. CASE RunnerDeleteRun
  <2>1. UNCHANGED runs \/ \E r, s : SetStatus(r, s)
    BY <1>10 DEF RunnerDeleteRun, RunnerPanics, runVars
  <2>2. \/ UNCHANGED pend
        \/ \E x : Sends(t, Reply(x) \o Reply(x))
        \/ \E x : Sends(t, To("c9", x))
    BY <1>10 DEF RunnerDeleteRun, RunnerPanics
  <2> QED
    BY <1>2, <1>4, <1>6, <1>10, <2>1, <2>2
<1>11. CASE RunnerDatabaseResponds
  <2> DEFINE m   == Head(chan["c16"])
             n   == NonceOf(m.id)
             e   == runStore[n]
             rec == [worker |-> e.worker, for |-> e.id, status |-> "created"]
  <2>1. Takes(t, "c16")
    BY <1>11 DEF RunnerDatabaseResponds
  <2>2. \/ UNCHANGED <<runs, pend>>
        \/ UNCHANGED runs /\ \E x : Sends(t, Reply(x))
        \/ /\ e.id # Absent /\ m.kind # "statistic" /\ runs' = Append(runs, rec)
           /\ \E x : Sends(t, Reply(x)) \/ Sends(t, To("c9", x))
    BY <1>11 DEF RunnerDatabaseResponds, Resolve, runVars
  <2>3. ASSUME e.id # Absent, m.kind # "statistic", runs' = Append(runs, rec),
               \E x : Sends(t, Reply(x)) \/ Sends(t, To("c9", x))
        PROVE  Followed("create")'
    <3> DEFINE y == IF e.worker \in Workers THEN e.id ELSE Mute
    <3>1. /\ n \in Nonce /\ m.id \in 1..Len(req) /\ e \in EntryOf(Len(req))
          /\ Len(req) \in Nat /\ e.id \in 1..Len(req)
      <4>1. n \in Nonce /\ m.id \in 1..Len(req) /\ Len(req) \in Nat
        BY <1>0, <1>2, <2>1, TakesTyped DEF TypeInv, Recorded
      <4>2. e \in EntryOf(Len(req))
        BY <1>0, <4>1 DEF TypeInv, InFlight
      <4> QED
        BY <2>3, <4>1, <4>2 DEF EntryOf, Absent
    <3>2. Word("create", req, "c16", m) = m.id
      BY <2>3, NewWords
    <3>3. req[m.id].act = "Create"
      <4>1. m.id \in Begun("create") \cup {Mute}
        BY <1>0, <1>1, <1>2, <2>1, <3>2, HeadTold, NewWords DEF Takes
      <4>2. m.id # Mute
        BY ONLY <3>1 DEF Mute
      <4>3. Begun("create") = {i \in 1..Len(req) : req[i].act = "Create"}
        BY DEF Begun
      <4> QED
        BY <4>1, <4>2, <4>3
    <3>4. e.worker \in Workers => e.id = m.id
      <4>1. NonceOf(e.id) = NonceOf(m.id)
        BY <1>0, <2>3, <3>1 DEF OwnNonce
      <4>2. e.worker \in Workers => req[e.id].act = "Create"
        BY <3>1 DEF Placings
      <4> QED
        BY <3>1, <3>3, <4>1, <4>2 DEF CreatesApart
    <3>5. y \in Int
      BY <3>1 DEF Mute
    <3>6. rec.worker = e.worker /\ rec.for = e.id
      OBVIOUS
    <3> HIDE DEF rec, e, m
    <3>7. Kept("create")' = Append(Kept("create"), y)
      BY <1>0, <2>3, <3>5, <3>6, KeptGrows
    <3>8. y = Mute \/ y = Word("create", req, "c16", m)
      BY <3>2, <3>4
    <3> HIDE DEF y
    <3>9. y = Mute \/ y = Word("create", req, "c16", Head(chan["c16"]))
      BY <3>8 DEF m
    <3>10. ASSUME NEW o, NEW x, Sends(t, To(o, x)), Word("create", req, o, x) = Mute
           PROVE  Followed("create")'
      BY <1>0, <1>1, <1>2, <2>1, <3>5, <3>7, <3>9, <3>10, HandlerKeeps, NewWords
    <3> QED
      BY <1>3, <2>3, <3>10 DEF Reply
  <2> QED
    BY <1>2, <1>4, <2>1, <2>2, <2>3
<1>12. CASE RunnerSocketResponds
  <2>1. Takes(t, "c10")
    BY <1>12 DEF RunnerSocketResponds
  <2>2. UNCHANGED runs \/ \E r, s : SetStatus(r, s)
    BY <1>12 DEF RunnerSocketResponds, runVars
  <2>3. UNCHANGED pend \/ \E x : Sends(t, Reply(x))
    BY <1>12 DEF RunnerSocketResponds, Resolve
  <2> QED
    BY <1>2, <1>4, <2>1, <2>2, <2>3
<1> QED
  BY <1>7, <1>8, <1>9, <1>10, <1>11, <1>12 DEF RunnerThread

\* The database thread hands creations on; the socket thread has none.
LEMMA ServedPlaced ==
  ASSUME TypeInv, TypeInv', Followed("create"),
         DatabaseServesProcessor \/ DatabaseServesRunner \/ SocketServesRunner
  PROVE  Followed("create")'
<1>1. /\ {"database", "socket"} \subseteq Threads /\ {"c9", "c11", "c15"} \subseteq Chans
      /\ "c10" \in Quiet
  BY DEF Threads, Chans, OutChans, Quiet
<1>2. UNCHANGED <<req, Kept("create"), Begun("create")>>
  <2>1. UNCHANGED <<req, runs>>
    BY DEF DatabaseServesProcessor, DatabaseServesRunner, SocketServesRunner, clientVars, runVars
  <2> QED
    BY <2>1 DEF Kept, Begun
<1>3. ASSUME NEW ch, NEW ok \in BOOLEAN, NEW x, x = [Head(chan[ch]) EXCEPT !.ok = ok],
             ch \in Chans, Takes("database", ch)
      PROVE  x.id = Head(chan[ch]).id /\ x.kind = Head(chan[ch]).kind
  <2>1. Head(chan[ch]) \in MsgOf(Len(req))
    BY <1>1, <1>3, TakesTyped
  <2> QED
    BY <1>3, <2>1 DEF MsgOf
<1>4. CASE DatabaseServesProcessor
  <2>1. PICK ok \in BOOLEAN : Sends("database", To("c12", [Head(chan["c11"]) EXCEPT !.ok = ok]))
    BY <1>4 DEF DatabaseServesProcessor
  <2> DEFINE x == [Head(chan["c11"]) EXCEPT !.ok = ok]
  <2>2. Takes("database", "c11")
    BY <1>4 DEF DatabaseServesProcessor
  <2>3. x.id = Head(chan["c11"]).id /\ Sends("database", To("c12", x))
    BY <1>1, <1>3, <2>1, <2>2
  <2> HIDE DEF x
  <2>4. Word("create", req, "c12", x) = Word("create", req, "c11", Head(chan["c11"]))
    BY <2>3, NewWords
  <2> QED
    BY <1>1, <1>2, <2>2, <2>3, <2>4, HandlerSpeaks, NewWords
<1>5. CASE DatabaseServesRunner
  <2>1. PICK ok \in BOOLEAN : Sends("database", To("c16", [Head(chan["c15"]) EXCEPT !.ok = ok]))
    BY <1>5 DEF DatabaseServesRunner
  <2> DEFINE x == [Head(chan["c15"]) EXCEPT !.ok = ok]
  <2>2. Takes("database", "c15")
    BY <1>5 DEF DatabaseServesRunner
  <2>3. x.id = Head(chan["c15"]).id /\ x.kind = Head(chan["c15"]).kind /\ Sends("database", To("c16", x))
    BY <1>1, <1>3, <2>1, <2>2
  <2> HIDE DEF x
  <2>4. Word("create", req, "c16", x) = Word("create", req, "c15", Head(chan["c15"]))
    BY <2>3, NewWords
  <2> QED
    BY <1>1, <1>2, <2>2, <2>3, <2>4, HandlerSpeaks, NewWords
<1>6. CASE SocketServesRunner
  <2>1. Takes("socket", "c9") /\ \E x : Sends("socket", To("c10", x))
    BY <1>6 DEF SocketServesRunner
  <2>2. \A x : Word("create", req, "c10", x) = Mute
    BY <1>1, NewWords
  <2> QED
    BY <1>1, <1>2, <2>1, <2>2, HandlerSilent, NewWords
<1> QED
  BY <1>4, <1>5, <1>6

\* A creation begins when it is asked for.
LEMMA ClientsPlaced ==
  ASSUME TypeInv, TypeInv', Followed("create"), Clients
  PROVE  Followed("create")'
<1>1. ASSUME NEW s \in Sources, NEW act, NEW run, NEW rep, Issue(s, act, run, rep)
      PROVE  Followed("create")'
  <2> DEFINE n == Len(req) + 1
             x == Word("create", req', InOf(s), Message(n))
  <2>1. /\ req'[n].act = act /\ Len(req) \in Nat /\ Len(req') = n
        /\ \A id \in 1..Len(req) : req'[id] = req[id]
    BY <1>1 DEF Issue, TypeInv, Recorded
  <2>2. x = IF act = "Create" THEN n ELSE Mute
    BY <2>1, NewWords, MessageId
  <2>3. /\ Begun("create") = {i \in 1..Len(req) : req[i].act = "Create"}
        /\ Begun("create")' = {i \in 1..Len(req') : req'[i].act = "Create"}
    BY DEF Begun
  <2>4. Begun("create") \subseteq Begun("create")'
    BY <2>1, <2>3
  <2>5. act = "Create" => n \in Begun("create")' \ Begun("create")
    BY <2>1, <2>3
  <2>6. x \in Int
    BY <2>1, <2>2 DEF Mute
  <2>7. UNCHANGED Kept("create")
    BY <1>1 DEF Issue, runVars, Kept
  <2> HIDE DEF x
  <2>8. x = Mute \/ x \in Begun("create")' \ Begun("create")
    BY <2>2, <2>5
  <2>9. x = Word("create", req', InOf(s), Message(Len(req) + 1))
    BY DEF x
  <2> QED
    BY <1>1, <2>4, <2>6, <2>7, <2>8, <2>9, IssueTold, NewWords
<1>2. \/ \E s \in Sources : \E act, run, rep : Issue(s, act, run, rep)
      \/ \E ch \in {"c6", "c8", "c19"} : ClientReceives(ch)
  BY DEF Clients, IssueQuery, IssueCreateRun, IssueGetRun, IssueStopRun, WorkerReports, Sources
<1> QED
  BY <1>1, <1>2, ReceiptTold, NewWords

\* Only creations are stored for a worker.
LEMMA StepPlacings ==
  ASSUME TypeInv, TypeInv', Placings, [Next]_vars
  PROVE  Placings'
<1>1. /\ runStore \in [Nonce -> EntryOf(Len(req))] /\ Len(req) \in Nat
      /\ \A id \in 1..Len(req) : req'[id] = req[id]
  BY RequestsStay DEF TypeInv, InFlight
<1>2. ASSUME NEW n \in Nonce, runStore'[n] = runStore[n] \/ runStore'[n].worker = NoWorker
      PROVE  runStore'[n].worker \in Workers =>
               runStore'[n].id # Absent /\ req'[runStore'[n].id].act = "Create"
  <2> SUFFICES ASSUME runStore'[n].worker \in Workers
               PROVE  runStore'[n].id # Absent /\ req'[runStore'[n].id].act = "Create"
    OBVIOUS
  <2>1. runStore'[n] = runStore[n]
    BY <1>2, RunControlAssumption
  <2>2. runStore[n].id # Absent /\ req[runStore[n].id].act = "Create"
    BY <2>1 DEF Placings
  <2>3. runStore[n].id \in 1..Len(req)
    BY <1>1, <2>2 DEF EntryOf, Absent
  <2> QED
    BY <1>1, <2>1, <2>2, <2>3
<1>3. ASSUME \A n \in Nonce : runStore'[n] = runStore[n] \/ runStore'[n].worker = NoWorker
      PROVE  Placings'
  BY <1>2, <1>3 DEF Placings
<1>4. ASSUME NEW k, NEW id, runStore' = [runStore EXCEPT ![k] = [id |-> id, worker |-> NoWorker]]
      PROVE  Placings'
  <2>1. \A n \in Nonce : runStore'[n] = runStore[n] \/ runStore'[n].worker = NoWorker
    BY <1>1, <1>4
  <2> QED
    BY <1>3, <2>1
<1>5. CASE UNCHANGED runStore
  BY <1>3, <1>5
<1>6. UNCHANGED vars => UNCHANGED runStore
  BY Zenon DEF vars
<1>7. Clients => UNCHANGED runStore
  BY DEF Clients, IssueQuery, IssueCreateRun, IssueGetRun, IssueStopRun, WorkerReports,
         ClientReceives, Issue, runVars
<1>8. ProcessorThread => UNCHANGED runStore
  BY Zenon DEF ProcessorThread, ProcQuery, ProcCreateRun, ProcForward, ProcPipeline,
         ProcRunnerResponds, runVars
<1>9. DatabaseServesProcessor \/ DatabaseServesRunner \/ SocketServesRunner => UNCHANGED runStore
  BY Zenon DEF DatabaseServesProcessor, DatabaseServesRunner, SocketServesRunner, runVars
<1>10. (\E t \in Threads : Flush(t)) => UNCHANGED runStore
  BY Zenon DEF Flush, runVars
<1>11. CASE RunnerCreateRun
  <2> DEFINE m == Head(chan["c13"])
  <2>1. /\ m.id \in 1..Len(req) /\ req[m.id].act = "Create"
        /\ runStore' = [runStore EXCEPT ![NonceOf(m.id)] = [id |-> m.id, worker |-> m.worker]]
    BY <1>11, RunnerTakesTyped DEF RunnerCreateRun, RunnerTakes
  <2> HIDE DEF m
  <2>2. \A n \in Nonce : runStore'[n] = runStore[n] \/ runStore'[n].id = m.id
    BY <1>1, <2>1
  <2>3. ASSUME NEW n \in Nonce, runStore'[n].worker \in Workers
        PROVE  runStore'[n].id # Absent /\ req'[runStore'[n].id].act = "Create"
    <3>1. CASE runStore'[n] = runStore[n]
      BY <1>2, <2>3, <3>1
    <3>2. CASE runStore'[n].id = m.id
      BY <1>1, <2>1, <3>2 DEF Absent
    <3> QED
      BY <2>2, <3>1, <3>2
  <2> QED
    BY <2>3 DEF Placings
<1>12. CASE RunnerGetRun
  BY <1>5, <1>12 DEF RunnerGetRun, RunnerPanics, runVars
<1>13. CASE RunnerUpdateRun
  BY <1>4, <1>5, <1>13 DEF RunnerUpdateRun, RunnerPanics, runVars
<1>14. CASE RunnerDeleteRun
  BY <1>4, <1>5, <1>14 DEF RunnerDeleteRun, RunnerPanics, runVars
<1>15. CASE RunnerDatabaseResponds \/ RunnerSocketResponds
  BY <1>4, <1>5, <1>15 DEF RunnerDatabaseResponds, RunnerSocketResponds, Resolve, NoEntry, runVars
<1> QED
  BY <1>5, <1>6, <1>7, <1>8, <1>9, <1>10, <1>11, <1>12, <1>13, <1>14, <1>15 DEF Next, RunnerThread

LEMMA StepPlaced ==
  ASSUME OnceInv, TrailInv, Placings, CreatesApart => Followed("create"), [Next]_vars
  PROVE  (CreatesApart => Followed("create"))'
<1> SUFFICES ASSUME CreatesApart' PROVE Followed("create")'
  OBVIOUS
<1>1. TypeInv /\ TypeInv'
  BY StepTyped DEF TrailInv
<1>2. CreatesApart
  <2>1. \A id \in 1..Len(req) : req'[id] = req[id] /\ id \in 1..Len(req')
    BY <1>1, RequestsStay
  <2> QED
    BY <2>1 DEF CreatesApart, NonceOf
<1>3. CASE UNCHANGED vars
  BY <1>2, <1>3 DEF vars, Followed, Told, Kept, Begun, Track, Heard, Meant
<1>4. CASE Next
  BY <1>1, <1>2, <1>4, ClientsPlaced, ProcessorPlaced, RunnerPlaced, ServedPlaced, FlushTold, NewWords
  DEF Next
<1> QED
  BY <1>3, <1>4

\* The creations that were assigned to worker w: on the way to the runner, in its store, or
\* recorded.  NumOfRuns counts them all.
Assigned(w) ==
  {id \in Ids :
     \/ \E m \in Carried["c13"] : m.id = id /\ m.worker = w
     \/ \E n \in Nonce : runStore[n].id = id /\ runStore[n].worker = w
     \/ \E r \in 1..Len(runs) : runs[r].for = id /\ runs[r].worker = w}
Charged == \A w \in Workers : Cardinality(Assigned(w)) <= load[w]

LEMMA AssignedFinite == \A w : IsFiniteSet(Assigned(w))
<1> TAKE w
<1>1. MaxRequests \in Int /\ Ids = 1..MaxRequests
  BY RunControlAssumption DEF Ids
<1>2. IsFiniteSet(Ids)
  BY <1>1, FS_Interval
<1>3. Assigned(w) \in SUBSET Ids
  BY DEF Assigned
<1> QED
  BY <1>2, <1>3, FS_Subset

\* One more at most is assigned to a worker, and then one more is counted.
LEMMA CountedOne ==
  ASSUME TypeInv, TypeInv', Charged,
         \A w \in Workers :
           \/ Assigned(w)' \subseteq Assigned(w) /\ load'[w] = load[w]
           \/ \E id : Assigned(w)' \subseteq Assigned(w) \cup {id} /\ load'[w] = load[w] + 1
  PROVE  Charged'
<1> SUFFICES ASSUME NEW w \in Workers PROVE Cardinality(Assigned(w)') <= load'[w]
  BY DEF Charged
<1> DEFINE S == Assigned(w)
           T == Assigned(w)'
<1>1. Cardinality(S) <= load[w] /\ load[w] \in Nat /\ load'[w] \in Nat
  BY DEF Charged, TypeInv, Recorded
<1>2. IsFiniteSet(S) /\ Cardinality(S) \in Nat
  BY AssignedFinite, FS_CardinalityType
<1> HIDE DEF S, T
<1>3. CASE T \subseteq S /\ load'[w] = load[w]
  <2>1. IsFiniteSet(T) /\ Cardinality(T) <= Cardinality(S)
    BY <1>2, <1>3, FS_Subset
  <2>2. Cardinality(T) \in Nat
    BY <2>1, FS_CardinalityType
  <2>3. Cardinality(T) <= load'[w]
    BY ONLY <1>1, <1>2, <1>3, <2>1, <2>2
  <2> QED
    BY <2>3 DEF T
<1>4. ASSUME NEW id, T \subseteq S \cup {id}, load'[w] = load[w] + 1
      PROVE  Cardinality(T) <= load'[w]
  <2>1. IsFiniteSet(S \cup {id}) /\ (Cardinality(S \cup {id}) = Cardinality(S) \/ Cardinality(S \cup {id}) = Cardinality(S) + 1)
    BY <1>2, FS_AddElement
  <2>2. IsFiniteSet(T) /\ Cardinality(T) <= Cardinality(S \cup {id})
    BY <1>4, <2>1, FS_Subset
  <2>3. Cardinality(T) \in Nat
    BY <2>2, FS_CardinalityType
  <2> QED
    BY ONLY <1>1, <1>2, <1>4, <2>1, <2>2, <2>3
<1>5. \/ T \subseteq S /\ load'[w] = load[w]
      \/ \E id : T \subseteq S \cup {id} /\ load'[w] = load[w] + 1
  BY DEF S, T
<1> QED
  BY <1>3, <1>4, <1>5 DEF T

\* What is assigned after a step.
LEMMA AssignedOf ==
  ASSUME TypeInv, TypeInv', NEW w \in Workers, NEW T,
         \A m \in Carried'["c13"] : m.worker = w => m.id \in T,
         \A n \in Nonce : runStore'[n].worker = w /\ runStore'[n].id \in Ids => runStore'[n].id \in T,
         \A r \in 1..Len(runs') : runs'[r].worker = w => runs'[r].for \in T
  PROVE  Assigned(w)' \subseteq T
BY DEF Assigned

LEMMA AssignedBefore ==
  ASSUME TypeInv, NEW w \in Workers
  PROVE  /\ \A m \in Carried["c13"] : m.worker = w => m.id \in Assigned(w)
         /\ \A n \in Nonce : runStore[n].worker = w /\ runStore[n].id \in Ids => runStore[n].id \in Assigned(w)
         /\ \A r \in 1..Len(runs) : runs[r].worker = w => runs[r].for \in Assigned(w)
<1>1. \A m \in Carried["c13"] : m.id \in Ids
  <2>1. "c13" \in OutChans
    BY DEF OutChans
  <2> QED
    BY <2>1, CarriedTyped, RequestTyped
<1>2. \A r \in 1..Len(runs) : runs[r].for \in Ids
  <2> TAKE r \in 1..Len(runs)
  <2>1. runs[r] \in Run
    BY ElementOfSeq DEF TypeInv, Recorded
  <2> QED
    BY <2>1 DEF Run
<1> QED
  BY <1>1, <1>2 DEF Assigned

\* A step that assigns nothing, and is none of the runner's.
LEMMA CountedNone ==
  ASSUME TypeInv, TypeInv', Charged, UNCHANGED <<runStore, runs, load>>,
         \A m \in Carried'["c13"] : m \in Carried["c13"] \/ m.worker \notin Workers
  PROVE  Charged'
<1>1. \A w \in Workers : Assigned(w)' \subseteq Assigned(w)
  <2> TAKE w \in Workers
  <2> DEFINE T == Assigned(w)
  <2>1. \A m \in Carried'["c13"] : m.worker = w => m.id \in T
    BY AssignedBefore
  <2>2. \A n \in Nonce : runStore'[n].worker = w /\ runStore'[n].id \in Ids => runStore'[n].id \in T
    BY AssignedBefore
  <2>3. \A r \in 1..Len(runs') : runs'[r].worker = w => runs'[r].for \in T
    BY AssignedBefore
  <2> HIDE DEF T
  <2>4. Assigned(w)' \subseteq T
    BY <2>1, <2>2, <2>3, AssignedOf
  <2> QED
    BY <2>4 DEF T
<1> QED
  BY <1>1, CountedOne

\* The processor thread assigns the creation it found stored, and counts one run more.
LEMMA ProcessorCharged ==
  ASSUME TypeInv, TypeInv', Charged, ProcessorThread
  PROVE  Charged'
<1> DEFINE t == "processor"
<1>1. UNCHANGED <<runStore, runs>>
  BY Zenon DEF ProcessorThread, ProcQuery, ProcCreateRun, ProcForward, ProcPipeline,
               ProcRunnerResponds, runVars
<1>2. t \in Threads /\ {"c11", "c12", "c13", "c14"} \subseteq OutChans /\ OutChans \subseteq Chans
      /\ \A s \in Sources : InOf(s) \in Chans
  BY ChanNames DEF Threads, Chans, OutChans
<1>3. ASSUME NEW ch \in Chans, Takes(t, ch), UNCHANGED load,
             UNCHANGED pend \/ \E o, x : /\ o \in OutChans
                                         /\ o # "c13" \/ x.worker \notin Workers
                                         /\ Sends(t, To(o, x))
      PROVE  Charged'
  <2>1. CASE UNCHANGED pend
    <3>1. \A m \in Carried'["c13"] : m \in Carried["c13"]
      BY <1>2, <1>3, <2>1, SentNone
    <3> QED
      BY <1>1, <1>3, <3>1, CountedNone
  <2>2. ASSUME NEW o \in OutChans, NEW x, o # "c13" \/ x.worker \notin Workers, Sends(t, To(o, x))
        PROVE  Charged'
    <3>1. \A m \in Carried'["c13"] : m \in Carried["c13"] \/ ("c13" = o /\ m = x)
      BY <1>2, <1>3, <2>2, SentOne
    <3>2. \A m \in Carried'["c13"] : m \in Carried["c13"] \/ m.worker \notin Workers
      BY <2>2, <3>1
    <3> QED
      BY <1>1, <1>3, <3>2, CountedNone
  <2> QED
    BY <1>3, <2>1, <2>2
<1>4. ASSUME NEW ch \in Chans, Takes(t, ch), UNCHANGED load, NEW id, NEW from, NEW ok, NEW run,
             id \in 1..Len(req), Answers(id, from, ok, run)
      PROVE  Charged'
  <2>1. req[id].src \in Sources
    BY <1>4, RequestTyped DEF Request
  <2>2. OutOf(req[id].src) \in OutChans /\ OutOf(req[id].src) # "c13"
    BY <2>1 DEF OutOf, OutChans, Sources
  <2>3. Sends(t, To(OutOf(req[id].src), Message(id)))
    BY <1>4 DEF Answers
  <2> QED
    BY <1>3, <1>4, <2>2, <2>3
<1>5. \A n \in Nonce : procStore[n] # Absent => procStore[n] \in 1..Len(req)
  <2> TAKE n \in Nonce
  <2>1. procStore[n] \in 0..Len(req) /\ Len(req) \in Nat
    BY DEF TypeInv, InFlight, Recorded
  <2> QED
    BY <2>1 DEF Absent
<1>6. ASSUME NEW s \in Sources, ProcQuery(s) \/ ProcCreateRun(s) \/ ProcForward(s)
      PROVE  /\ Takes(t, InOf(s)) /\ InOf(s) \in Chans /\ iReq' = Head(chan[InOf(s)]).id
             /\ iReq' \in 1..Len(req) /\ UNCHANGED load
  <2>1. Takes(t, InOf(s)) /\ iReq' = Head(chan[InOf(s)]).id /\ UNCHANGED load
    BY <1>6 DEF ProcQuery, ProcCreateRun, ProcForward, ProcTakesRequest
  <2> QED
    BY <1>2, <2>1, TakesTyped
<1>7. ASSUME NEW s \in Sources, ProcQuery(s) PROVE Charged'
  <2>1. Answers(iReq', iReq', TRUE, 0)
    BY <1>7 DEF ProcQuery
  <2> QED
    BY <1>4, <1>6, <1>7, <2>1
<1>8. ASSUME NEW s \in Sources, ProcCreateRun(s) PROVE Charged'
  <2>1. Sends(t, To("c11", [Message(iReq') EXCEPT !.kind = "pipeline"]))
    BY <1>8 DEF ProcCreateRun
  <2> QED
    BY <1>2, <1>3, <1>6, <1>8, <2>1
<1>9. ASSUME NEW s \in Sources, ProcForward(s) PROVE Charged'
  <2>1. Sends(t, To("c13", Message(iReq')))
    BY <1>9 DEF ProcForward
  <2>2. Message(iReq').worker \notin Workers
    BY RunControlAssumption DEF Message
  <2> QED
    BY <1>2, <1>3, <1>6, <1>9, <2>1, <2>2
<1>10. CASE ProcPipeline
  <2> DEFINE id == procStore[NonceOf(Head(chan["c12"]).id)]
  <2>1. Takes(t, "c12") /\ "c12" \in Chans
    BY <1>2, <1>10 DEF ProcPipeline
  <2>2. id # Absent => id \in 1..Len(req)
    BY <1>5, <2>1, <1>2, TakesTyped
  <2>3. \/ UNCHANGED load /\ UNCHANGED pend
        \/ UNCHANGED load /\ id # Absent /\ Answers(id, id, FALSE, 0)
        \/ \E w \in Workers : /\ load' = [load EXCEPT ![w] = @ + 1]
                              /\ Sends(t, To("c13", [Message(id) EXCEPT !.worker = w]))
    BY <1>10 DEF ProcPipeline, CountRun
  <2> HIDE DEF id
  <2>4. ASSUME NEW w \in Workers, load' = [load EXCEPT ![w] = @ + 1],
               Sends(t, To("c13", [Message(id) EXCEPT !.worker = w]))
        PROVE  Charged'
    <3> DEFINE x == [Message(id) EXCEPT !.worker = w]
    <3>1. x.id = id /\ x.worker = w /\ Sends(t, To("c13", x))
      BY <2>4 DEF Message
    <3> HIDE DEF x
    <3>2. \A m \in Carried'["c13"] : m \in Carried["c13"] \/ m = x
      BY <1>2, <2>1, <3>1, SentOne
    <3>3. ASSUME NEW v \in Workers PROVE Assigned(v)' \subseteq Assigned(v) \cup (IF v = w THEN {id} ELSE {})
      <4> DEFINE T == Assigned(v) \cup (IF v = w THEN {id} ELSE {})
      <4>1. \A m \in Carried'["c13"] : m.worker = v => m.id \in T
        BY <3>1, <3>2, AssignedBefore
      <4>2. \A n \in Nonce : runStore'[n].worker = v /\ runStore'[n].id \in Ids => runStore'[n].id \in T
        BY <1>1, AssignedBefore
      <4>3. \A r \in 1..Len(runs') : runs'[r].worker = v => runs'[r].for \in T
        BY <1>1, AssignedBefore
      <4> HIDE DEF T
      <4>4. Assigned(v)' \subseteq T
        BY <4>1, <4>2, <4>3, AssignedOf
      <4> QED
        BY <4>4 DEF T
    <3>4. \A v \in Workers : load'[v] = IF v = w THEN load[v] + 1 ELSE load[v]
      BY <2>4 DEF TypeInv, Recorded
    <3>5. \A v \in Workers :
            \/ Assigned(v)' \subseteq Assigned(v) /\ load'[v] = load[v]
            \/ \E i : Assigned(v)' \subseteq Assigned(v) \cup {i} /\ load'[v] = load[v] + 1
      <4> TAKE v \in Workers
      <4>1. CASE v = w
        BY <3>3, <3>4, <4>1
      <4>2. CASE v # w
        BY <3>3, <3>4, <4>2
      <4> QED
        BY <4>1, <4>2
    <3> QED
      BY <3>5, CountedOne
  <2> QED
    BY <1>3, <1>4, <2>1, <2>2, <2>3, <2>4
<1>11. CASE ProcRunnerResponds
  <2> DEFINE id == procStore[NonceOf(iReq)]
  <2>1. Takes(t, "c14") /\ UNCHANGED load /\ "c14" \in Chans
    BY <1>2, <1>11 DEF ProcRunnerResponds, procVars
  <2>2. iReq # Absent => NonceOf(iReq) \in Nonce
    <3>1. iReq \in 0..Len(req) /\ Len(req) \in Nat
      BY DEF TypeInv, InFlight, Recorded
    <3> QED
      BY <3>1, RequestTyped DEF Absent
  <2>3. \/ UNCHANGED pend
        \/ iReq # Absent /\ id # Absent /\ \E from, ok, run : Answers(id, from, ok, run)
    BY <1>11 DEF ProcRunnerResponds, procVars
  <2> HIDE DEF id
  <2>4. iReq # Absent /\ id # Absent => id \in 1..Len(req)
    BY <1>5, <2>2 DEF id
  <2> QED
    BY <1>3, <1>4, <2>1, <2>3, <2>4
<1> QED
  BY <1>7, <1>8, <1>9, <1>10, <1>11 DEF ProcessorThread

\* What the runner stores and records was assigned before.
LEMMA RunnerCharged ==
  ASSUME TypeInv, TypeInv', Charged, RunnerThread
  PROVE  Charged'
<1> DEFINE t == "runner"
           Old(id, w) == w \in Workers => id \in Assigned(w)
<1>1. UNCHANGED load
  BY Zenon DEF RunnerThread, RunnerGetRun, RunnerCreateRun, RunnerUpdateRun, RunnerDeleteRun,
               RunnerTakes, RunnerDatabaseResponds, RunnerSocketResponds, procVars
<1>2. t \in Threads /\ {"c9", "c10", "c13", "c14", "c15", "c16"} \subseteq OutChans /\ OutChans \subseteq Chans
  BY DEF Threads, Chans, OutChans
<1>3. PICK ch \in {"c10", "c13", "c16"} : Takes(t, ch)
  BY ZenonT(40) DEF RunnerThread, RunnerGetRun, RunnerCreateRun, RunnerUpdateRun, RunnerDeleteRun,
     RunnerTakes, RunnerDatabaseResponds, RunnerSocketResponds
<1>4. \/ UNCHANGED pend
      \/ \E o \in {"c9", "c14", "c15"} : \E x : Sends(t, To(o, x))
      \/ \E x : Sends(t, To("c14", x) \o To("c14", x))
  <2>1. RunnerGetRun \/ RunnerCreateRun \/ RunnerUpdateRun =>
          UNCHANGED pend \/ \E o \in {"c9", "c14", "c15"} : \E x : Sends(t, To(o, x))
    BY DEF RunnerGetRun, RunnerCreateRun, RunnerUpdateRun, RunnerPanics, GetReply, Reply
  <2>2. RunnerDeleteRun => \/ UNCHANGED pend
                           \/ \E o \in {"c9", "c14", "c15"} : \E x : Sends(t, To(o, x))
                           \/ \E x : Sends(t, To("c14", x) \o To("c14", x))
    BY DEF RunnerDeleteRun, RunnerPanics, Reply
  <2>3. RunnerDatabaseResponds \/ RunnerSocketResponds =>
          UNCHANGED pend \/ \E o \in {"c9", "c14", "c15"} : \E x : Sends(t, To(o, x))
    BY DEF RunnerDatabaseResponds, RunnerSocketResponds, Resolve, Reply
  <2> QED
    BY <2>1, <2>2, <2>3 DEF RunnerThread
<1>5. \A m \in Carried'["c13"] : m \in Carried["c13"]
  <2>1. CASE UNCHANGED pend
    BY <1>2, <1>3, <2>1, SentNone
  <2>2. ASSUME NEW o \in {"c9", "c14", "c15"}, NEW x, Sends(t, To(o, x))
        PROVE  \A m \in Carried'["c13"] : m \in Carried["c13"]
    BY <1>2, <1>3, <2>2, SentOne
  <2>3. ASSUME NEW x, Sends(t, To("c14", x) \o To("c14", x))
        PROVE  \A m \in Carried'["c13"] : m \in Carried["c13"]
    <3> DEFINE ms == To("c14", x) \o To("c14", x)
    <3>1. Sends(t, ms) /\ \A i \in 1..Len(ms) : ms[i].ch = "c14"
      BY <2>3, Twice
    <3> HIDE DEF ms
    <3>2. \A i \in 1..Len(ms) : \A m : ms[i] # [ch |-> "c13", msg |-> m]
      BY <3>1
    <3>3. \A m \in Carried'["c13"] :
            m \in Carried["c13"] \/ \E i \in 1..Len(ms) : ms[i] = [ch |-> "c13", msg |-> m]
      BY <1>2, <1>3, <3>1, Handled
    <3> QED
      BY ONLY <3>2, <3>3
  <2> QED
    BY <1>4, <2>1, <2>2, <2>3
<1>6. \A w \in Workers : \A m \in Carried'["c13"] : m.worker = w => m.id \in Assigned(w)
  BY <1>5, AssignedBefore
<1>7. runStore \in [Nonce -> EntryOf(Len(req))] /\ runs \in Seq(Run) /\ Len(runs) \in Nat
  BY DEF TypeInv, InFlight, Recorded
<1>8. \A n \in Nonce : \/ runStore'[n] = runStore[n]
                       \/ runStore'[n].worker = NoWorker
                       \/ \E m \in Carried["c13"] : runStore'[n] = [id |-> m.id, worker |-> m.worker]
  <2>1. ASSUME NEW k, NEW id, runStore' = [runStore EXCEPT ![k] = [id |-> id, worker |-> NoWorker]]
        PROVE  \A n \in Nonce : runStore'[n] = runStore[n] \/ runStore'[n].worker = NoWorker
    BY <1>7, <2>1
  <2>2. CASE RunnerCreateRun
    <3> DEFINE m == Head(chan["c13"])
    <3>1. /\ Takes(t, "c13")
          /\ runStore' = [runStore EXCEPT ![NonceOf(m.id)] = [id |-> m.id, worker |-> m.worker]]
          /\ Sends(t, To("c15", [Message(m.id) EXCEPT !.kind = "pipeline"]))
      BY <2>2 DEF RunnerCreateRun, RunnerTakes
    <3>2. m \in Carried["c13"]
      BY <1>2, <3>1, SentOne
    <3> HIDE DEF m
    <3> QED
      BY <1>7, <3>1, <3>2
  <2>3. CASE RunnerGetRun
    BY <2>3 DEF RunnerGetRun, RunnerPanics, runVars
  <2>4. CASE RunnerUpdateRun
    BY <2>1, <2>4 DEF RunnerUpdateRun, RunnerPanics, runVars
  <2>5. CASE RunnerDeleteRun
    BY <2>1, <2>5 DEF RunnerDeleteRun, RunnerPanics, runVars
  <2>6. CASE RunnerDatabaseResponds \/ RunnerSocketResponds
    BY <2>1, <2>6 DEF RunnerDatabaseResponds, RunnerSocketResponds, Resolve, NoEntry, runVars
  <2> QED
    BY <2>2, <2>3, <2>4, <2>5, <2>6 DEF RunnerThread
<1>9. \A w \in Workers : \A n \in Nonce :
        runStore'[n].worker = w /\ runStore'[n].id \in Ids => runStore'[n].id \in Assigned(w)
  <2> TAKE w \in Workers
  <2> TAKE n \in Nonce
  <2>1. CASE runStore'[n] = runStore[n]
    BY <2>1, AssignedBefore
  <2>2. CASE runStore'[n].worker = NoWorker
    BY <2>2, RunControlAssumption
  <2>3. ASSUME NEW m \in Carried["c13"], runStore'[n] = [id |-> m.id, worker |-> m.worker]
        PROVE  runStore'[n].worker = w => runStore'[n].id \in Assigned(w)
    BY <2>3, AssignedBefore
  <2> QED
    BY <1>8, <2>1, <2>2, <2>3
<1>10. \/ \A r \in 1..Len(runs') : /\ r \in 1..Len(runs)
                                   /\ runs'[r].worker = runs[r].worker /\ runs'[r].for = runs[r].for
       \/ \E n \in Nonce : \E s :
            /\ runStore[n].id \in Ids
            /\ runs' = Append(runs, [worker |-> runStore[n].worker, for |-> runStore[n].id, status |-> s])
  <2>1. ASSUME NEW r, NEW s, SetStatus(r, s)
        PROVE  \A i \in 1..Len(runs') : /\ i \in 1..Len(runs)
                                        /\ runs'[i].worker = runs[i].worker /\ runs'[i].for = runs[i].for
    <3>1. runs' = [runs EXCEPT ![r].status = s]
      BY <2>1 DEF SetStatus
    <3>2. Len(runs') = Len(runs)
      BY <1>7, <3>1
    <3> TAKE i \in 1..Len(runs')
    <3>3. runs[i] \in Run /\ i \in 1..Len(runs)
      BY <1>7, <3>2, ElementOfSeq
    <3>4. runs'[i] = IF i = r THEN [runs[i] EXCEPT !.status = s] ELSE runs[i]
      BY <1>7, <3>1, <3>3
    <3> QED
      BY <3>3, <3>4 DEF Run
  <2>2. CASE UNCHANGED runs
    BY <2>2
  <2>3. CASE RunnerDatabaseResponds /\ runs' # runs
    <3> DEFINE n == NonceOf(Head(chan["c16"]).id)
    <3>1. /\ Takes(t, "c16") /\ runStore[n].id # Absent
          /\ runs' = Append(runs, [worker |-> runStore[n].worker, for |-> runStore[n].id, status |-> "created"])
      BY <2>3 DEF RunnerDatabaseResponds, runVars
    <3>2. n \in Nonce /\ runStore[n] \in EntryOf(Len(req)) /\ Len(req) \in Nat
      BY <1>2, <1>7, <3>1, TakesTyped DEF TypeInv, Recorded
    <3> HIDE DEF n
    <3>3. runStore[n].id \in 1..Len(req)
      BY <3>1, <3>2 DEF EntryOf, Absent
    <3>4. runStore[n].id \in Ids
      BY <3>3, RequestTyped
    <3> QED
      BY <3>1, <3>2, <3>4
  <2>4. RunnerThread => UNCHANGED runs \/ RunnerDatabaseResponds \/ \E r, s : SetStatus(r, s)
    BY Zenon DEF RunnerThread, RunnerGetRun, RunnerCreateRun, RunnerUpdateRun, RunnerDeleteRun,
           RunnerSocketResponds, RunnerPanics, runVars
  <2> QED
    BY <2>1, <2>2, <2>3, <2>4
<1>11. \A w \in Workers : \A r \in 1..Len(runs') : runs'[r].worker = w => runs'[r].for \in Assigned(w)
  <2> TAKE w \in Workers
  <2> TAKE r \in 1..Len(runs')
  <2>1. CASE \A i \in 1..Len(runs') : /\ i \in 1..Len(runs)
                                      /\ runs'[i].worker = runs[i].worker /\ runs'[i].for = runs[i].for
    BY <2>1, AssignedBefore
  <2>2. ASSUME NEW n \in Nonce, NEW s, runStore[n].id \in Ids,
               runs' = Append(runs, [worker |-> runStore[n].worker, for |-> runStore[n].id, status |-> s])
        PROVE  runs'[r].worker = w => runs'[r].for \in Assigned(w)
    <3>1. \/ r \in 1..Len(runs) /\ runs'[r] = runs[r]
          \/ runs'[r].worker = runStore[n].worker /\ runs'[r].for = runStore[n].id
      BY <1>7, <2>2
    <3> QED
      BY <2>2, <3>1, AssignedBefore
  <2> QED
    BY <1>10, <2>1, <2>2
<1>12. \A w \in Workers : Assigned(w)' \subseteq Assigned(w) /\ load'[w] = load[w]
  <2> TAKE w \in Workers
  <2> DEFINE T == Assigned(w)
  <2>1. /\ \A m \in Carried'["c13"] : m.worker = w => m.id \in T
        /\ \A n \in Nonce : runStore'[n].worker = w /\ runStore'[n].id \in Ids => runStore'[n].id \in T
        /\ \A r \in 1..Len(runs') : runs'[r].worker = w => runs'[r].for \in T
    BY <1>6, <1>9, <1>11
  <2> HIDE DEF T
  <2>2. Assigned(w)' \subseteq T
    BY <2>1, AssignedOf
  <2> QED
    BY <1>1, <2>2 DEF T
<1> QED
  BY <1>12, CountedOne

\* Whoever else moves assigns nothing.
LEMMA StepCharged ==
  ASSUME TypeInv, TypeInv', Charged, [Next]_vars
  PROVE  Charged'
<1>1. /\ Threads = {"processor", "runner", "socket", "database"}
      /\ {"c10", "c12", "c13", "c16"} \subseteq OutChans /\ {"c9", "c11", "c15"} \subseteq Chans
  BY DEF Threads, Chans, OutChans
<1>2. CASE UNCHANGED vars
  <2>1. UNCHANGED <<runStore, runs, load>> /\ UNCHANGED pend /\ chan'["c13"] = chan["c13"]
    BY <1>2 DEF vars
  <2>2. \A m \in Carried'["c13"] : m \in Carried["c13"]
    BY <1>1, <2>1, LeftAlone
  <2> QED
    BY <2>1, <2>2, CountedNone
<1>3. CASE Clients
  <2>1. UNCHANGED <<runStore, runs, load>> /\ UNCHANGED pend
    BY <1>3 DEF Clients, IssueQuery, IssueCreateRun, IssueGetRun, IssueStopRun, WorkerReports,
                ClientReceives, Issue, procVars, runVars
  <2>2. chan'["c13"] = chan["c13"]
    <3>1. chan \in [Chans -> Seq(MsgOf(Len(req)))] /\ "c13" \in Chans
      BY <1>1 DEF TypeInv, InFlight, Chans
    <3>2. /\ \A s \in Sources : InOf(s) # "c13"
          /\ "HttpClient" \in Sources /\ "Socket" \in Sources
      BY DEF InOf, Sources
    <3>3. \/ \E s \in Sources : \E x : chan' = [chan EXCEPT ![InOf(s)] = x]
          \/ \E ch \in {"c6", "c8", "c19"} : \E x : chan' = [chan EXCEPT ![ch] = x]
      BY <1>3, <3>2 DEF Clients, IssueQuery, IssueCreateRun, IssueGetRun, IssueStopRun, WorkerReports,
                  ClientReceives, Issue
    <3> QED
      BY <3>1, <3>2, <3>3
  <2>3. \A m \in Carried'["c13"] : m \in Carried["c13"]
    BY <1>1, <2>1, <2>2, LeftAlone
  <2> QED
    BY <2>1, <2>3, CountedNone
<1>4. ASSUME NEW t \in Threads, NEW ch \in Chans, NEW o \in {"c10", "c12", "c16"}, NEW x,
             Takes(t, ch), Sends(t, To(o, x)), UNCHANGED <<runStore, runs, load>>
      PROVE  Charged'
  <2>1. \A m \in Carried'["c13"] : m \in Carried["c13"] \/ ("c13" = o /\ m = x)
    BY <1>1, <1>4, SentOne
  <2> QED
    BY <1>4, <2>1, CountedNone
<1>5. CASE DatabaseServesProcessor \/ DatabaseServesRunner \/ SocketServesRunner
  <2>1. UNCHANGED <<runStore, runs, load>>
    BY <1>5 DEF DatabaseServesProcessor, DatabaseServesRunner, SocketServesRunner, procVars, runVars
  <2>2. \E t \in Threads, ch \in Chans, o \in {"c10", "c12", "c16"} : \E x : Takes(t, ch) /\ Sends(t, To(o, x))
    <3>1. DatabaseServesProcessor => Takes("database", "c11") /\ \E x : Sends("database", To("c12", x))
      BY DEF DatabaseServesProcessor
    <3>2. DatabaseServesRunner => Takes("database", "c15") /\ \E x : Sends("database", To("c16", x))
      BY DEF DatabaseServesRunner
    <3>3. SocketServesRunner => Takes("socket", "c9") /\ \E x : Sends("socket", To("c10", x))
      BY DEF SocketServesRunner
    <3> QED
      BY <1>1, <1>5, <3>1, <3>2, <3>3
  <2> QED
    BY <1>4, <2>1, <2>2
<1>6. CASE \E t \in Threads : Flush(t)
  <2>1. UNCHANGED <<runStore, runs, load>>
    BY <1>6 DEF Flush, procVars, runVars
  <2>2. \A m \in Carried'["c13"] : m \in Carried["c13"]
    BY <1>1, <1>6, Flushed
  <2> QED
    BY <2>1, <2>2, CountedNone
<1> QED
  BY <1>2, <1>3, <1>5, <1>6, ProcessorCharged, RunnerCharged DEF Next

LEMMA InitPlacings == Init => Placings
BY RunControlAssumption DEF Init, Placings, NoEntry

LEMMA InitCharged == Init => Charged
<1> SUFFICES ASSUME Init, NEW w \in Workers PROVE Cardinality(Assigned(w)) <= load[w]
  BY DEF Charged
<1>1. /\ \A c \in OutChans : chan[c] = <<>>
      /\ \A t \in Threads : pend[t] = <<>>
      /\ \A n \in Nonce : runStore[n].id = Absent
      /\ runs = <<>> /\ load[w] = 0
  BY DEF Init, NoEntry
<1>2. Absent \notin Ids /\ "c13" \in OutChans /\ \A i \in 1..Len(<<>>) : FALSE
  BY DEF Absent, Ids, OutChans
<1>3. Carried["c13"] = {}
  BY <1>1, <1>2 DEF Carried
<1>4. Assigned(w) = {}
  BY <1>1, <1>2, <1>3 DEF Assigned
<1> QED
  BY <1>1, <1>4, FS_EmptySet

LEMMA InitPlaced == Init => Followed("create")
BY InitTold, NewWords

\* The runs of a worker were recorded for different creations, each assigned to it.
LEMMA CoversRuns == TypeInv /\ Followed("create") /\ Charged => LoadCoversRuns
<1> SUFFICES ASSUME TypeInv, Followed("create"), Charged, NEW w \in Workers
             PROVE  Cardinality({r \in 1..Len(runs) : runs[r].worker = w}) <= load[w]
  BY DEF LoadCoversRuns
<1> DEFINE S == {r \in 1..Len(runs) : runs[r].worker = w}
           f == [r \in S |-> runs[r].for]
           q == Told("create")
<1>1. /\ q["kept"] = [r \in 1..Len(runs) |-> IF runs[r].worker \in Workers THEN runs[r].for ELSE Mute]
      /\ DOMAIN q = Stages /\ "kept" \in Stages
  BY TrackAt, StageNames, NewWords DEF Told, Kept
<1>2. /\ runs \in Seq(Run) /\ Len(runs) \in Nat
      /\ \A r \in 1..Len(runs) : runs[r].for \in Nat
  <2>1. runs \in Seq(Run)
    BY DEF TypeInv, Recorded
  <2>2. \A r \in 1..Len(runs) : runs[r] \in Run
    BY <2>1, ElementOfSeq
  <2> QED
    BY <2>1, <2>2 DEF Run, Ids
<1>3. Len(q["kept"]) = Len(runs)
  BY ONLY <1>1, <1>2
<1>4. \A i, j \in 1..Len(q["kept"]) : q["kept"][i] = q["kept"][j] /\ q["kept"][i] # Mute => i = j
  <2>1. Traced(q, Begun("create"))
    BY DEF Followed
  <2> HIDE DEF q
  <2> QED
    BY ONLY <1>1, <2>1 DEF Traced
<1>5. \A i \in S : i \in 1..Len(q["kept"]) /\ q["kept"][i] = runs[i].for /\ runs[i].for # Mute
  <2> TAKE i \in S
  <2>1. i \in 1..Len(runs) /\ runs[i].worker \in Workers
    OBVIOUS
  <2>2. runs[i].for # Mute
    BY <1>2, <2>1 DEF Mute
  <2> HIDE DEF q
  <2> QED
    BY ONLY <1>1, <1>3, <2>1, <2>2
<1>6. \A i, j \in S : f[i] = f[j] => i = j
  <2> HIDE DEF q
  <2> QED
    BY <1>4, <1>5
<1>7. f \in [S -> Assigned(w)]
  BY AssignedBefore
<1>8. f \in Injection(S, Assigned(w))
  BY <1>6, <1>7 DEF Injection, IsInjective
<1>9. IsFiniteSet(Assigned(w)) /\ Cardinality(Assigned(w)) <= load[w]
  BY AssignedFinite DEF Charged
<1>10. Cardinality(S) <= Cardinality(Assigned(w)) /\ IsFiniteSet(S)
  <2> HIDE DEF f, S
  <2> QED
    BY <1>8, <1>9, FS_Injection
<1>11. Cardinality(S) \in Nat /\ Cardinality(Assigned(w)) \in Nat /\ load[w] \in Nat
  BY <1>9, <1>10, FS_CardinalityType DEF TypeInv, Recorded
<1> QED
  BY ONLY <1>9, <1>10, <1>11

\* While no two creations are given one nonce, a worker's NumOfRuns counts every run that was
\* recorded for it: a creation is charged to a worker before the runner hears of it, its record
\* names that worker, and no creation is recorded twice.
THEOREM LoadCovers == Spec => [](CreatesApart => LoadCoversRuns)
<1> DEFINE I == OnceInv /\ TrailInv /\ TypeInv /\ Placings /\ Charged /\ (CreatesApart => Followed("create"))
<1>1. Init => I
  BY InitOnce, InitTrail, InitTyped, InitPlacings, InitCharged, InitPlaced
<1>2. I /\ [Next]_vars => I'
  BY StepOnce, StepTrail, StepTyped, StepPlacings, StepPlaced, StepCharged
<1>3. I => (CreatesApart => LoadCoversRuns)
  BY CoversRuns
<1>4. QED
  BY <1>1, <1>2, <1>3, PTL DEF Spec

\* Below the size of a pool its nonces only go up, and a client issues what it is there for.
Serial ==
  /\ \A s \in Sources : cur[s] <= Len(req)
  /\ \A i \in 1..Len(req) : NonceOf(i) <= cur[req[i].src] /\ <<req[i].src, req[i].act>> \in Workload
  /\ \A i, j \in 1..Len(req) : i < j /\ req[i].src = req[j].src => NonceOf(i) < NonceOf(j)

\* Runs are created by the clients of one pool only.
OneCreator == \E s \in Sources : \A p \in Workload : p[2] = "Create" => p[1] = s

LEMMA RequestsTyped ==
  ASSUME TypeInv
  PROVE  \A i \in 1..Len(req) : req[i].src \in Sources /\ req[i].nonce \in Int
<1> TAKE i \in 1..Len(req)
<1>1. req[i] \in Request
  BY ElementOfSeq DEF TypeInv, Recorded
<1>2. Nonce \subseteq Int
  BY RunControlAssumption DEF Nonce
<1> QED
  BY <1>1, <1>2 DEF Request

LEMMA StepSerial ==
  ASSUME MaxRequests <= RangeSize, TypeInv, TypeInv', Serial, [Next]_vars
  PROVE  Serial'
<1>1. CASE UNCHANGED <<req, cur>>
  <2>1. req' = req /\ cur' = cur
    BY <1>1
  <2> QED
    BY <2>1 DEF Serial, NonceOf
<1>2. ASSUME NEW s \in Sources, NEW act, NEW run, NEW rep, Issue(s, act, run, rep)
      PROVE  Serial'
  <2> DEFINE k == Len(req) + 1
             r == [src |-> s, act |-> act, nonce |-> NextNonce(s), run |-> run,
                   status |-> rep.status, stat |-> rep.stat]
  <2>1. /\ req' = Append(req, r) /\ cur' = [cur EXCEPT ![s] = NextNonce(s)]
        /\ <<s, act>> \in Workload /\ Len(req) < MaxRequests
    BY <1>2 DEF Issue
  <2>2. /\ req \in Seq(Request) /\ Len(req) \in Nat /\ cur \in [Sources -> Nonce]
        /\ \A v \in Sources : cur[v] \in Int
    BY DEF TypeInv, Recorded, Nonce
  <2>3. /\ \A v \in Sources : cur[v] <= Len(req)
        /\ \A i \in 1..Len(req) : req[i].nonce <= cur[req[i].src] /\ <<req[i].src, req[i].act>> \in Workload
        /\ \A i, j \in 1..Len(req) : i < j /\ req[i].src = req[j].src => req[i].nonce < req[j].nonce
    BY Zenon DEF Serial, NonceOf
  <2>4. \A i \in 1..Len(req) : req[i].src \in Sources /\ req[i].nonce \in Int
    BY RequestsTyped
  <2>5. NextNonce(s) = cur[s] + 1
    <3>1. RangeSize \in Nat /\ MaxRequests \in Nat
      BY RunControlAssumption
    <3>2. RangeSize <= PoolMax(s) /\ PoolMax(s) \in Int
      BY <3>1 DEF PoolMax, PoolMin, Sources
    <3>3. cur[s] < PoolMax(s)
      BY <2>1, <2>2, <2>3, <3>1, <3>2
    <3> QED
      BY <3>3 DEF NextNonce
  <2>6. /\ Len(req') = k /\ req'[k] = r
        /\ \A i \in 1..Len(req) : req'[i] = req[i]
        /\ \A i \in 1..k : i \in 1..Len(req) \/ i = k
    BY <2>1, <2>2
  <2>7. /\ r.src = s /\ r.act = act /\ r.nonce = cur[s] + 1
        /\ cur'[s] = cur[s] + 1
        /\ \A v \in Sources : cur'[v] = IF v = s THEN cur[s] + 1 ELSE cur[v]
    BY <2>1, <2>2, <2>5
  <2> HIDE DEF r
  <2>8. \A v \in Sources : cur'[v] <= k
    <3> TAKE v \in Sources
    <3>1. cur[v] \in Int /\ cur[s] \in Int /\ Len(req) \in Int /\ cur[v] <= Len(req) /\ cur[s] <= Len(req)
      BY <2>2, <2>3
    <3>2. cur'[v] = cur[v] \/ cur'[v] = cur[s] + 1
      BY <2>7
    <3> QED
      BY <3>1, <3>2
  <2>9. \A i \in 1..k : req'[i].nonce <= cur'[req'[i].src] /\ <<req'[i].src, req'[i].act>> \in Workload
    <3> TAKE i \in 1..k
    <3>1. CASE i = k
      <4>1. req'[i] = r /\ r.nonce = cur'[s] /\ r.src = s /\ r.act = act /\ cur'[s] \in Int
        BY <2>2, <2>6, <2>7, <3>1
      <4>2. <<s, act>> \in Workload
        BY <2>1
      <4> QED
        BY <4>1, <4>2
    <3>2. CASE i \in 1..Len(req)
      <4> DEFINE v == req[i].src
      <4>1. /\ req'[i] = req[i] /\ v \in Sources /\ req[i].nonce \in Int
            /\ req[i].nonce <= cur[v] /\ <<v, req[i].act>> \in Workload
        <5>1. req'[i] = req[i] /\ v \in Sources /\ req[i].nonce \in Int
          BY ONLY <2>4, <2>6, <3>2
        <5>2. req[i].nonce <= cur[v] /\ <<v, req[i].act>> \in Workload
          BY ONLY <2>3, <3>2
        <5> QED
          BY <5>1, <5>2
      <4>2. cur[v] \in Int /\ cur'[v] = IF v = s THEN cur[v] + 1 ELSE cur[v]
        <5> HIDE DEF v
        <5> QED
          BY ONLY <2>2, <2>7, <4>1
      <4>3. req[i].nonce <= cur'[v]
        BY ONLY <4>1, <4>2
      <4> QED
        BY <4>1, <4>3
    <3> QED
      BY <2>6, <3>1, <3>2
  <2>10. \A i, j \in 1..k : i < j /\ req'[i].src = req'[j].src => req'[i].nonce < req'[j].nonce
    <3> SUFFICES ASSUME NEW i \in 1..k, NEW j \in 1..k, i < j, req'[i].src = req'[j].src
                 PROVE  req'[i].nonce < req'[j].nonce
      OBVIOUS
    <3>1. i \in 1..Len(req)
      <4>1. i \in Int /\ j \in Int /\ i < j
        OBVIOUS
      <4> QED
        BY <2>2, <2>6, <4>1
    <3>2. CASE j = k
      <4>1. req'[j].nonce = cur[s] + 1 /\ req[i].src = s /\ req'[i].nonce = req[i].nonce
        BY <2>6, <2>7, <3>1, <3>2
      <4>2. req[i].nonce <= cur[s] /\ req[i].nonce \in Int /\ cur[s] \in Int
        BY <2>2, <2>3, <2>4, <3>1, <4>1
      <4> QED
        BY ONLY <4>1, <4>2
    <3>3. CASE j \in 1..Len(req)
      BY <2>3, <2>6, <3>1, <3>3
    <3> QED
      BY <2>6, <3>2, <3>3
  <2> QED
    BY <2>6, <2>8, <2>9, <2>10 DEF Serial, NonceOf
<1>3. Clients => UNCHANGED <<req, cur>> \/ \E s \in Sources : \E act, run, rep : Issue(s, act, run, rep)
  BY DEF Clients, IssueQuery, IssueCreateRun, IssueGetRun, IssueStopRun, WorkerReports,
         ClientReceives, clientVars, Sources
<1>4. Next => UNCHANGED <<req, cur>> \/ Clients
  <2>1. ProcessorThread => UNCHANGED <<req, cur>>
    BY Zenon DEF ProcessorThread, ProcQuery, ProcCreateRun, ProcForward, ProcPipeline,
           ProcRunnerResponds, clientVars
  <2>2. RunnerThread => UNCHANGED <<req, cur>>
    BY Zenon DEF RunnerThread, RunnerGetRun, RunnerCreateRun, RunnerUpdateRun, RunnerDeleteRun,
           RunnerDatabaseResponds, RunnerSocketResponds, RunnerTakes, clientVars
  <2>3. DatabaseServesProcessor \/ DatabaseServesRunner \/ SocketServesRunner => UNCHANGED <<req, cur>>
    BY DEF DatabaseServesProcessor, DatabaseServesRunner, SocketServesRunner, clientVars
  <2>4. \A t : Flush(t) => UNCHANGED <<req, cur>>
    BY DEF Flush, clientVars
  <2> QED
    BY <2>1, <2>2, <2>3, <2>4 DEF Next
<1>5. UNCHANGED vars => UNCHANGED <<req, cur>>
  BY DEF vars
<1> QED
  BY <1>1, <1>2, <1>3, <1>4, <1>5

LEMMA SerialApart ==
  ASSUME TypeInv, Serial, OneCreator
  PROVE  CreatesApart
<1>1. PICK s \in Sources : \A p \in Workload : p[2] = "Create" => p[1] = s
  BY DEF OneCreator
<1>2. \A i \in 1..Len(req) : req[i].act = "Create" => req[i].src = s
  BY <1>1 DEF Serial
<1>3. \A i \in 1..Len(req) : NonceOf(i) \in Int
  BY RequestsTyped DEF NonceOf
<1>4. \A i, j \in 1..Len(req) : i < j /\ req[i].src = req[j].src => NonceOf(i) < NonceOf(j)
  BY DEF Serial
<1> QED
  BY <1>2, <1>3, <1>4 DEF CreatesApart

\* Where one pool's clients alone create runs, and it has not wrapped, NumOfRuns of a worker
\* is never below the number of runs recorded for it, whatever else the other pools ask for.
THEOREM LoadCoversOneCreator ==
  ASSUME MaxRequests <= RangeSize, OneCreator
  PROVE  Spec => []LoadCoversRuns
<1>1. Init => TypeInv /\ Serial
  BY InitTyped DEF Init, Serial
<1>2. TypeInv /\ Serial /\ [Next]_vars => (TypeInv /\ Serial)'
  BY StepTyped, StepSerial
<1>3. TypeInv /\ Serial => CreatesApart
  BY SerialApart
<1>4. QED
  BY <1>1, <1>2, <1>3, LoadCovers, PTL DEF Spec


=============================================================================
