---------------------------- MODULE ServerProofs ----------------------------
(***************************************************************************)
(* Proofs about Server, for any number of connections, identifiers and     *)
(* messages: a connection owns its identifier, the count of connections is *)
(* what the pool of identifiers lacks, every variable keeps its type, and  *)
(* a connected worker is in the table of the processor thread.             *)
(***************************************************************************)
EXTENDS Server, FiniteSetTheorems, TLAPS

USE ServerAssumption

Slots == 0..(MaxClients - 1)

\* The pool, torn or not, holds identifiers and its indices stay inside it.
PoolFits ==
  /\ pool.buffer \in [Slots -> Ids] /\ pool.endOfBuffer = MaxClients - 1
  /\ pool.startOfData \in Slots /\ pool.endOfData \in Slots
  /\ pool.size \in Int /\ number \in Int

Maps ==
  /\ clients \in [Ids -> Conns \cup {Nobody}] /\ id \in [Conns -> {0} \cup Ids]
  /\ DOMAIN handler = Conns

Inv == PoolFits /\ Maps /\ OneOwner /\ PoolHoldsTheRest

\* Every action that neither registers nor releases leaves the register alone and lets
\* nobody into it.
Quiet ==
  /\ UNCHANGED register
  /\ DOMAIN handler' = DOMAIN handler
  /\ \A d \in Conns : handler'[d] \in Holding => handler[d] \in Holding

LEMMA MovesKeep ==
  ASSUME DOMAIN handler = Conns, NEW c \in Conns, NEW from, NEW to, Moves(c, from, to)
  PROVE  /\ DOMAIN handler' = Conns /\ handler[c] = from /\ handler'[c] = to
         /\ \A d \in Conns : d # c => handler'[d] = handler[d]
BY DEF Moves

LEMMA MovesWithin ==
  ASSUME DOMAIN handler = Conns, NEW c \in Conns, NEW from \in Holding, NEW to,
         Moves(c, from, to), UNCHANGED register
  PROVE  Quiet
BY MovesKeep DEF Quiet

LEMMA StaysQuiet ==
  ASSUME UNCHANGED <<register, handler>>
  PROVE  Quiet
BY DEF Quiet

LEMMA OthersAreQuiet ==
  ASSUME Maps, [Next]_vars
  PROVE  Quiet \/ (\E c \in Conns : Register(c) \/ Release(c))
<1>m. DOMAIN handler = Conns
  BY DEF Maps
<1>1. ASSUME NEW c \in Conns, Connect(c) PROVE Quiet
  BY <1>m, <1>1, MovesWithin DEF Connect, Holding, Polling
<1>2. ASSUME NEW c \in Conns, ConnectReturns(c) PROVE Quiet
  <2>1. CASE Accepted(c)
    BY <1>m, <1>2, <2>1, MovesWithin DEF ConnectReturns, Accepted, Holding, Polling
  <2>2. CASE Rejected(c)
    BY <1>m, <1>2, <2>2, MovesWithin DEF ConnectReturns, Rejected, Holding, Polling
  <2> QED
    BY <1>2, <2>1, <2>2 DEF ConnectReturns
<1>3. ASSUME NEW c \in Conns, PollInterrupt(c) PROVE Quiet
  BY <1>m, <1>3, MovesWithin DEF PollInterrupt, Holding, Polling
<1>4. ASSUME NEW c \in Conns, PollSend(c) PROVE Quiet
  <2>1. UNCHANGED register
    BY <1>4 DEF PollSend
  <2>2. UNCHANGED handler \/ Moves(c, "poll", "jammed")
    BY <1>4 DEF PollSend, Encodes, EncodeFails
  <2> QED
    BY <1>m, <2>1, <2>2, MovesWithin, StaysQuiet DEF Holding, Polling
<1>5. ASSUME NEW c \in Conns, PollReceive(c) PROVE Quiet
  <2>1. UNCHANGED register
    BY <1>5 DEF PollReceive
  <2>2. PICK next \in {"message", "poll"} : Moves(c, "poll", next)
    BY <1>5 DEF PollReceive
  <2> QED
    BY <1>m, <2>1, <2>2, MovesWithin DEF Holding, Polling
<1>6. ASSUME NEW c \in Conns, OnMessage(c) PROVE Quiet
  BY <1>m, <1>6, MovesWithin DEF OnMessage, Holding, Polling
<1>7. ASSUME NEW c \in Conns, Disconnect(c) PROVE Quiet
  BY <1>m, <1>7, MovesWithin DEF Disconnect, Holding, Polling
<1>8. ASSUME NEW c \in Conns,
             WorkerDrops(c) \/ Receive(c) \/ DecodeFails(c) \/ ListenerInterrupts(c)
      PROVE Quiet
  BY <1>8, StaysQuiet DEF WorkerDrops, Receive, DecodeFails, ListenerInterrupts
<1>9. ASSUME ProcessorServes \/ ProcessorReplies \/ SocketTakesResponse \/ SocketSends
      PROVE Quiet
  BY <1>9, StaysQuiet DEF ProcessorServes, ProcessorReplies, SocketTakesResponse, SocketSends
<1>10. ASSUME NEW i \in hosting, RunnerDispatches(i) PROVE Quiet
  BY <1>10, StaysQuiet DEF RunnerDispatches
<1>11. CASE UNCHANGED vars
  BY <1>11, StaysQuiet DEF vars
<1> QED
  BY <1>1, <1>2, <1>3, <1>4, <1>5, <1>6, <1>7, <1>8, <1>9, <1>10, <1>11 DEF Next, Goroutine
-----------------------------------------------------------------------------
LEMMA QuietKeeps == Inv /\ Quiet => Inv'
BY DEF Inv, Quiet, PoolFits, Maps, OneOwner, PoolHoldsTheRest, register

\* The fields of the pool after a Remove, and after an Add.
LEMMA RemovedFits ==
  ASSUME PoolFits, pool' = Removed(pool), number' = number + 1
  PROVE  PoolFits' /\ Oldest(pool) \in Ids /\ pool'.size = pool.size - 1
<1>1. /\ pool'.buffer = pool.buffer /\ pool'.size = pool.size - 1
      /\ pool'.endOfBuffer = pool.endOfBuffer /\ pool'.startOfData = pool.startOfData
      /\ pool'.endOfData = AfterRead(pool, pool.endOfData)
  BY DEF Removed, LessOne
<1>2. AfterRead(pool, pool.endOfData) \in Slots
  BY DEF PoolFits, AfterRead, Slots
<1> QED
  BY <1>1, <1>2 DEF PoolFits, Oldest

LEMMA AddedFits ==
  ASSUME PoolFits, NEW i \in Ids, pool' = Added(pool, i), number' = number - 1
  PROVE  PoolFits' /\ pool'.size = pool.size + 1
<1>1. /\ pool'.buffer = Written(pool, i) /\ pool'.size = pool.size + 1
      /\ pool'.endOfBuffer = pool.endOfBuffer /\ pool'.endOfData = pool.endOfData
      /\ pool'.startOfData = AfterWrite(pool, pool.startOfData)
  BY DEF Added
<1>2. AfterWrite(pool, pool.startOfData) \in Slots
  BY DEF PoolFits, AfterWrite, Slots
<1>3. Written(pool, i) \in [Slots -> Ids]
  BY DEF PoolFits, Written
<1> QED
  BY <1>1, <1>2, <1>3 DEF PoolFits

LEMMA RegisterKeeps ==
  ASSUME Inv, NEW c \in Conns, Register(c)
  PROVE  Inv'
<1>m. /\ DOMAIN handler = Conns /\ clients \in [Ids -> Conns \cup {Nobody}]
      /\ id \in [Conns -> {0} \cup Ids]
  BY DEF Inv, Maps
<1>1. CASE Full(c)
  <2>1. UNCHANGED register /\ Moves(c, "new", "refused")
    BY <1>1 DEF Full
  <2>2. Quiet
    BY <1>m, <2>1, MovesKeep DEF Quiet, Holding, Polling
  <2> QED
    BY <2>2, QuietKeeps
<1>2. CASE Registered(c)
  <2> DEFINE i == Oldest(pool)
  <2>1. PoolFits' /\ i \in Ids /\ PoolHoldsTheRest'
    <3>1. pool' = Removed(pool) /\ number' = number + 1
      BY <1>2 DEF Registered
    <3> QED
      BY <3>1, RemovedFits DEF Inv, PoolHoldsTheRest, PoolFits
  <2>2. CASE Found(i)
    <3>1. Moves(c, "new", "refused") /\ UNCHANGED <<clients, id>>
      BY <1>2, <2>2 DEF Registered
    <3>2. Maps' /\ OneOwner'
      BY <1>m, <3>1, MovesKeep DEF Inv, Maps, OneOwner, Holding, Polling
    <3> QED
      BY <2>1, <3>2 DEF Inv
  <2>3. CASE ~Found(i)
    <3>1. /\ Moves(c, "new", "connect") /\ clients' = [clients EXCEPT ![i] = c]
          /\ id' = [id EXCEPT ![c] = i] /\ clients[i] = Nobody
      BY <1>2, <2>3 DEF Registered, Found
    <3> HIDE DEF i
    <3>2. Maps'
      BY <1>m, <2>1, <3>1, MovesKeep DEF Maps
    <3>3. ASSUME NEW d \in Conns, handler'[d] \in Holding PROVE id'[d] \in Ids /\ clients'[id'[d]] = d
      <4>1. CASE d = c
        BY <1>m, <2>1, <3>1, <4>1
      <4>2. CASE d # c
        <5>1. handler[d] \in Holding /\ id'[d] = id[d]
          BY <1>m, <3>1, <3>3, <4>2, MovesKeep
        <5>2. id[d] \in Ids /\ clients[id[d]] = d /\ d # Nobody
          BY <5>1 DEF Inv, OneOwner
        <5>3. id[d] # i
          BY <3>1, <5>2
        <5> QED
          BY <1>m, <3>1, <5>1, <5>2, <5>3
      <4> QED
        BY <4>1, <4>2
    <3>4. OneOwner'
      BY <3>3 DEF OneOwner
    <3> QED
      BY <2>1, <3>2, <3>4 DEF Inv
  <2> QED
    BY <2>2, <2>3
<1> QED
  BY <1>1, <1>2 DEF Register

LEMMA ReleaseKeeps ==
  ASSUME Inv, NEW c \in Conns, Release(c)
  PROVE  Inv'
<1>m. /\ DOMAIN handler = Conns /\ clients \in [Ids -> Conns \cup {Nobody}]
      /\ id \in [Conns -> {0} \cup Ids]
  BY DEF Inv, Maps
<1>1. Moves(c, "disconnecting", "done") /\ UNCHANGED id
  BY DEF Release
<1>2. /\ DOMAIN handler' = Conns /\ handler[c] \in Holding /\ handler'[c] \notin Holding
      /\ \A d \in Conns : d # c => handler'[d] = handler[d]
  BY <1>1, <1>m, MovesKeep DEF Holding, Polling
<1>3. id[c] \in Ids /\ clients[id[c]] = c
  BY <1>2 DEF Inv, OneOwner
<1>4. CASE UNCHANGED <<pool, clients, number>>
  BY <1>1, <1>2, <1>4 DEF Inv, PoolFits, Maps, OneOwner, PoolHoldsTheRest
<1>5. CASE /\ pool' = Returned(id[c]) /\ number' = number - 1
           /\ clients' = [clients EXCEPT ![id[c]] = Nobody]
  <2>1. PoolFits' /\ PoolHoldsTheRest'
    BY <1>3, <1>5, AddedFits DEF Returned, Inv, PoolHoldsTheRest, PoolFits
  <2>2. Maps'
    BY <1>m, <1>1, <1>2, <1>3, <1>5 DEF Maps
  <2>3. ASSUME NEW d \in Conns, handler'[d] \in Holding PROVE id'[d] \in Ids /\ clients'[id'[d]] = d
    <3>1. d # c /\ handler[d] \in Holding
      BY <1>2, <2>3
    <3>2. id[d] \in Ids /\ clients[id[d]] = d
      BY <3>1 DEF Inv, OneOwner
    <3>3. id[d] # id[c]
      BY <1>3, <3>1, <3>2
    <3> QED
      BY <1>m, <1>1, <1>5, <3>2, <3>3
  <2>4. OneOwner'
    BY <2>3 DEF OneOwner
  <2> QED
    BY <2>1, <2>2, <2>4 DEF Inv
<1> QED
  BY <1>4, <1>5 DEF Release

LEMMA InitInv == Init => Inv
<1> SUFFICES ASSUME Init PROVE Inv
  OBVIOUS
<1>1. PoolFits /\ PoolHoldsTheRest
  <2>1. /\ pool.buffer = [i \in 0..(MaxClients - 1) |-> i + 1] /\ pool.size = MaxClients
        /\ pool.endOfBuffer = MaxClients - 1 /\ pool.startOfData = 0 /\ pool.endOfData = 0
        /\ number = 0
    BY DEF Init, NewRingBuffer
  <2> QED
    BY <2>1 DEF PoolFits, PoolHoldsTheRest, Slots, Ids
<1>2. Maps /\ OneOwner
  BY DEF Init, Maps, OneOwner, Holding, Polling
<1> QED
  BY <1>1, <1>2 DEF Inv

LEMMA StepInv == Inv /\ [Next]_vars => Inv'
<1> SUFFICES ASSUME Inv, [Next]_vars PROVE Inv'
  OBVIOUS
<1>1. Quiet \/ (\E c \in Conns : Register(c) \/ Release(c))
  BY OthersAreQuiet DEF Inv
<1> QED
  BY <1>1, QuietKeeps, RegisterKeeps, ReleaseKeeps

\* Identifiers belong to one connection each for as long as it is handled.
THEOREM Owned == Spec => []OneOwner
<1>1. Inv => OneOwner
  BY DEF Inv
<1> QED
  BY <1>1, InitInv, StepInv, PTL DEF Spec

\* The register's count and its pool of identifiers agree, whatever is refused or fails.
THEOREM Counted == Spec => []PoolHoldsTheRest
<1>1. Inv => PoolHoldsTheRest
  BY DEF Inv
<1> QED
  BY <1>1, InitInv, StepInv, PTL DEF Spec
-----------------------------------------------------------------------------
(* Types. *)

Requests == Seq(Request)

\* The identifiers in use: no more than the number of connections.
Taken == {i \in Ids : clients[i] # Nobody}

NumberFits ==
  /\ number \in Nat /\ number <= MaxClients
  /\ Cardinality(Taken) <= number

LinksFit ==
  /\ handler \in [Conns -> Holding \cup Refusals \cup {"new", "done"}]
  /\ interrupts \in [Conns -> 0..Room]
  /\ listener \in [Conns -> {"none", "decode", "in", "failed", "done"}]
  /\ open \in [Conns -> BOOLEAN]

\* The connections that were given an identifier.
Known == {c \in Conns : handler[c] \notin {"new", "refused"}}

MessagesFit ==
  /\ c7 \in Requests /\ c8 \in Seq(Answer) /\ answers \subseteq Answer
  /\ reply \in {NoReply} \cup Answer
  /\ \A c \in Known : id[c] \in Ids
  /\ \A k \in DOMAIN c7 : c7[k].conn \in Known

TableFits ==
  /\ processors \in Seq([id : Ids, conn : Conns]) /\ hosting \subseteq Ids
  /\ c9 \in Seq(Ids) /\ sends \in 0..MaxSends
  /\ target \in Conns \cup {Nobody}

Typed == Inv /\ NumberFits /\ LinksFit /\ MessagesFit /\ TableFits

LEMMA Appended ==
  ASSUME NEW S, NEW q \in Seq(S), NEW e \in S
  PROVE  /\ Append(q, e) \in Seq(S) /\ DOMAIN Append(q, e) = DOMAIN q \cup {Len(q) + 1}
         /\ Append(q, e)[Len(q) + 1] = e /\ Len(q) + 1 \notin DOMAIN q
         /\ \A i \in DOMAIN q : Append(q, e)[i] = q[i]
OBVIOUS

LEMMA HeadAndTail ==
  ASSUME NEW S, NEW q \in Seq(S), q # <<>>
  PROVE  /\ Tail(q) \in Seq(S) /\ Head(q) \in S
         /\ 1 \in DOMAIN q /\ Head(q) = q[1]
         /\ \A i \in DOMAIN Tail(q) : i + 1 \in DOMAIN q /\ Tail(q)[i] = q[i + 1] /\ i \in Nat \ {0}
OBVIOUS

LEMMA Joins ==
  ASSUME NEW S, NEW s \in Seq(S), NEW t \in Seq(S)
  PROVE  /\ s \o t \in Seq(S) /\ Len(s \o t) = Len(s) + Len(t)
         /\ DOMAIN (s \o t) = 1..(Len(s) + Len(t))
         /\ \A i \in 1..(Len(s) + Len(t)) :
              (s \o t)[i] = IF i <= Len(s) THEN s[i] ELSE t[i - Len(s)]
OBVIOUS

\* RemoveAt leaves what is before the place, and what is behind it one place further on.
LEMMA RemovesAt ==
  ASSUME NEW S, NEW q \in Seq(S), NEW p \in DOMAIN q
  PROVE  /\ RemoveAt(q, p) \in Seq(S) /\ DOMAIN RemoveAt(q, p) = 1..(Len(q) - 1)
         /\ \A i \in 1..(p - 1) : RemoveAt(q, p)[i] = q[i]
         /\ \A i \in p..(Len(q) - 1) : RemoveAt(q, p)[i] = q[i + 1]
<1> DEFINE a == SubSeq(q, 1, p - 1)
           b == SubSeq(q, p + 1, Len(q))
<1>1. p \in Nat /\ 1 <= p /\ p <= Len(q) /\ Len(q) \in Nat /\ DOMAIN q = 1..Len(q)
  OBVIOUS
<1>2. a \in Seq(S) /\ Len(a) = p - 1 /\ \A i \in 1..(p - 1) : a[i] = q[i]
  BY <1>1
<1>3. b \in Seq(S) /\ Len(b) = Len(q) - p /\ \A i \in 1..(Len(q) - p) : b[i] = q[p + i]
  BY <1>1
<1>4. RemoveAt(q, p) = a \o b
  BY DEF RemoveAt
<1> HIDE DEF a, b
<1> DEFINE r == a \o b
<1>5. /\ r \in Seq(S) /\ DOMAIN r = 1..(Len(a) + Len(b))
      /\ \A i \in 1..(Len(a) + Len(b)) : r[i] = IF i <= Len(a) THEN a[i] ELSE b[i - Len(a)]
  BY ONLY <1>2, <1>3, Joins, ZenonT(40)
<1> HIDE DEF r
<1>6. Len(a) + Len(b) = Len(q) - 1
  BY <1>1, <1>2, <1>3
<1>7. ASSUME NEW i \in 1..(p - 1) PROVE r[i] = q[i]
  BY <1>1, <1>2, <1>5, <1>6
<1>8. ASSUME NEW i \in p..(Len(q) - 1) PROVE r[i] = q[i + 1]
  <2>1. i - (p - 1) \in 1..(Len(q) - p) /\ p + (i - (p - 1)) = i + 1
    BY <1>1
  <2>2. r[i] = b[i - (p - 1)]
    BY <1>1, <1>2, <1>5, <1>6
  <2> QED
    BY <1>3, <2>1, <2>2
<1>9. r \in Seq(S) /\ DOMAIN r = 1..(Len(q) - 1)
  BY <1>5, <1>6
<1>10. RemoveAt(q, p) = r
  BY <1>4 DEF r
<1> QED
  BY <1>7, <1>8, <1>9, <1>10
-----------------------------------------------------------------------------
(* How far the goroutines get. *)

Leaving == {c \in Conns : handler[c] \in {"disconnecting", "done"}}
Polled  == {c \in Conns : handler[c] \in Polling}

\* The connections that have been told, or are about to be told, that they are listed.
Yes(c) == [op |-> "create", conn |-> c, ok |-> TRUE]
Confirmed ==
  {c \in Conns : Yes(c) \in answers \/ (\E k \in DOMAIN c8 : c8[k] = Yes(c)) \/ reply = Yes(c)}

States == Holding \cup Refusals \cup {"new", "done"}

\* Nobody loses an identifier or turns back; polling begins with a confirmation.
Course ==
  /\ handler' \in [Conns -> States]
  /\ Known \subseteq Known' /\ Leaving \subseteq Leaving'
  /\ \A c \in Known : id'[c] = id[c]
  /\ \A c \in Known' : c \in Known \/ id'[c] \in Ids
  /\ Polled' \subseteq Polled \cup (Confirmed \ Leaving)

LEMMA MovesOn ==
  ASSUME Typed, NEW c \in Conns, NEW from, NEW to, Moves(c, from, to), UNCHANGED id,
         from \notin {"new", "refused", "done"}, to \in States, to \notin {"new", "refused"},
         from = "disconnecting" => to = "done",
         to \in Polling => from \in Polling \/ c \in Confirmed \ Leaving
  PROVE  Course
<1>1. /\ handler \in [Conns -> States] /\ handler[c] = from /\ handler'[c] = to
      /\ \A d \in Conns : d # c => handler'[d] = handler[d]
  BY MovesKeep DEF Typed, LinksFit, States, Moves
<1>2. handler' \in [Conns -> States]
  BY <1>1 DEF Moves
<1>3. Known \subseteq Known' /\ Known' \subseteq Known
  BY <1>1 DEF Known
<1>4. Leaving \subseteq Leaving'
  BY <1>1 DEF Leaving
<1>5. Polled' \subseteq Polled \cup (Confirmed \ Leaving)
  BY <1>1 DEF Polled
<1> QED
  BY <1>2, <1>3, <1>4, <1>5 DEF Course, Known

LEMMA StaysOn ==
  ASSUME Typed, UNCHANGED <<handler, id>>
  PROVE  Course
BY DEF Typed, LinksFit, States, Course, Known, Leaving, Polled

LEMMA RegisterOn ==
  ASSUME Typed, NEW c \in Conns, Register(c)
  PROVE  Course
<1>1. handler \in [Conns -> States] /\ id \in [Conns -> {0} \cup Ids] /\ Oldest(pool) \in Ids
  <2>1. pool.buffer \in [Slots -> Ids] /\ pool.endOfData \in Slots
    BY DEF Typed, Inv, PoolFits
  <2> QED
    BY <2>1 DEF Typed, Inv, Maps, LinksFit, States, Oldest
<1>2. CASE Moves(c, "new", "refused") /\ UNCHANGED id
  <2>1. /\ handler[c] = "new" /\ handler'[c] = "refused" /\ handler' \in [Conns -> States]
        /\ \A d \in Conns : d # c => handler'[d] = handler[d]
    BY <1>1, <1>2 DEF Moves, States, Refusals
  <2> QED
    BY <2>1, <1>2 DEF Course, Known, Leaving, Polled, Polling
<1>3. CASE Moves(c, "new", "connect") /\ id' = [id EXCEPT ![c] = Oldest(pool)]
  <2>1. /\ handler[c] = "new" /\ handler'[c] = "connect" /\ handler' \in [Conns -> States]
        /\ \A d \in Conns : d # c => handler'[d] = handler[d]
    BY <1>1, <1>3 DEF Moves, States, Holding
  <2>2. id'[c] \in Ids /\ \A d \in Conns : d # c => id'[d] = id[d]
    BY <1>1, <1>3
  <2> QED
    BY <2>1, <2>2 DEF Course, Known, Leaving, Polled, Polling
<1> QED
  BY <1>2, <1>3 DEF Register, Registered, Full, register

LEMMA AcceptedOn ==
  ASSUME Typed, NEW c \in Conns, ConnectReturns(c)
  PROVE  Course
<1>1. UNCHANGED id
  BY DEF ConnectReturns, register
<1>2. CASE Accepted(c)
  <2>1. Moves(c, "connecting", "poll") /\ Yes(c) \in answers
    BY <1>2 DEF Accepted, Yes
  <2>2. c \in Confirmed \ Leaving
    BY <2>1 DEF Confirmed, Leaving, Moves
  <2> QED
    BY <1>1, <2>1, <2>2, MovesOn DEF States, Holding, Polling
<1>3. CASE Rejected(c)
  BY <1>1, <1>3, MovesOn DEF Rejected, States, Refusals, Holding, Polling
<1> QED
  BY <1>2, <1>3 DEF ConnectReturns

LEMMA AllOn ==
  ASSUME Typed, [Next]_vars
  PROVE  Course
<1> USE DEF States, Holding, Polling
<1>1. ASSUME NEW c \in Conns, Connect(c) PROVE Course
  BY <1>1, MovesOn DEF Connect, register
<1>2. ASSUME NEW c \in Conns, PollInterrupt(c) PROVE Course
  BY <1>2, MovesOn DEF PollInterrupt, register
<1>3. ASSUME NEW c \in Conns, PollSend(c) PROVE Course
  <2>1. UNCHANGED id /\ (UNCHANGED handler \/ Moves(c, "poll", "jammed"))
    BY <1>3 DEF PollSend, Encodes, EncodeFails, register
  <2> QED
    BY <2>1, MovesOn, StaysOn
<1>4. ASSUME NEW c \in Conns, PollReceive(c) PROVE Course
  <2>1. PICK next \in {"message", "poll"} : Moves(c, "poll", next)
    BY <1>4 DEF PollReceive
  <2>2. UNCHANGED id
    BY <1>4 DEF PollReceive, register
  <2> QED
    BY <2>1, <2>2, MovesOn
<1>5. ASSUME NEW c \in Conns, OnMessage(c) PROVE Course
  BY <1>5, MovesOn DEF OnMessage, register
<1>6. ASSUME NEW c \in Conns, Disconnect(c) PROVE Course
  BY <1>6, MovesOn DEF Disconnect, register
<1>7. ASSUME NEW c \in Conns, Release(c) PROVE Course
  BY <1>7, MovesOn DEF Release
<1>8. ASSUME NEW c \in Conns,
             WorkerDrops(c) \/ Receive(c) \/ DecodeFails(c) \/ ListenerInterrupts(c)
      PROVE Course
  BY <1>8, StaysOn DEF WorkerDrops, Receive, DecodeFails, ListenerInterrupts, register
<1>9. ASSUME ProcessorServes \/ ProcessorReplies \/ SocketTakesResponse \/ SocketSends
      PROVE Course
  BY <1>9, StaysOn DEF ProcessorServes, ProcessorReplies, SocketTakesResponse, SocketSends, register
<1>10. ASSUME NEW i \in hosting, RunnerDispatches(i) PROVE Course
  BY <1>10, StaysOn DEF RunnerDispatches, register
<1>11. CASE UNCHANGED vars
  BY <1>11, StaysOn DEF vars, register
<1> QED
  BY <1>1, <1>2, <1>3, <1>4, <1>5, <1>6, <1>7, <1>8, <1>9, <1>10, <1>11, RegisterOn, AcceptedOn
     DEF Next, Goroutine
-----------------------------------------------------------------------------
(* Each part of the types. *)

LEMMA TakenIsFinite ==
  /\ IsFiniteSet(Taken) /\ Cardinality(Taken) \in Nat
  /\ IsFiniteSet(Taken') /\ Cardinality(Taken)' \in Nat
<1>1. IsFiniteSet(Ids)
  BY FS_Interval DEF Ids
<1> QED
  BY <1>1, FS_Subset, FS_CardinalityType DEF Taken

LEMMA NumberKeeps ==
  ASSUME Typed, [Next]_vars
  PROVE  NumberFits'
<1>1. Cardinality(Taken) <= number /\ number <= MaxClients /\ number \in Nat
  BY DEF Typed, NumberFits
<1>2. clients \in [Ids -> Conns \cup {Nobody}]
  BY DEF Typed, Inv, Maps
<1>3. CASE Quiet
  <2>1. UNCHANGED <<clients, number>>
    BY <1>3 DEF Quiet, register
  <2>2. Taken' = Taken
    BY <2>1 DEF Taken
  <2> QED
    BY <1>1, <2>1, <2>2 DEF NumberFits
<1>4. ASSUME NEW c \in Conns, Register(c) PROVE NumberFits'
  <2>1. CASE Full(c)
    <3>1. UNCHANGED <<clients, number>>
      BY <2>1 DEF Full, register
    <3>2. Taken' = Taken
      BY <3>1 DEF Taken
    <3> QED
      BY <1>1, <3>1, <3>2 DEF NumberFits
  <2>2. CASE Registered(c)
    <3>1. number' = number + 1 /\ number < MaxClients
      BY <2>2 DEF Registered
    <3>2. number' \in Nat /\ number' <= MaxClients
      BY <1>1, <3>1
    <3>3. PICK i : clients' = clients \/ clients' = [clients EXCEPT ![i] = c]
      BY <2>2 DEF Registered
    <3>4. Taken' \subseteq Taken \cup {i}
      BY <1>2, <3>3 DEF Taken
    <3>5. /\ IsFiniteSet(Taken \cup {i})
          /\ Cardinality(Taken \cup {i}) = IF i \in Taken THEN Cardinality(Taken) ELSE Cardinality(Taken) + 1
      BY TakenIsFinite, FS_AddElement
    <3>6. Cardinality(Taken') <= Cardinality(Taken \cup {i})
      BY <3>4, <3>5, FS_Subset
    <3> QED
      BY <1>1, <3>1, <3>2, <3>5, <3>6, TakenIsFinite DEF NumberFits
  <2> QED
    BY <1>4, <2>1, <2>2 DEF Register
<1>5. ASSUME NEW c \in Conns, Release(c) PROVE NumberFits'
  <2>1. CASE UNCHANGED <<pool, clients, number>>
    <3>1. Taken' = Taken
      BY <2>1 DEF Taken
    <3> QED
      BY <1>1, <2>1, <3>1 DEF NumberFits
  <2>2. CASE number' = number - 1 /\ clients' = [clients EXCEPT ![id[c]] = Nobody]
    <3>1. id[c] \in Ids /\ clients[id[c]] = c /\ c # Nobody
      <4>1. handler[c] \in Holding
        BY <1>5 DEF Release, Moves, Holding
      <4> QED
        BY <4>1 DEF Typed, Inv, OneOwner
    <3>2. id[c] \in Taken
      BY <3>1 DEF Taken
    <3>3. Taken' \subseteq Taken \ {id[c]}
      BY <1>2, <2>2, <3>1 DEF Taken
    <3>4. IsFiniteSet(Taken \ {id[c]}) /\ Cardinality(Taken \ {id[c]}) = Cardinality(Taken) - 1
      BY <3>2, TakenIsFinite, FS_RemoveElement
    <3>5. Cardinality(Taken') <= Cardinality(Taken) - 1
      BY <3>3, <3>4, FS_Subset
    <3> QED
      BY <1>1, <2>2, <3>5, TakenIsFinite DEF NumberFits
  <2> QED
    BY <1>5, <2>1, <2>2 DEF Release
<1> QED
  BY <1>3, <1>4, <1>5, OthersAreQuiet DEF Typed, Inv

LEMMA LinksKeep ==
  ASSUME Typed, [Next]_vars
  PROVE  LinksFit'
<1>1. handler' \in [Conns -> States]
  BY AllOn DEF Course
<1>2. /\ interrupts \in [Conns -> 0..Room] /\ open \in [Conns -> BOOLEAN]
      /\ listener \in [Conns -> {"none", "decode", "in", "failed", "done"}]
  BY DEF Typed, LinksFit
<1>3. Room = 2
  BY DEF Room
<1> HIDE DEF Room
<1>4. interrupts' \in [Conns -> 0..Room]
  <2>1. ASSUME NEW c \in Conns, PollInterrupt(c) PROVE interrupts' \in [Conns -> 0..Room]
    <3>1. interrupts[c] - 1 \in 0..Room
      BY <1>2, <1>3, <2>1 DEF PollInterrupt
    <3> QED
      BY <1>2, <2>1, <3>1 DEF PollInterrupt
  <2>2. ASSUME NEW c \in Conns, PollSend(c) PROVE interrupts' \in [Conns -> 0..Room]
    <3>1. UNCHANGED interrupts \/ (interrupts[c] < Room /\ interrupts' = [interrupts EXCEPT ![c] = @ + 1])
      BY <2>2 DEF PollSend, Encodes, EncodeFails
    <3> QED
      BY <1>2, <1>3, <3>1
  <2>3. ASSUME NEW c \in Conns, ListenerInterrupts(c) PROVE interrupts' \in [Conns -> 0..Room]
    BY <1>2, <1>3, <2>3 DEF ListenerInterrupts
  <2>4. \/ \E c \in Conns : PollInterrupt(c) \/ PollSend(c) \/ ListenerInterrupts(c)
        \/ UNCHANGED interrupts
    BY DEF Next, Goroutine, Register, Connect, ConnectReturns, PollReceive, OnMessage, Disconnect,
           Release, WorkerDrops, Receive, DecodeFails, ProcessorServes, ProcessorReplies,
           SocketTakesResponse, SocketSends, RunnerDispatches, vars, links
  <2> QED
    BY <1>2, <2>1, <2>2, <2>3, <2>4
<1>5. listener' \in [Conns -> {"none", "decode", "in", "failed", "done"}]
  <2>1. \/ UNCHANGED listener
        \/ \E c \in Conns, to \in {"none", "decode", "in", "failed", "done"} :
             listener' = [listener EXCEPT ![c] = to]
    BY DEF Next, Goroutine, Register, Connect, ConnectReturns, Accepted, Rejected, PollInterrupt,
           PollSend, PollReceive, OnMessage, Disconnect, Release, WorkerDrops, Receive, DecodeFails,
           ListenerInterrupts, ProcessorServes, ProcessorReplies, SocketTakesResponse, SocketSends,
           RunnerDispatches, vars, links
  <2> QED
    BY <1>2, <2>1
<1>6. open' \in [Conns -> BOOLEAN]
  <2>1. ASSUME NEW c \in Conns, NEW b \in BOOLEAN, open' = [open EXCEPT ![c] = b]
        PROVE  open' \in [Conns -> BOOLEAN]
    BY <1>2, <2>1, Zenon
  <2>2. ASSUME NEW c \in Conns, Register(c) PROVE open' \in [Conns -> BOOLEAN]
    BY <2>1, <2>2 DEF Register
  <2>3. ASSUME NEW c \in Conns, ConnectReturns(c) \/ Release(c) \/ WorkerDrops(c)
        PROVE  UNCHANGED open \/ open' = [open EXCEPT ![c] = FALSE]
    BY <2>3 DEF ConnectReturns, Accepted, Rejected, Release, WorkerDrops
  <2>4. \/ UNCHANGED open
        \/ \E c \in Conns : Register(c) \/ ConnectReturns(c) \/ Release(c) \/ WorkerDrops(c)
    BY DEF Next, Goroutine, Connect, PollInterrupt, PollSend, PollReceive, OnMessage, Disconnect,
           Receive, DecodeFails, ListenerInterrupts, ProcessorServes, ProcessorReplies,
           SocketTakesResponse, SocketSends, RunnerDispatches, vars, links
  <2> QED
    BY <1>2, <2>1, <2>2, <2>3, <2>4
<1> QED
  BY <1>1, <1>4, <1>5, <1>6 DEF LinksFit, States

LEMMA KnownFits ==
  ASSUME Typed, [Next]_vars
  PROVE  /\ \A c \in Known' : id'[c] \in Ids
         /\ Known \subseteq Known'
BY AllOn DEF Typed, MessagesFit, Course

LEMMA AsksFits ==
  ASSUME Typed, NEW c \in Known, NEW op \in Ops, Asks(c, op)
  PROVE  c7' \in Requests /\ \A k \in DOMAIN c7' : c7'[k].conn \in Known
<1> DEFINE r == [op |-> op, conn |-> c]
<1>1. c7' = Append(c7, r) /\ r \in Request /\ r.conn \in Known
  BY DEF Asks, Request, Known
<1>2. c7 \in Seq(Request) /\ \A k \in DOMAIN c7 : c7[k].conn \in Known
  BY DEF Typed, MessagesFit, Requests
<1> HIDE DEF r
<1> QED
  BY <1>1, <1>2, Appended DEF Requests

LEMMA RequestsKeep ==
  ASSUME Typed, [Next]_vars
  PROVE  c7' \in Requests /\ \A k \in DOMAIN c7' : c7'[k].conn \in Known
<1>1. c7 \in Seq(Request) /\ \A k \in DOMAIN c7 : c7[k].conn \in Known
  BY DEF Typed, MessagesFit, Requests
<1>2. CASE UNCHANGED c7
  BY <1>1, <1>2 DEF Requests
<1>3. CASE ProcessorServes
  BY <1>1, <1>3, HeadAndTail DEF ProcessorServes, Requests
<1>4. ASSUME NEW c \in Conns, Connect(c) \/ OnMessage(c) \/ Disconnect(c)
      PROVE  c \in Known /\ \E op \in Ops : Asks(c, op)
  BY <1>4 DEF Connect, OnMessage, Disconnect, Moves, Known, Ops
<1>5. \/ UNCHANGED c7 \/ ProcessorServes
      \/ \E c \in Conns : Connect(c) \/ OnMessage(c) \/ Disconnect(c)
  BY DEF Next, Goroutine, Register, ConnectReturns, PollInterrupt, PollSend, PollReceive, Release,
         WorkerDrops, Receive, DecodeFails, ListenerInterrupts, ProcessorReplies,
         SocketTakesResponse, SocketSends, RunnerDispatches, vars, threads
<1> QED
  BY <1>2, <1>3, <1>4, <1>5, AsksFits

\* What the processor thread is asked is answered to the one who asked.
LEMMA HeadFits ==
  ASSUME Typed, c7 # <<>>
  PROVE  Head(c7) \in Request /\ Head(c7).conn \in Known /\ id[Head(c7).conn] \in Ids
<1>1. c7 \in Seq(Request) /\ \A k \in DOMAIN c7 : c7[k].conn \in Known
  BY DEF Typed, MessagesFit, Requests
<1>2. Head(c7) \in Request /\ Head(c7).conn \in Known
  BY <1>1, HeadAndTail
<1> QED
  BY <1>2 DEF Typed, MessagesFit

LEMMA ServesFits ==
  ASSUME Typed, ProcessorServes
  PROVE  /\ reply' \in Answer
         /\ processors' \in Seq([id : Ids, conn : Conns]) /\ hosting' \subseteq Ids
<1> DEFINE c == Head(c7).conn
           W == [id : Ids, conn : Conns]
<1>1. c \in Conns /\ id[c] \in Ids
  BY HeadFits DEF ProcessorServes, Known
<1>2. processors \in Seq(W) /\ hosting \subseteq Ids
  BY DEF Typed, TableFits
<1> HIDE DEF c
<1>3. CASE Adds(c)
  <2>1. reply' \in Answer /\ hosting' = hosting
    BY <1>1, <1>3 DEF Adds, Answer, Ops
  <2>2. [id |-> id[c], conn |-> c] \in W
    BY <1>1
  <2>3. Append(processors, [id |-> id[c], conn |-> c]) \in Seq(W)
    BY <1>2, <2>2, Appended
  <2>4. processors' = processors \/ processors' = Append(processors, [id |-> id[c], conn |-> c])
    BY <1>3 DEF Adds
  <2> QED
    BY <1>2, <2>1, <2>3, <2>4
<1>4. CASE Hosts(c)
  BY <1>1, <1>2, <1>4 DEF Hosts, Answer, Ops
<1>5. CASE Drops(c)
  <2>1. reply' \in Answer /\ hosting' = hosting
    BY <1>1, <1>5 DEF Drops, Answer, Ops
  <2>2. CASE processors = <<>>
    BY <1>2, <1>5, <2>1, <2>2 DEF Drops
  <2>3. CASE processors # <<>>
    <3>1. PlaceOf(c) \in DOMAIN processors
      BY <1>2, <2>3 DEF PlaceOf, Listed
    <3>2. processors' = RemoveAt(processors, PlaceOf(c))
      BY <1>5, <2>3 DEF Drops
    <3>3. RemoveAt(processors, PlaceOf(c)) \in Seq(W)
      BY <1>2, <3>1, RemovesAt
    <3> QED
      BY <1>2, <2>1, <3>2, <3>3
  <2> QED
    BY <2>2, <2>3
<1> QED
  BY <1>3, <1>4, <1>5 DEF ProcessorServes, c

LEMMA AnswersKeep ==
  ASSUME Typed, [Next]_vars
  PROVE  c8' \in Seq(Answer) /\ answers' \subseteq Answer /\ reply' \in {NoReply} \cup Answer
<1>1. c8 \in Seq(Answer) /\ answers \subseteq Answer /\ reply \in {NoReply} \cup Answer
  BY DEF Typed, MessagesFit
<1>2. CASE UNCHANGED <<c8, answers, reply>>
  BY <1>1, <1>2
<1>3. CASE ProcessorServes
  BY <1>1, <1>3, ServesFits DEF ProcessorServes
<1>4. CASE ProcessorReplies
  <2>1. /\ reply \in Answer /\ c8' = Append(c8, reply) /\ reply' = NoReply /\ answers' = answers
    BY <1>1, <1>4 DEF ProcessorReplies
  <2> QED
    BY <1>1, <2>1, Appended
<1>5. CASE SocketTakesResponse
  <2>1. /\ c8' = Tail(c8) /\ c8 # <<>> /\ reply' = reply /\ answers' \subseteq answers \cup {Head(c8)}
    BY <1>5 DEF SocketTakesResponse
  <2> QED
    BY <1>1, <2>1, HeadAndTail
<1>6. UNCHANGED <<c8, answers, reply>> \/ ProcessorServes \/ ProcessorReplies \/ SocketTakesResponse
  BY DEF Next, Goroutine, Register, Connect, ConnectReturns, PollInterrupt, PollSend, PollReceive,
         OnMessage, Disconnect, Release, WorkerDrops, Receive, DecodeFails, ListenerInterrupts,
         SocketSends, RunnerDispatches, vars, threads
<1> QED
  BY <1>2, <1>3, <1>4, <1>5, <1>6

LEMMA TableKeeps ==
  ASSUME Typed, [Next]_vars
  PROVE  TableFits'
<1>1. /\ processors \in Seq([id : Ids, conn : Conns]) /\ hosting \subseteq Ids
      /\ c9 \in Seq(Ids) /\ sends \in 0..MaxSends /\ target \in Conns \cup {Nobody}
      /\ clients \in [Ids -> Conns \cup {Nobody}]
  BY DEF Typed, TableFits, Inv, Maps
<1>2. processors' \in Seq([id : Ids, conn : Conns]) /\ hosting' \subseteq Ids
  <2>1. UNCHANGED <<processors, hosting>> \/ ProcessorServes
    BY DEF Next, Goroutine, Register, Connect, ConnectReturns, PollInterrupt, PollSend,
           PollReceive, OnMessage, Disconnect, Release, WorkerDrops, Receive, DecodeFails,
           ListenerInterrupts, ProcessorReplies, SocketTakesResponse, SocketSends,
           RunnerDispatches, vars, threads
  <2> QED
    BY <1>1, <2>1, ServesFits
<1>3. /\ c9' \in Seq(Ids) /\ sends' \in 0..MaxSends /\ target' \in Conns \cup {Nobody}
  <2>1. CASE UNCHANGED sending
    BY <1>1, <2>1 DEF sending
  <2>2. ASSUME NEW c \in Conns, PollSend(c) PROVE UNCHANGED <<c9, sends>> /\ target' = Nobody
    BY <2>2 DEF PollSend
  <2>3. CASE SocketSends
    <3>1. c9 # <<>> /\ c9' = Tail(c9) /\ target' = clients[Head(c9)] /\ sends' = sends
      BY <2>3 DEF SocketSends, GetConnection
    <3>2. c9' \in Seq(Ids) /\ Head(c9) \in Ids
      BY <1>1, <3>1, HeadAndTail
    <3> QED
      BY <1>1, <3>1, <3>2
  <2>4. ASSUME NEW i \in hosting, RunnerDispatches(i)
        PROVE  c9' \in Seq(Ids) /\ sends' \in 0..MaxSends /\ target' = target
    <3>1. c9' = Append(c9, i) /\ sends' = sends + 1 /\ sends < MaxSends /\ target' = target
      BY <2>4 DEF RunnerDispatches
    <3>2. i \in Ids
      BY <1>1
    <3> QED
      BY <1>1, <3>1, <3>2, Appended
  <2>5. \/ UNCHANGED sending \/ SocketSends
        \/ \E c \in Conns : PollSend(c)
        \/ \E i \in hosting : RunnerDispatches(i)
    BY DEF Next, Goroutine, Register, Connect, ConnectReturns, PollInterrupt, PollReceive,
           OnMessage, Disconnect, Release, WorkerDrops, Receive, DecodeFails, ListenerInterrupts,
           ProcessorServes, ProcessorReplies, SocketTakesResponse, vars, sending
  <2> QED
    BY <1>1, <2>1, <2>2, <2>3, <2>4, <2>5
<1> QED
  BY <1>2, <1>3 DEF TableFits

LEMMA StepTyped == Typed /\ [Next]_vars => Typed'
<1> SUFFICES ASSUME Typed, [Next]_vars PROVE Typed'
  OBVIOUS
<1>1. Inv'
  BY StepInv DEF Typed
<1>2. MessagesFit'
  BY KnownFits, RequestsKeep, AnswersKeep DEF MessagesFit
<1> QED
  BY <1>1, <1>2, NumberKeeps, LinksKeep, TableKeeps DEF Typed

LEMMA InitTyped == Init => Typed
<1> SUFFICES ASSUME Init PROVE Typed
  OBVIOUS
<1>1. NumberFits
  <2>1. Taken = {} /\ number = 0
    BY DEF Init, Taken
  <2> QED
    BY <2>1, FS_EmptySet DEF NumberFits
<1>2. LinksFit
  BY DEF Init, LinksFit, Room
<1>3. MessagesFit
  <2>1. Known = {}
    BY DEF Init, Known
  <2>2. c7 = <<>> /\ c8 = <<>> /\ answers = {} /\ reply = NoReply
    BY DEF Init
  <2> QED
    BY <2>1, <2>2 DEF MessagesFit, Requests
<1>4. TableFits
  BY DEF Init, TableFits
<1> QED
  BY <1>1, <1>2, <1>3, <1>4, InitInv DEF Typed

\* Every variable keeps its type; the pool never counts more identifiers than there are.
THEOREM TypeCorrect == Spec => []TypeOK
<1>1. Typed => TypeOK
  <2> SUFFICES ASSUME Typed PROVE TypeOK
    OBVIOUS
  <2>1. pool.size \in 0..MaxClients /\ number \in 0..MaxClients
    BY DEF Typed, NumberFits, Inv, PoolHoldsTheRest, PoolFits
  <2>2. /\ pool.buffer \in [0..(MaxClients - 1) -> Ids] /\ pool.endOfBuffer = MaxClients - 1
        /\ pool.startOfData \in 0..pool.endOfBuffer /\ pool.endOfData \in 0..pool.endOfBuffer
    BY DEF Typed, Inv, PoolFits, Slots
  <2> QED
    BY <2>1, <2>2 DEF TypeOK, Typed, Inv, Maps, LinksFit, MessagesFit, TableFits, Requests
<1> QED
  BY <1>1, InitTyped, StepTyped, PTL DEF Spec
-----------------------------------------------------------------------------
(* The table of workers. *)

Present == {c \in Conns : \E k \in DOMAIN processors : processors[k].conn = c}

\* The table lists connections under their own identifier, and no identifier twice.
OwnEntries ==
  /\ \A k \in DOMAIN processors :
       processors[k].conn \in Known /\ processors[k].id = id[processors[k].conn]
  /\ \A j, k \in DOMAIN processors : processors[j].id = processors[k].id => j = k

\* Who asks to be dropped is listed until then, is no longer polled, and asks once.
DropsOwn ==
  /\ \A k \in DOMAIN c7 : c7[k].op = "delete" => c7[k].conn \in Leaving \cap Present
  /\ \A j, k \in DOMAIN c7 :
       c7[j].op = "delete" /\ c7[k].op = "delete" /\ c7[j].conn = c7[k].conn => j = k

ToldTrue == Confirmed \subseteq Present \cup Leaving

Listing == OwnEntries /\ DropsOwn /\ ToldTrue /\ Polled \subseteq Present

ListInv == Typed /\ Listing

\* Steps of the goroutines that ask nothing.
LEMMA CourseKeeps ==
  ASSUME ListInv, Course, UNCHANGED <<c7, processors>>, Confirmed' \subseteq Confirmed
  PROVE  Listing'
<1>1. Present' = Present
  BY DEF Present
<1>2. OwnEntries'
  BY DEF ListInv, Listing, OwnEntries, Course
<1>3. DropsOwn'
  BY <1>1 DEF ListInv, Listing, DropsOwn, Course
<1>4. ToldTrue'
  BY <1>1 DEF ListInv, Listing, ToldTrue, Course
<1>5. Polled' \subseteq Present'
  BY <1>1 DEF ListInv, Listing, ToldTrue, Course
<1> QED
  BY <1>2, <1>3, <1>4, <1>5 DEF Listing

LEMMA SameAnswers ==
  ASSUME UNCHANGED <<c8, answers, reply>>
  PROVE  Confirmed' = Confirmed
BY DEF Confirmed

LEMMA AskKeeps ==
  ASSUME ListInv, Course, NEW c \in Conns, NEW op \in Ops, Asks(c, op),
         UNCHANGED <<processors, c8, answers, reply>>,
         op = "delete" => c \in Polled /\ c \in Leaving'
  PROVE  Listing'
<1>1. Present' = Present /\ Confirmed' = Confirmed
  BY SameAnswers DEF Present
<1>2. OwnEntries'
  BY DEF ListInv, Listing, OwnEntries, Course
<1>3. DropsOwn'
  <2> DEFINE r == [op |-> op, conn |-> c]
  <2>1. c7 \in Seq(Request) /\ r \in Request /\ c7' = Append(c7, r) /\ r.op = op /\ r.conn = c
    BY DEF Asks, Request, ListInv, Typed, MessagesFit, Requests
  <2> HIDE DEF r
  <2>2. /\ DOMAIN c7' = DOMAIN c7 \cup {Len(c7) + 1} /\ c7'[Len(c7) + 1] = r
        /\ \A i \in DOMAIN c7 : c7'[i] = c7[i]
    BY <2>1, Appended
  <2>3. op = "delete" => c \in Leaving' \cap Present /\ c \notin Leaving
    BY DEF ListInv, Listing, Polled, Leaving, Polling
  <2>4. \A k \in DOMAIN c7 : c7[k].op = "delete" => c7[k].conn \in Leaving \cap Present
    BY DEF ListInv, Listing, DropsOwn
  <2>5. \A k \in DOMAIN c7' : c7'[k].op = "delete" => c7'[k].conn \in Leaving' \cap Present'
    BY <1>1, <2>1, <2>2, <2>3, <2>4 DEF Course
  <2>6. \A k \in DOMAIN c7 : op = "delete" /\ c7[k].op = "delete" => c7[k].conn # c
    BY <2>3, <2>4
  <2>7. \A j, k \in DOMAIN c7' :
          c7'[j].op = "delete" /\ c7'[k].op = "delete" /\ c7'[j].conn = c7'[k].conn => j = k
    BY <2>1, <2>2, <2>6 DEF ListInv, Listing, DropsOwn
  <2> QED
    BY <2>5, <2>7 DEF DropsOwn
<1>4. ToldTrue'
  BY <1>1 DEF ListInv, Listing, ToldTrue, Course
<1>5. Polled' \subseteq Present'
  BY <1>1 DEF ListInv, Listing, ToldTrue, Course
<1> QED
  BY <1>2, <1>3, <1>4, <1>5 DEF Listing

\* The processor thread has served the first request on C7.
LEMMA ServedKeeps ==
  ASSUME ListInv, Course, c7 # <<>>, c7' = Tail(c7), OwnEntries',
         Confirmed' \subseteq Confirmed \cup Present',
         \/ Present \subseteq Present'
         \/ /\ Head(c7).op = "delete" /\ Head(c7).conn \in Leaving
            /\ Present \ {Head(c7).conn} \subseteq Present'
  PROVE  Listing'
<1>1. c7 \in Seq(Request)
  BY DEF ListInv, Typed, MessagesFit, Requests
<1>2. /\ 1 \in DOMAIN c7 /\ Head(c7) = c7[1]
      /\ \A i \in DOMAIN c7' : i + 1 \in DOMAIN c7 /\ c7'[i] = c7[i + 1] /\ i \in Nat \ {0}
  BY <1>1, HeadAndTail
<1>3. DropsOwn'
  <2>1. ASSUME NEW k \in DOMAIN c7', c7'[k].op = "delete"
        PROVE  c7'[k].conn \in Leaving' \cap Present'
    <3>1. k + 1 \in DOMAIN c7 /\ k + 1 # 1 /\ c7'[k] = c7[k + 1]
      BY <1>2, <2>1
    <3>2. c7[k + 1].conn \in Leaving \cap Present
      BY <2>1, <3>1 DEF ListInv, Listing, DropsOwn
    <3>3. Head(c7).op = "delete" => c7[k + 1].conn # Head(c7).conn
      BY <1>2, <2>1, <3>1 DEF ListInv, Listing, DropsOwn
    <3> QED
      BY <3>1, <3>2, <3>3 DEF Course
  <2>2. ASSUME NEW j \in DOMAIN c7', NEW k \in DOMAIN c7', c7'[j].op = "delete",
               c7'[k].op = "delete", c7'[j].conn = c7'[k].conn
        PROVE  j = k
    <3>1. /\ j + 1 \in DOMAIN c7 /\ k + 1 \in DOMAIN c7 /\ j \in Nat /\ k \in Nat
          /\ c7'[j] = c7[j + 1] /\ c7'[k] = c7[k + 1]
      BY <1>2
    <3>2. j + 1 = k + 1
      BY <2>2, <3>1 DEF ListInv, Listing, DropsOwn
    <3> QED
      BY <3>1, <3>2
  <2> QED
    BY <2>1, <2>2 DEF DropsOwn
<1>4. ToldTrue'
  BY DEF ListInv, Listing, ToldTrue, Course
<1>5. Polled' \subseteq Present'
  <2>1. Polled \cap Leaving = {}
    BY DEF Polled, Leaving, Polling
  <2> QED
    BY <2>1 DEF ListInv, Listing, ToldTrue, Course
<1> QED
  BY <1>3, <1>4, <1>5 DEF Listing

LEMMA AddsKeeps ==
  ASSUME ListInv, Course, ProcessorServes, NEW c \in Known, c = Head(c7).conn, Adds(c)
  PROVE  Listing'
<1> DEFINE e == [id |-> id[c], conn |-> c]
           W == [id : Ids, conn : Conns]
<1>1. /\ c \in Conns /\ e \in W /\ e.id = id[c] /\ e.conn = c /\ UNCHANGED id
      /\ Known' = Known /\ processors \in Seq(W)
  BY DEF ListInv, Typed, MessagesFit, TableFits, ProcessorServes, Known, register
<1>2. UNCHANGED <<c8, answers>> /\ c7' = Tail(c7) /\ c7 # <<>>
  BY DEF ProcessorServes
<1>3. CASE Listed(c) = {}
  <2>1. processors' = Append(processors, e) /\ reply' = Yes(c)
    BY <1>3 DEF Adds, Yes
  <2>2. \A k \in DOMAIN processors : processors[k].id # id[c]
    BY <1>3 DEF Listed
  <2> HIDE DEF e
  <2>3. /\ DOMAIN processors' = DOMAIN processors \cup {Len(processors) + 1}
        /\ processors'[Len(processors) + 1] = e
        /\ \A i \in DOMAIN processors : processors'[i] = processors[i]
    BY <1>1, <2>1, Appended
  <2>4. OwnEntries'
    BY <1>1, <2>2, <2>3 DEF ListInv, Listing, OwnEntries
  <2>5. Present \subseteq Present' /\ c \in Present'
    BY <1>1, <2>3 DEF Present
  <2>6. Confirmed' \subseteq Confirmed \cup {c}
    BY <1>2, <2>1 DEF Confirmed, Yes
  <2> QED
    BY <1>2, <2>4, <2>5, <2>6, ServedKeeps
<1>4. CASE Listed(c) # {}
  <2>1. processors' = processors /\ reply'.ok = FALSE
    BY <1>4 DEF Adds
  <2>2. Present' = Present /\ OwnEntries'
    BY <1>1, <2>1 DEF Present, ListInv, Listing, OwnEntries
  <2>3. Confirmed' \subseteq Confirmed
    BY <1>2, <2>1 DEF Confirmed, Yes
  <2> QED
    BY <1>2, <2>2, <2>3, ServedKeeps
<1> QED
  BY <1>3, <1>4

LEMMA HostsKeeps ==
  ASSUME ListInv, Course, ProcessorServes, NEW c \in Known, c = Head(c7).conn, Hosts(c)
  PROVE  Listing'
<1>1. UNCHANGED <<id, handler, c8, answers, processors>> /\ c7' = Tail(c7) /\ c7 # <<>>
  BY DEF ProcessorServes, Hosts, register
<1>2. reply'.op = "module"
  BY DEF Hosts
<1>3. Confirmed' \subseteq Confirmed
  BY <1>1, <1>2 DEF Confirmed, Yes
<1>4. Present' = Present /\ OwnEntries'
  BY <1>1 DEF Present, ListInv, Listing, OwnEntries, Known
<1> QED
  BY <1>1, <1>3, <1>4, ServedKeeps

\* What is dropped is the entry of the one who asks: it is listed, and no other under its identifier.
LEMMA DropsKeeps ==
  ASSUME ListInv, Course, ProcessorServes, NEW c \in Known, c = Head(c7).conn, Drops(c),
         Head(c7).op = "delete"
  PROVE  Listing'
<1> DEFINE W == [id : Ids, conn : Conns]
           p == PlaceOf(c)
<1>1. UNCHANGED <<id, handler, c8, answers>> /\ c7' = Tail(c7) /\ c7 # <<>>
  BY DEF ProcessorServes, register
<1>2. processors \in Seq(W) /\ c7 \in Seq(Request)
  BY DEF ListInv, Typed, TableFits, MessagesFit, Requests
<1>3. c \in Leaving \cap Present
  BY <1>1, <1>2, HeadAndTail DEF ListInv, Listing, DropsOwn
<1>4. p \in DOMAIN processors /\ processors[p].conn = c
  <2>1. PICK k \in DOMAIN processors : processors[k].conn = c
    BY <1>3 DEF Present
  <2>2. processors[k].id = id[c]
    BY <2>1 DEF ListInv, Listing, OwnEntries
  <2>3. Listed(c) = {k}
    BY <2>1, <2>2 DEF Listed, ListInv, Listing, OwnEntries
  <2>4. p = k
    BY <2>3 DEF PlaceOf
  <2> QED
    BY <2>1, <2>4
<1>5. processors' = RemoveAt(processors, p) /\ reply'.op = "delete"
  <2>1. processors # <<>>
    BY <1>4
  <2> QED
    BY <2>1 DEF Drops
<1> HIDE DEF p
<1>6. Confirmed' \subseteq Confirmed
  BY <1>1, <1>5 DEF Confirmed, Yes
<1>7. /\ DOMAIN processors' = 1..(Len(processors) - 1) /\ DOMAIN processors = 1..Len(processors)
      /\ Len(processors) \in Nat /\ p \in 1..Len(processors)
      /\ \A i \in 1..(p - 1) : processors'[i] = processors[i]
      /\ \A i \in p..(Len(processors) - 1) : processors'[i] = processors[i + 1]
  <2>1. Len(processors) \in Nat /\ DOMAIN processors = 1..Len(processors)
    BY <1>2
  <2>2. /\ DOMAIN RemoveAt(processors, p) = 1..(Len(processors) - 1)
        /\ \A i \in 1..(p - 1) : RemoveAt(processors, p)[i] = processors[i]
        /\ \A i \in p..(Len(processors) - 1) : RemoveAt(processors, p)[i] = processors[i + 1]
    <3> HIDE DEF W
    <3> QED
      BY <1>2, <1>4, RemovesAt
  <2> QED
    BY <1>4, <1>5, <2>1, <2>2
<1>8. ASSUME NEW k \in DOMAIN processors, k # p
      PROVE  \E i \in DOMAIN processors' : processors'[i] = processors[k]
  <2>1. CASE k < p
    BY <1>7, <1>8, <2>1
  <2>2. CASE k > p
    <3>1. k - 1 \in p..(Len(processors) - 1) /\ (k - 1) + 1 = k /\ k - 1 \in DOMAIN processors'
      BY <1>7, <1>8, <2>2
    <3> QED
      BY <1>7, <3>1
  <2> QED
    BY <1>7, <1>8, <2>1, <2>2
<1>9. ASSUME NEW i \in DOMAIN processors'
      PROVE  \E k \in DOMAIN processors : processors'[i] = processors[k] /\ k = (IF i < p THEN i ELSE i + 1)
  <2>1. CASE i < p
    BY <1>7, <1>9, <2>1
  <2>2. CASE i >= p
    BY <1>7, <1>9, <2>2
  <2> QED
    BY <1>7, <1>9, <2>1, <2>2
<1>10. Present \ {c} \subseteq Present'
  BY <1>4, <1>8 DEF Present
<1>11. OwnEntries'
  <2>1. ASSUME NEW i \in DOMAIN processors'
        PROVE  processors'[i].conn \in Known' /\ processors'[i].id = id'[processors'[i].conn]
    BY <1>1, <1>9, <2>1 DEF ListInv, Listing, OwnEntries, Known
  <2>2. ASSUME NEW i \in DOMAIN processors', NEW j \in DOMAIN processors',
               processors'[i].id = processors'[j].id
        PROVE  i = j
    <3>1. PICK k \in DOMAIN processors : processors'[i] = processors[k] /\ k = (IF i < p THEN i ELSE i + 1)
      BY <1>9
    <3>2. PICK l \in DOMAIN processors : processors'[j] = processors[l] /\ l = (IF j < p THEN j ELSE j + 1)
      BY <1>9
    <3>3. k = l
      BY <2>2, <3>1, <3>2 DEF ListInv, Listing, OwnEntries
    <3> QED
      BY <1>7, <3>1, <3>2, <3>3
  <2> QED
    BY <2>1, <2>2 DEF OwnEntries
<1> QED
  BY <1>1, <1>3, <1>6, <1>10, <1>11, ServedKeeps

LEMMA StepListing ==
  ASSUME ListInv, [Next]_vars
  PROVE  Listing'
<1>t. Typed /\ Course
  BY AllOn DEF ListInv
<1>1. CASE UNCHANGED <<c7, processors, c8, answers, reply>>
  BY <1>1, <1>t, CourseKeeps, SameAnswers
<1>2. ASSUME NEW c \in Conns, Connect(c) PROVE Listing'
  BY <1>t, <1>2, AskKeeps DEF Connect, Ops
<1>3. ASSUME NEW c \in Conns, OnMessage(c) PROVE Listing'
  BY <1>t, <1>3, AskKeeps DEF OnMessage, Ops
<1>4. ASSUME NEW c \in Conns, Disconnect(c) PROVE Listing'
  <2>1. handler[c] = "disconnect" /\ handler'[c] = "disconnecting"
    BY <1>4, <1>t DEF Disconnect, Moves, Typed, LinksFit
  <2>2. c \in Polled /\ c \in Leaving'
    BY <2>1 DEF Polled, Polling, Leaving
  <2> QED
    BY <1>t, <1>4, <2>2, AskKeeps DEF Disconnect, Ops
<1>5. CASE ProcessorServes
  <2>1. Head(c7).conn \in Known
    BY <1>t, <1>5, HeadFits DEF ProcessorServes
  <2> QED
    BY <1>t, <1>5, <2>1, AddsKeeps, HostsKeeps, DropsKeeps DEF ProcessorServes
<1>6. CASE ProcessorReplies
  <2>1. reply \in Answer /\ c8 \in Seq(Answer)
    BY <1>t, <1>6 DEF ProcessorReplies, Typed, MessagesFit
  <2>2. /\ UNCHANGED <<c7, processors, answers>> /\ reply' = NoReply /\ c8' = Append(c8, reply)
    BY <1>6 DEF ProcessorReplies
  <2>3. /\ DOMAIN c8' = DOMAIN c8 \cup {Len(c8) + 1} /\ c8'[Len(c8) + 1] = reply
        /\ \A i \in DOMAIN c8 : c8'[i] = c8[i]
    BY <2>1, <2>2, Appended
  <2>4. \A c : Yes(c) # NoReply
    BY DEF Yes, NoReply
  <2>5. Confirmed' \subseteq Confirmed
    BY <2>2, <2>3, <2>4 DEF Confirmed
  <2> QED
    BY <1>t, <2>2, <2>5, CourseKeeps
<1>7. CASE SocketTakesResponse
  <2>1. c8 \in Seq(Answer)
    BY <1>t DEF Typed, MessagesFit
  <2>2. /\ UNCHANGED <<c7, processors, reply>> /\ c8 # <<>> /\ c8' = Tail(c8)
        /\ answers' \subseteq answers \cup {Head(c8)}
    BY <1>7 DEF SocketTakesResponse
  <2>3. Confirmed' \subseteq Confirmed
    BY <2>1, <2>2, HeadAndTail DEF Confirmed
  <2> QED
    BY <1>t, <2>2, <2>3, CourseKeeps
<1>8. \/ UNCHANGED <<c7, processors, c8, answers, reply>>
      \/ ProcessorServes \/ ProcessorReplies \/ SocketTakesResponse
      \/ \E c \in Conns : Connect(c) \/ OnMessage(c) \/ Disconnect(c)
  BY DEF Next, Goroutine, Register, ConnectReturns, PollInterrupt, PollSend, PollReceive, Release,
         WorkerDrops, Receive, DecodeFails, ListenerInterrupts, SocketSends, RunnerDispatches,
         vars, threads
<1> QED
  BY <1>1, <1>2, <1>3, <1>4, <1>5, <1>6, <1>7, <1>8

LEMMA StepList == ListInv /\ [Next]_vars => ListInv'
BY StepTyped, StepListing DEF ListInv

LEMMA InitList == Init => ListInv
<1> SUFFICES ASSUME Init PROVE ListInv
  OBVIOUS
<1>1. c7 = <<>> /\ c8 = <<>> /\ processors = <<>> /\ answers = {} /\ reply = NoReply
  BY DEF Init
<1>2. Confirmed = {} /\ Polled = {}
  BY <1>1 DEF Init, Confirmed, Polled, Polling, Yes, NoReply
<1>3. Listing
  BY <1>1, <1>2 DEF Listing, OwnEntries, DropsOwn, ToldTrue
<1> QED
  BY <1>3, InitTyped DEF ListInv

\* A connected worker is in the table under its own identifier, for any connections, sizes
\* and delays: a late request of a connection that had the identifier before drops nobody else.
THEOREM ListedWorkers == Spec => []WorkerIsListed
<1>1. ListInv => WorkerIsListed
  <2> SUFFICES ASSUME ListInv, NEW c \in Conns, handler[c] \in Polling
               PROVE  \E k \in DOMAIN processors : processors[k] = [id |-> id[c], conn |-> c]
    BY DEF WorkerIsListed
  <2>1. PICK k \in DOMAIN processors : processors[k].conn = c
    BY DEF ListInv, Listing, Polled, Present
  <2>2. processors[k] \in [id : Ids, conn : Conns]
    <3> DEFINE W == [id : Ids, conn : Conns]
    <3>1. processors \in Seq(W)
      BY DEF ListInv, Typed, TableFits
    <3> HIDE DEF W
    <3>2. processors[k] \in W
      BY <2>1, <3>1
    <3> QED
      BY <3>2 DEF W
  <2>3. processors[k].id = id[c]
    BY <2>1 DEF ListInv, Listing, OwnEntries
  <2> QED
    BY <2>1, <2>2, <2>3
<1> QED
  BY <1>1, InitList, StepList, PTL DEF Spec
=============================================================================
