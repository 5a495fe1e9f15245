----------------------------- MODULE ApiProofs -----------------------------
(***************************************************************************)
(* Proofs about what operators and workers can ask of the core in Api, for *)
(* any workers, modules, functions, pipelines and calls.  The processor    *)
(* table's lists stay together, and a registration is lost only in the two *)
(* ways the code has (Inv).  What an operator is told of a change is true, *)
(* and a listing shows what was there (Sound): a request is either on its  *)
(* way or performed, what is filed under a nonce answers the request that  *)
(* was sent under it, and shows who waits for it what there is to see.     *)
(***************************************************************************)
EXTENDS Api, TLAPS

USE RegistryAssumption

TableFits ==
  /\ processors \in Seq(Workers)
  /\ noted \in [Workers -> SUBSET Modules]
  /\ version \in [Modules -> Versions \cup {Absent}]
  /\ hosts \in [Functions -> Seq(Workers)]
  /\ claims \subseteq Workers \X Functions

Inv == TableFits /\ HostsAreListed /\ RegisteredIsOffered

\* What the invariant is about is left as it is.
Stays == UNCHANGED <<processors, noted, version, hosts, claims, clashed, robbed>>

Unique(list) == \A i, j \in DOMAIN list : list[i] = list[j] => i = j

LEMMA InRange ==
  ASSUME NEW list, NEW x
  PROVE  x \in Range(list) <=> \E i \in DOMAIN list : list[i] = x
BY DEF Range

LEMMA Appended ==
  ASSUME NEW S, NEW q \in Seq(S), NEW e \in S, Unique(q), e \notin Range(q)
  PROVE  /\ Append(q, e) \in Seq(S) /\ Unique(Append(q, e)) /\ Append(q, e) # <<>>
         /\ Range(Append(q, e)) = Range(q) \cup {e}
<1>1. /\ Append(q, e) \in Seq(S) /\ DOMAIN Append(q, e) = DOMAIN q \cup {Len(q) + 1}
      /\ Append(q, e)[Len(q) + 1] = e
      /\ \A i \in DOMAIN q : Append(q, e)[i] = q[i]
  OBVIOUS
<1> DEFINE r == Append(q, e)
<1>2. r # <<>>
  OBVIOUS
<1> HIDE DEF r
<1>3. Range(r) = Range(q) \cup {e}
  BY <1>1 DEF Range, r
<1>4. Unique(r)
  BY <1>1 DEF Unique, Range, r
<1> QED
  BY <1>1, <1>2, <1>3, <1>4 DEF r

LEMMA Joins ==
  ASSUME NEW S, NEW s \in Seq(S), NEW t \in Seq(S)
  PROVE  /\ s \o t \in Seq(S) /\ Len(s \o t) = Len(s) + Len(t)
         /\ DOMAIN (s \o t) = 1..(Len(s) + Len(t))
         /\ \A i \in 1..(Len(s) + Len(t)) :
              (s \o t)[i] = IF i <= Len(s) THEN s[i] ELSE t[i - Len(s)]
OBVIOUS

\* RemoveAt leaves what is before the place, and what is behind it one place further on.
LEMMA RemovesAt ==
  ASSUME NEW S, NEW q \in Seq(S), NEW p \in DOMAIN q
  PROVE  /\ RemoveAt(q, p) \in Seq(S) /\ DOMAIN RemoveAt(q, p) = 1..(Len(q) - 1)
         /\ \A i \in 1..(p - 1) : RemoveAt(q, p)[i] = q[i]
         /\ \A i \in p..(Len(q) - 1) : RemoveAt(q, p)[i] = q[i + 1]
<1> DEFINE a == SubSeq(q, 1, p - 1)
           b == SubSeq(q, p + 1, Len(q))
<1>1. p \in Nat /\ 1 <= p /\ p <= Len(q) /\ Len(q) \in Nat /\ DOMAIN q = 1..Len(q)
  OBVIOUS
<1>2. a \in Seq(S) /\ Len(a) = p - 1 /\ \A i \in 1..(p - 1) : a[i] = q[i]
  BY <1>1
<1>3. b \in Seq(S) /\ Len(b) = Len(q) - p /\ \A i \in 1..(Len(q) - p) : b[i] = q[p + i]
  BY <1>1
<1>4. RemoveAt(q, p) = a \o b
  BY DEF RemoveAt
<1> HIDE DEF a, b
<1> DEFINE r == a \o b
<1>5. /\ r \in Seq(S) /\ DOMAIN r = 1..(Len(a) + Len(b))
      /\ \A i \in 1..(Len(a) + Len(b)) : r[i] = IF i <= Len(a) THEN a[i] ELSE b[i - Len(a)]
  BY ONLY <1>2, <1>3, Joins, ZenonT(40)
<1> HIDE DEF r
<1>6. Len(a) + Len(b) = Len(q) - 1
  BY <1>1, <1>2, <1>3
<1>7. ASSUME NEW i \in 1..(p - 1) PROVE r[i] = q[i]
  BY <1>1, <1>2, <1>5, <1>6
<1>8. ASSUME NEW i \in p..(Len(q) - 1) PROVE r[i] = q[i + 1]
  <2>1. i - (p - 1) \in 1..(Len(q) - p) /\ p + (i - (p - 1)) = i + 1
    BY <1>1
  <2>2. r[i] = b[i - (p - 1)]
    BY <1>1, <1>2, <1>5, <1>6
  <2> QED
    BY <1>3, <2>1, <2>2
<1>9. r \in Seq(S) /\ DOMAIN r = 1..(Len(q) - 1)
  BY <1>5, <1>6
<1>10. RemoveAt(q, p) = r
  BY <1>4 DEF r
<1> QED
  BY <1>7, <1>8, <1>9, <1>10

\* From a list without repetition it takes the entry at the place and nothing else.
LEMMA TakesOut ==
  ASSUME NEW S, NEW q \in Seq(S), NEW p \in DOMAIN q, Unique(q)
  PROVE  /\ RemoveAt(q, p) \in Seq(S) /\ Unique(RemoveAt(q, p))
         /\ Range(RemoveAt(q, p)) = Range(q) \ {q[p]}
<1> DEFINE r == RemoveAt(q, p)
<1>1. /\ r \in Seq(S) /\ DOMAIN r = 1..(Len(q) - 1)
      /\ \A i \in 1..(p - 1) : r[i] = q[i]
      /\ \A i \in p..(Len(q) - 1) : r[i] = q[i + 1]
  BY RemovesAt
<1>2. DOMAIN q = 1..Len(q) /\ Len(q) \in Nat /\ p \in 1..Len(q)
  OBVIOUS
<1> HIDE DEF r
<1>3. ASSUME NEW i \in DOMAIN r
      PROVE  \E k \in DOMAIN q : k # p /\ r[i] = q[k] /\ k = (IF i < p THEN i ELSE i + 1)
  <2>1. CASE i < p
    BY <1>1, <1>2, <1>3, <2>1
  <2>2. CASE i >= p
    BY <1>1, <1>2, <1>3, <2>2
  <2> QED
    BY <1>1, <1>2, <1>3, <2>1, <2>2
<1>4. ASSUME NEW k \in DOMAIN q, k # p PROVE \E i \in DOMAIN r : r[i] = q[k]
  <2>1. CASE k < p
    BY <1>1, <1>2, <1>4, <2>1
  <2>2. CASE k > p
    <3>1. k - 1 \in p..(Len(q) - 1) /\ (k - 1) + 1 = k /\ k - 1 \in DOMAIN r
      BY <1>1, <1>2, <1>4, <2>2
    <3> QED
      BY <1>1, <3>1
  <2> QED
    BY <1>2, <1>4, <2>1, <2>2
<1>5. Range(r) \subseteq Range(q) \ {q[p]}
  BY <1>3 DEF Range, Unique
<1>6. Range(q) \ {q[p]} \subseteq Range(r)
  BY <1>4 DEF Range
<1>7. Unique(r)
  <2> SUFFICES ASSUME NEW i \in DOMAIN r, NEW j \in DOMAIN r, r[i] = r[j] PROVE i = j
    BY DEF Unique
  <2>1. PICK k \in DOMAIN q : r[i] = q[k] /\ k = (IF i < p THEN i ELSE i + 1)
    BY <1>3
  <2>2. PICK l \in DOMAIN q : r[j] = q[l] /\ l = (IF j < p THEN j ELSE j + 1)
    BY <1>3
  <2>3. k = l
    BY <2>1, <2>2 DEF Unique
  <2> QED
    BY <1>1, <1>2, <2>1, <2>2, <2>3
<1> QED
  BY <1>1, <1>5, <1>6, <1>7 DEF r

\* The loop stops at the worker it looks for, or else at the last one.
LEMMA Stops ==
  ASSUME NEW S, NEW q \in Seq(S), q # <<>>, NEW w
  PROVE  /\ StopsAt(q, w) \in DOMAIN q
         /\ w \in Range(q) => q[StopsAt(q, w)] = w
         /\ w \notin Range(q) => StopsAt(q, w) = Len(q)
<1>1. CASE w \in Range(q)
  BY <1>1 DEF StopsAt, Range
<1>2. CASE w \notin Range(q)
  BY <1>2 DEF StopsAt
<1> QED
  BY <1>1, <1>2

\* A worker looked for in a list is not in what is left of it; if it was not there the last one goes.
LEMMA WithoutTakes ==
  ASSUME NEW S, NEW q \in Seq(S), NEW w, Unique(q)
  PROVE  /\ Without(q, w) \in Seq(S) /\ Unique(Without(q, w))
         /\ Range(Without(q, w)) \subseteq Range(q) \ {w}
         /\ w \in Range(q) => Range(Without(q, w)) = Range(q) \ {w}
         /\ w \notin Range(q) => \A x \in Range(q) : x = Last(q) \/ x \in Range(Without(q, w))
         /\ q = <<>> => Without(q, w) = <<>>
<1>1. CASE q = <<>>
  <2>1. Without(q, w) = q /\ Range(q) = {}
    BY <1>1 DEF Without, Range
  <2> QED
    BY <1>1, <2>1
<1>2. CASE q # <<>>
  <2> DEFINE p == StopsAt(q, w)
  <2>1. p \in DOMAIN q /\ (w \in Range(q) => q[p] = w) /\ (w \notin Range(q) => p = Len(q))
    BY <1>2, Stops
  <2>2. Without(q, w) = RemoveAt(q, p)
    BY <1>2 DEF Without
  <2> HIDE DEF p
  <2>3. Without(q, w) \in Seq(S) /\ Unique(Without(q, w)) /\ Range(Without(q, w)) = Range(q) \ {q[p]}
    BY <2>1, <2>2, TakesOut
  <2> QED
    BY <1>2, <2>1, <2>3 DEF Last
<1> QED
  BY <1>1, <1>2
-----------------------------------------------------------------------------
(* Each call of the table. *)

\* What HostsAreListed says of the workers, and of each function.
LEMMA ListsFacts ==
  ASSUME TableFits
  PROVE  HostsAreListed <=>
           /\ Unique(processors)
           /\ \A f \in Functions :
                /\ Unique(hosts[f]) /\ (hosts[f] # <<>> => version[f[1]] # Absent)
                /\ \A w \in Range(hosts[f]) : w \in Listed /\ f[1] \in noted[w]
BY DEF HostsAreListed, Unique, HasFunction, HasModule

LEMMA OffersFit ==
  ASSUME NEW o \in Offers
  PROVE  /\ o.worker \in Workers /\ o.module \in Modules /\ o.version \in Versions
         /\ o.version # Absent
         /\ o.functions \subseteq Functions /\ \A f \in o.functions : f[1] = o.module
BY DEF Versions

LEMMA FunctionsFit ==
  ASSUME NEW f \in Functions
  PROVE  f[1] \in Modules
OBVIOUS

LEMMA StaysKeeps ==
  ASSUME Inv, Stays
  PROVE  Inv'
BY DEF Inv, Stays, TableFits, HostsAreListed, RegisteredIsOffered, Listed, HasFunction, HasModule

LEMMA AddProcessorKeeps ==
  ASSUME Inv, NEW w \in Workers, AddProcessor(w)
  PROVE  Inv'
<1>1. /\ processors \in Seq(Workers) /\ Unique(processors) /\ w \notin Range(processors)
      /\ processors' = Append(processors, w) /\ noted' = [noted EXCEPT ![w] = {}]
      /\ UNCHANGED <<version, hosts, claims, clashed, robbed>>
  BY ListsFacts DEF Inv, TableFits, AddProcessor, Listed
<1>2. processors' \in Seq(Workers) /\ Unique(processors)' /\ Listed' = Listed \cup {w}
  BY <1>1, Appended DEF Listed, Unique
<1>3. TableFits'
  BY <1>1, <1>2 DEF Inv, TableFits
<1>4. \A v \in Workers : v # w => noted'[v] = noted[v]
  BY <1>1 DEF Inv, TableFits
<1>5. \A f \in Functions :
        /\ Unique(hosts[f]) /\ (hosts[f] # <<>> => version[f[1]] # Absent)
        /\ \A v \in Range(hosts[f]) : v \in Listed /\ f[1] \in noted[v]
  BY ListsFacts DEF Inv
<1>6. w \notin Listed /\ Listed \subseteq Workers
  BY <1>1 DEF Listed, Range
<1>7. HostsAreListed'
  <2>1. \A f \in Functions : \A v \in Range(hosts[f]) : v \in Listed' /\ f[1] \in noted'[v]
    BY <1>2, <1>4, <1>5, <1>6
  <2> QED
    BY <1>1, <1>2, <1>5, <2>1 DEF HostsAreListed, HasFunction, HasModule, Unique
<1>8. RegisteredIsOffered'
  <2>1. noted'[w] = {}
    BY <1>1 DEF Inv, TableFits
  <2> QED
    BY <1>1, <1>2, <1>4, <1>6, <2>1 DEF Inv, RegisteredIsOffered
<1> QED
  BY <1>3, <1>7, <1>8 DEF Inv

LEMMA AddModuleKeeps ==
  ASSUME Inv, NEW o \in Offers, AddModule(o)
  PROVE  Inv'
<1> DEFINE w == o.worker
           m == o.module
<1>1. /\ w \in Workers /\ m \in Modules /\ o.version \in Versions /\ o.version # Absent
      /\ o.functions \subseteq Functions /\ \A f \in o.functions : f[1] = m
  BY OffersFit
<1>2. /\ w \in Listed /\ m \notin noted[w] /\ noted' = [noted EXCEPT ![w] = @ \cup {m}]
      /\ processors' = processors /\ robbed' = robbed /\ Listed' = Listed
      /\ noted \in [Workers -> SUBSET Modules]
  BY DEF AddModule, Listed, Inv, TableFits
<1>3. /\ noted' \in [Workers -> SUBSET Modules] /\ noted'[w] = noted[w] \cup {m}
      /\ \A v \in Workers : noted[v] \subseteq noted'[v] /\ (v # w => noted'[v] = noted[v])
  BY <1>1, <1>2
<1>4. \A f \in Functions :
        /\ Unique(hosts[f]) /\ (hosts[f] # <<>> => version[f[1]] # Absent)
        /\ \A v \in Range(hosts[f]) : v \in Listed /\ f[1] \in noted[v]
  BY ListsFacts DEF Inv
<1>5. Listed \subseteq Workers
  BY DEF Listed, Range, Inv, TableFits
<1>6. CASE HasModule(m) /\ version[m] # o.version
  <2>1. clashed' = clashed \cup {<<w, m>>} /\ UNCHANGED <<version, hosts, claims>>
    BY <1>6 DEF AddModule
  <2>2. TableFits'
    BY <1>2, <1>3, <2>1 DEF Inv, TableFits
  <2>3. HostsAreListed'
    BY <1>2, <1>3, <1>4, <1>5, <2>1 DEF Inv, HostsAreListed, HasFunction, HasModule, Unique
  <2>4. RegisteredIsOffered'
    BY <1>2, <1>3, <1>5, <2>1 DEF Inv, RegisteredIsOffered
  <2> QED
    BY <2>2, <2>3, <2>4 DEF Inv
<1>7. CASE ~(HasModule(m) /\ version[m] # o.version)
  <2>1. /\ version' = [version EXCEPT ![m] = o.version] /\ hosts' = Joined(o)
        /\ claims' = claims \cup ({w} \X o.functions) /\ clashed' = clashed
    BY <1>7 DEF AddModule
  <2>2. \A f \in Functions : f \in o.functions => w \notin Range(hosts[f])
    BY <1>1, <1>2, <1>4
  <2>3. \A f \in Functions :
          /\ f \notin o.functions => hosts'[f] = hosts[f]
          /\ f \in o.functions => /\ hosts'[f] \in Seq(Workers) /\ Unique(hosts'[f])
                                  /\ Range(hosts'[f]) = Range(hosts[f]) \cup {w}
    <3> SUFFICES ASSUME NEW f \in Functions
                 PROVE  /\ f \notin o.functions => hosts'[f] = hosts[f]
                        /\ f \in o.functions => /\ hosts'[f] \in Seq(Workers) /\ Unique(hosts'[f])
                                                /\ Range(hosts'[f]) = Range(hosts[f]) \cup {w}
      OBVIOUS
    <3>1. hosts'[f] = IF f \in o.functions THEN Append(hosts[f], w) ELSE hosts[f]
      BY <2>1 DEF Joined
    <3>2. hosts[f] \in Seq(Workers) /\ Unique(hosts[f])
      BY <1>4 DEF Inv, TableFits
    <3> QED
      BY <1>1, <2>2, <3>1, <3>2, Appended
  <2>4. TableFits'
    <3>1. hosts' \in [Functions -> Seq(Workers)]
      <4>1. DOMAIN hosts' = Functions /\ hosts' = [f \in Functions |-> hosts'[f]]
        BY <2>1 DEF Joined
      <4>2. \A f \in Functions : hosts'[f] \in Seq(Workers)
        BY <2>3 DEF Inv, TableFits
      <4> QED
        BY <4>1, <4>2
    <3>2. claims' \subseteq Workers \X Functions
      BY <1>1, <2>1 DEF Inv, TableFits
    <3>3. version' \in [Modules -> Versions \cup {Absent}]
      BY <1>1, <2>1 DEF Inv, TableFits
    <3> QED
      BY <1>2, <1>3, <3>1, <3>2, <3>3 DEF Inv, TableFits
  <2>5. HostsAreListed'
    <3>1. ASSUME NEW f \in Functions
          PROVE  /\ version'[f[1]] # Absent \/ hosts'[f] = <<>>
                 /\ \A v \in Range(hosts'[f]) : v \in Listed' /\ f[1] \in noted'[v]
      <4>1. version'[f[1]] # Absent \/ hosts'[f] = <<>>
        <5>1. f[1] \in Modules /\ version \in [Modules -> Versions \cup {Absent}]
          BY FunctionsFit DEF Inv, TableFits
        <5>2. version'[f[1]] = IF f[1] = m THEN o.version ELSE version[f[1]]
          BY <2>1, <5>1
        <5> QED
          BY <1>1, <1>4, <2>3, <5>2
      <4>2. \A v \in Range(hosts'[f]) : v \in Listed' /\ f[1] \in noted'[v]
        <5>1. CASE f \in o.functions
          BY <1>1, <1>2, <1>3, <1>4, <1>5, <2>3, <5>1
        <5>2. CASE f \notin o.functions
          BY <1>2, <1>3, <1>4, <1>5, <2>3, <5>2
        <5> QED
          BY <5>1, <5>2
      <4> QED
        BY <4>1, <4>2
    <3>2. Unique(processors)'
      BY <1>2, ListsFacts DEF Inv, Unique
    <3>3. \A f \in Functions : Unique(hosts'[f])
      BY <1>4, <2>3
    <3> QED
      BY <3>1, <3>2, <3>3 DEF HostsAreListed, HasFunction, HasModule, Unique
  <2>6. RegisteredIsOffered'
    <3>1. ASSUME NEW r \in claims' \ robbed' PROVE r[1] \in Range(hosts'[r[2]])
      <4>1. CASE r \in claims
        <5>1. r[2] \in Functions /\ r[1] \in Range(hosts[r[2]])
          BY <1>2, <3>1, <4>1 DEF Inv, TableFits, RegisteredIsOffered
        <5> QED
          BY <2>3, <5>1
      <4>2. CASE r \in {w} \X o.functions
        BY <1>1, <2>3, <4>2
      <4> QED
        BY <2>1, <3>1, <4>1, <4>2
    <3>2. ASSUME NEW v \in Listed', NEW n \in noted'[v]
          PROVE  \/ <<v, n>> \in clashed'
                 \/ \E p \in Offers : p.worker = v /\ p.module = n /\ ({v} \X p.functions) \subseteq claims'
      <4>1. CASE v = w /\ n = m
        BY <2>1, <4>1
      <4>2. CASE ~(v = w /\ n = m)
        <5>1. v \in Listed /\ n \in noted[v]
          BY <1>2, <1>3, <1>5, <3>2, <4>2
        <5>2. \/ <<v, n>> \in clashed
              \/ \E p \in Offers : p.worker = v /\ p.module = n /\ ({v} \X p.functions) \subseteq claims
          BY <5>1 DEF Inv, RegisteredIsOffered
        <5>3. claims \subseteq claims' /\ clashed' = clashed
          BY <2>1
        <5> QED
          BY <5>2, <5>3
      <4> QED
        BY <4>1, <4>2
    <3> QED
      BY <3>1, <3>2 DEF RegisteredIsOffered
  <2> QED
    BY <2>4, <2>5, <2>6 DEF Inv
<1> QED
  BY <1>6, <1>7

LEMMA RemoveProcessorKeeps ==
  ASSUME Inv, NEW w, RemoveProcessor(w)
  PROVE  Inv'
<1> DEFINE instance == processors[StopsAt(processors, w)]
<1>1. processors \in Seq(Workers) /\ Unique(processors) /\ processors # <<>>
  BY ListsFacts DEF Inv, TableFits, RemoveProcessor
<1>2. StopsAt(processors, w) \in DOMAIN processors
  BY <1>1, Stops
<1>3. processors' = RemoveAt(processors, StopsAt(processors, w))
  BY <1>1 DEF RemoveProcessor, Without
<1>4. /\ instance \in Workers
      /\ processors' \in Seq(Workers) /\ Unique(processors)' /\ Listed' = Listed \ {instance}
  BY <1>1, <1>2, <1>3, TakesOut DEF Listed, Unique
<1>5. /\ hosts' = [f \in Functions |-> Without(hosts[f], instance)]
      /\ \A m \in Modules : version'[m] = version[m]
           \/ Of(m) \subseteq {f \in Functions : hosts'[f] = <<>>}
      /\ version' = [m \in Modules |-> version'[m]]
      /\ \A m \in Modules : version'[m] \in {Absent, version[m]}
  BY DEF RemoveProcessor, Prune
<1>6. /\ noted' = [noted EXCEPT ![instance] = {}]
      /\ claims' = {r \in claims : r[1] # instance}
      /\ clashed' = {r \in clashed : r[1] # instance}
      /\ robbed' = {r \in robbed : r[1] # instance} \cup
           {<<Last(hosts[f]), f>> : f \in {g \in Functions : HasFunction(g) /\ instance \notin Range(hosts[g])}}
  BY DEF RemoveProcessor
<1> HIDE DEF instance
<1>7. \A f \in Functions :
        /\ Unique(hosts[f]) /\ (hosts[f] # <<>> => version[f[1]] # Absent)
        /\ \A v \in Range(hosts[f]) : v \in Listed /\ f[1] \in noted[v]
  BY ListsFacts DEF Inv
<1>8. ASSUME NEW f \in Functions
      PROVE  /\ hosts'[f] \in Seq(Workers) /\ Unique(hosts'[f])
             /\ Range(hosts'[f]) \subseteq Range(hosts[f]) \ {instance}
             /\ instance \in Range(hosts[f]) => Range(hosts'[f]) = Range(hosts[f]) \ {instance}
             /\ instance \notin Range(hosts[f]) =>
                  \A x \in Range(hosts[f]) : x = Last(hosts[f]) \/ x \in Range(hosts'[f])
             /\ hosts[f] = <<>> => hosts'[f] = <<>>
  <2>1. hosts[f] \in Seq(Workers) /\ Unique(hosts[f]) /\ hosts'[f] = Without(hosts[f], instance)
    BY <1>5, <1>7 DEF Inv, TableFits
  <2> DEFINE q == hosts[f]
             left == Without(q, instance)
  <2>2. /\ left \in Seq(Workers) /\ Unique(left)
        /\ Range(left) \subseteq Range(q) \ {instance}
        /\ instance \in Range(q) => Range(left) = Range(q) \ {instance}
        /\ instance \notin Range(q) => \A x \in Range(q) : x = Last(q) \/ x \in Range(left)
        /\ q = <<>> => left = <<>>
    <3> HIDE DEF q
    <3>1. q \in Seq(Workers) /\ Unique(q)
      BY <2>1 DEF q
    <3> QED
      BY ONLY <3>1, WithoutTakes
  <2> QED
    BY ONLY <2>1, <2>2
<1>9. /\ noted' \in [Workers -> SUBSET Modules]
      /\ \A v \in Workers : v # instance => noted'[v] = noted[v]
  BY <1>4, <1>6 DEF Inv, TableFits
<1>10. Listed \subseteq Workers
  BY <1>1 DEF Listed, Range
<1>11. TableFits'
  <2>1. hosts' \in [Functions -> Seq(Workers)]
    BY <1>5, <1>8
  <2>2. version' \in [Modules -> Versions \cup {Absent}]
    BY <1>5 DEF Inv, TableFits
  <2> QED
    BY <1>4, <1>6, <1>9, <2>1, <2>2 DEF Inv, TableFits
<1>12. HostsAreListed'
  <2>1. ASSUME NEW f \in Functions, hosts'[f] # <<>> PROVE version'[f[1]] # Absent
    <3>1. f[1] \in Modules /\ f \in Of(f[1])
      BY FunctionsFit DEF Of
    <3>2. version'[f[1]] = version[f[1]]
      BY <1>5, <2>1, <3>1
    <3> QED
      BY <1>7, <1>8, <2>1, <3>2
  <2>2. ASSUME NEW f \in Functions, NEW v \in Range(hosts'[f])
        PROVE  v \in Listed' /\ f[1] \in noted'[v]
    BY <1>4, <1>7, <1>8, <1>9, <1>10
  <2> QED
    BY <1>4, <1>8, <2>1, <2>2 DEF HostsAreListed, HasFunction, HasModule, Unique
<1>13. RegisteredIsOffered'
  <2>1. ASSUME NEW r \in claims' \ robbed' PROVE r[1] \in Range(hosts'[r[2]])
    <3>1. r \in claims /\ r \notin robbed /\ r[1] # instance /\ r[2] \in Functions /\ r = <<r[1], r[2]>>
      BY <1>6, <2>1 DEF Inv, TableFits
    <3>2. r[1] \in Range(hosts[r[2]])
      BY <3>1 DEF Inv, RegisteredIsOffered
    <3>3. hosts[r[2]] # <<>>
      BY <3>2 DEF Range
    <3>4. instance \notin Range(hosts[r[2]]) => r[1] # Last(hosts[r[2]])
      BY <1>6, <2>1, <3>1, <3>3 DEF HasFunction
    <3> QED
      BY <1>8, <3>1, <3>2, <3>4
  <2>2. ASSUME NEW v \in Listed', NEW n \in noted'[v]
        PROVE  \/ <<v, n>> \in clashed'
               \/ \E p \in Offers : p.worker = v /\ p.module = n /\ ({v} \X p.functions) \subseteq claims'
    <3>1. v \in Listed /\ v # instance /\ n \in noted[v]
      BY <1>4, <1>9, <1>10, <2>2
    <3>2. \/ <<v, n>> \in clashed
          \/ \E p \in Offers : p.worker = v /\ p.module = n /\ ({v} \X p.functions) \subseteq claims
      BY <3>1 DEF Inv, RegisteredIsOffered
    <3>3. \A S : ({v} \X S) \subseteq claims => ({v} \X S) \subseteq claims'
      BY <1>6, <3>1
    <3>4. <<v, n>> \in clashed => <<v, n>> \in clashed'
      BY <1>6, <3>1
    <3> QED
      BY <3>2, <3>3, <3>4
  <2> QED
    BY <2>1, <2>2 DEF RegisteredIsOffered
<1> QED
  BY <1>11, <1>12, <1>13 DEF Inv
-----------------------------------------------------------------------------
(* What the requests do to the table. *)

Touches ==
  \/ Stays
  \/ \E w \in Workers : AddProcessor(w) \/ RemoveProcessor(w)
  \/ \E o \in Offers : AddModule(o)

LEMMA ProcessorTouches ==
  ASSUME TableFits, ProcessorServes
  PROVE  Touches
<1>1. ASSUME \/ handleGetProcessor \/ handleGetModule \/ handleGetFunctions
             \/ handleGetRun \/ handleCountRuns \/ handleDeleteRun
      PROVE  Stays
  BY <1>1 DEF handleGetProcessor, handleGetModule, handleGetFunctions, handleGetRun,
              handleCountRuns, handleDeleteRun, Shows, Stays, tableVars
<1>2. ASSUME \/ handleMountModule \/ handleUnMountModule
             \/ handleMountFunction \/ handleUnMountFunction
      PROVE  Stays
  BY <1>2 DEF handleMountModule, handleUnMountModule, handleMountFunction, handleUnMountFunction,
              Changes, MountModule, UnMountModule, MountFunction, UnMountFunction, untouched,
              Stays, tableVars
<1>3. ASSUME handleCreateRun PROVE Stays
  BY <1>3 DEF handleCreateRun, FindCandidateProcessor, Stays, tableVars
<1>4. CASE handleCreateProcessor
  BY <1>4 DEF handleCreateProcessor, TableEvent, Event, Touches
<1>5. CASE handleCreateModule
  BY <1>5 DEF handleCreateModule, TableEvent, Event, Touches
<1>6. CASE handleDeleteProcessor
  <2>1. Listed \subseteq Workers
    BY DEF TableFits, Listed, Range
  <2> QED
    BY <1>6, <2>1 DEF handleDeleteProcessor, TableEvent, Event, Touches
<1> QED
  BY <1>1, <1>2, <1>3, <1>4, <1>5, <1>6 DEF ProcessorServes, Touches

LEMMA OthersTouch ==
  ASSUME DatabaseServes \/ SchedulerServes \/ UserActs \/ UNCHANGED vars
  PROVE  Stays
<1>1. CASE DatabaseServes
  BY <1>1 DEF DatabaseServes, handleGetPipelineRecord, handleGetNamespaceRecord,
              handleCreatePipelineRecord, handleUpdatePipelineRecord, handleGetStatisticRecord,
              handleSummaryStatistics, handleCreateStatisticRecord, handleDeletePipelineRecord,
              StoresPipelines, Event, Shows, Stays, tableVars
<1>2. CASE SchedulerServes
  BY <1>2 DEF SchedulerServes, handleGetJob, handleGetQueue, handleCreateJob, handleDeleteJob,
              StoresJobs, Shows, Stays, tableVars
<1>3. CASE UserActs
  BY <1>3 DEF UserActs, Begin, ReadsAnswer, TimesOut, Stays, tableVars
<1>4. CASE UNCHANGED vars
  BY <1>4 DEF vars, Stays, tableVars
<1> QED
  BY <1>1, <1>2, <1>3, <1>4

LEMMA StepInv == Inv /\ [Next]_vars => Inv'
<1> SUFFICES ASSUME Inv, [Next]_vars PROVE Inv'
  OBVIOUS
<1>1. Touches
  BY ProcessorTouches, OthersTouch DEF Next, Inv, Touches
<1> QED
  BY <1>1, StaysKeeps, AddProcessorKeeps, RemoveProcessorKeeps, AddModuleKeeps DEF Touches

LEMMA InitInv == Init => Inv
<1> SUFFICES ASSUME Init PROVE Inv
  OBVIOUS
<1>1. /\ processors = <<>> /\ noted = [w \in Workers |-> {}] /\ claims = {}
      /\ version = [m \in Modules |-> Absent] /\ hosts = [f \in Functions |-> <<>>]
  BY DEF Init, Empty
<1>2. Range(<<>>) = {} /\ Unique(<<>>)
  BY DEF Range, Unique
<1>3. TableFits
  BY <1>1 DEF TableFits
<1>4. HostsAreListed
  <2>1. \A f \in Functions : hosts[f] = <<>>
    BY <1>1
  <2> QED
    BY <1>1, <1>2, <1>3, <2>1, ListsFacts
<1>5. RegisteredIsOffered
  <2>1. Listed = {}
    BY <1>1, <1>2 DEF Listed
  <2> QED
    BY <1>1, <2>1 DEF RegisteredIsOffered
<1> QED
  BY <1>3, <1>4, <1>5 DEF Inv

\* A worker a run can be placed on is attached and has registered the module, once.
THEOREM HostsListed == Spec => []HostsAreListed
<1>1. Inv => HostsAreListed
  BY DEF Inv
<1> QED
  BY <1>1, InitInv, StepInv, PTL DEF Spec

\* A worker keeps what it registered until it goes, but for the two ways the table loses it.
THEOREM Offered == Spec => []RegisteredIsOffered
<1>1. Inv => RegisteredIsOffered
  BY DEF Inv
<1> QED
  BY <1>1, InitInv, StepInv, PTL DEF Spec
-----------------------------------------------------------------------------
(* What operators are told.  A request is on its way once or performed once; while the pool *)
(* of nonces has not gone round, what is filed under a nonce answers the request sent under *)
(* it, and says what became of that request.                                                *)

\* A request that finds what it asks for in its thread, and the arguments it needs.
Fitting(rq) ==
  /\ rq.ch \in Channels
  /\ rq.act \in Changing =>
       /\ rq.wants = "none"
       /\ rq.rec = "Pipeline" => rq.arg \in Pipelines
       /\ rq.rec = "Job"      => rq.arg[1] \in Jobs
       /\ rq.rec = "Module"   => rq.arg[1] \in Modules
       /\ rq.rec = "Function" => rq.arg \in Functions

\* The later requests of a listing, and the first one of any call.
Leaf(http) ==
  /\ Fitting(http.via.asks)
  /\ http.via.asks.act = "Get" /\ http.via.asks.rec \in {"Function", "Pipeline", "Run"}
  /\ ~http.strict
Root(c) ==
  LET rq == c.first.via.asks IN
  /\ rq = Nothing \/ Fitting(rq)
  /\ rq.act \in Changing => /\ c.each = "none" /\ c.first.strict
                            /\ rq.rec # "Job" => c.first.via.failure # "OK"
  /\ c.each # "none" =>
       /\ c.each \in {"functions", "pipelines", "runs"}
       /\ rq = IF c.each = "functions" THEN GetModulesRq ELSE GetNamespacesRq

\* The nonce of a request before the pool goes round.
NonceFor(id) == IF id <= RangeSize THEN id ELSE 0

PoolFits == /\ cur \in 0..RangeSize /\ issued \in Nat /\ performed \subseteq 1..issued
            /\ ~Wrapped => cur = NonceFor(issued)

\* A queue of any things.
Queue(q) == q \in Seq({q[i] : i \in DOMAIN q})

RunsFit == /\ Queue(runs)
           /\ \A i \in DOMAIN runs : runs[i].pipeline \in Pipelines /\ runs[i].by \in 1..issued

TableSound == TableTypeOK /\ pipelines \cup recorded \subseteq Pipelines /\ jobs \subseteq Jobs

OnTheWay(id) == \E ch \in Channels : \E i \in DOMAIN chan[ch] : chan[ch][i].id = id

\* Requests on their way have not been performed, and are those their operators wait for.
Requests ==
  /\ DOMAIN chan = Channels
  /\ \A ch \in Channels :
       /\ Queue(chan[ch])
       /\ \A i \in DOMAIN chan[ch] :
            /\ chan[ch][i].rq.ch = ch /\ Fitting(chan[ch][i].rq)
            /\ chan[ch][i].nonce \in 0..RangeSize /\ chan[ch][i].id \in 1..issued
            /\ ~Wrapped => chan[ch][i].nonce = NonceFor(chan[ch][i].id)
            /\ chan[ch][i].id \notin performed
            /\ \A u \in Users : Busy(u) /\ user[u].id = chan[ch][i].id => Asked(u) = chan[ch][i].rq
SentOnce ==
  \A c, d \in Channels : \A i \in DOMAIN chan[c], j \in DOMAIN chan[d] :
    chan[c][i].id = chan[d][j].id => c = d /\ i = j

\* The request of a listing under whose name x is found.
Name(each, x) == IF each = "runs" THEN runs[x].pipeline[1] ELSE x[1]
LeafOf(each, x) == Follows(each, Name(each, x))

\* An answer that shows what user u has to see.
Honest(u, ans) ==
  LET each == user[u].call.each IN
  /\ Asked(u).act \in Changing => ans.data \subseteq {i \in DOMAIN runs : runs[i].by = ans.id}
  /\ each # "none" /\ user[u].http = user[u].call.first =>
       ans.ok /\ ans.kind = Asked(u).wants /\ \A x \in stable[u] : Name(each, x) \in ans.data
  /\ each # "none" /\ user[u].http # user[u].call.first =>
       \A x \in stable[u] : user[u].http = LeafOf(each, x) =>
         ans.ok /\ ans.kind = Asked(u).wants /\ x \in ans.data

Replies ==
  /\ DOMAIN responses = Channels
  /\ \A ch \in Channels :
       /\ DOMAIN responses[ch] = 0..RangeSize
       /\ \A n \in 0..RangeSize :
            \A ans \in {responses[ch][n]} \ {Silence} :
              /\ ans.id \in 1..issued /\ ~OnTheWay(ans.id)
              /\ ~Wrapped => NonceFor(ans.id) = n
              /\ ans.ok <=> ans.id \in performed
              /\ \A u \in Users : Busy(u) /\ user[u].id = ans.id => Honest(u, ans)

\* What a listing has to show is there.
StableIsThere ==
  /\ stable = [u \in Users |-> stable[u]]
  /\ \A u \in Users : stable[u] \subseteq Items(user[u].call.each, hosts, pipelines, recorded, runs)

\* What a listing has to show was seen, is asked for or will be.
Covered(u) ==
  LET each == user[u].call.each IN
  ~Wrapped /\ ~user[u].lost /\ each # "none" /\ user[u].http # user[u].call.first =>
    \A x \in stable[u] : \/ x \in user[u].got
                         \/ user[u].http = LeafOf(each, x) \/ LeafOf(each, x) \in user[u].todo

Waiting(u) ==
  /\ user[u].call \in Calls
  /\ user[u].nonce \in 0..RangeSize /\ user[u].id \in 1..issued
  /\ ~Wrapped => user[u].nonce = NonceFor(user[u].id)
  /\ \/ user[u].http = user[u].call.first /\ user[u].got = {} /\ user[u].todo = {}
     \/ user[u].call.each # "none" /\ Leaf(user[u].http)
  /\ Fitting(Asked(u))
  /\ \A http \in user[u].todo : user[u].call.each # "none" /\ Leaf(http)
  /\ Covered(u)

\* What is told of a change.
TruthTo(u) ==
  Asked(u).act \in Changing /\ ~Wrapped =>
    /\ user[u].told = "nil" /\ Asked(u).rec # "Job" => user[u].id \in performed
    /\ user[u].told = "error" /\ ~user[u].lost => user[u].id \notin performed /\ ~OnTheWay(user[u].id)
    /\ user[u].told = "nil" /\ Asked(u).rec = "Run" =>
         user[u].got \subseteq {i \in DOMAIN runs : runs[i].by = user[u].id}
WholeTo(u) ==
  user[u].told = "nil" /\ user[u].call.each # "none" /\ ~user[u].lost /\ ~Wrapped =>
    stable[u] \subseteq user[u].got

UsersFit ==
  /\ DOMAIN user = Users
  /\ \A u \in Users :
       /\ DOMAIN user[u] = DOMAIN Idle
       /\ user[u].told \in {"nothing yet", "waiting", "nil", "error"}
       /\ user[u].id \in 0..issued
       /\ Busy(u) => Waiting(u)
       /\ TruthTo(u) /\ WholeTo(u)

Sound == /\ Inv /\ TableSound /\ PoolFits /\ RunsFit
         /\ Requests /\ SentOnce /\ Replies /\ StableIsThere /\ UsersFit

LEMMA ChangingActs == \A act \in {"Get", "Count", "Summary", "none"} : act \notin Changing
BY DEF Changing

LEMMA ChannelNames == Channels = {"c5", "c1", "c20"} /\ "none" \notin Channels
BY DEF Channels, ThreadOf

\* Every call an operator can make starts with a request that fits.
LEMMA CallsFit ==
  ASSUME NEW c \in Calls
  PROVE  Root(c)
<1>c. c \in Commands
  BY CallsAssumption
<1> USE ChannelNames, ChangingActs
<1>1. ASSUME NEW callback, NEW strict, c = Command(Http(callback, strict)),
             \/ callback.asks.act \notin Changing
             \/ strict /\ (callback.asks.rec # "Job" => callback.failure # "OK"),
             callback.asks = Nothing \/ Fitting(callback.asks)
      PROVE  Root(c)
  BY <1>1 DEF Root, Command, Http
<1>2. ASSUME NEW http, NEW each \in {"functions", "pipelines", "runs"}, c = Listing(http, each),
             http.via.asks = IF each = "functions" THEN GetModulesRq ELSE GetNamespacesRq
      PROVE  Root(c)
  BY <1>2 DEF Root, Listing, Fitting, GetModulesRq, GetNamespacesRq, Rq
<1>3. CASE c \in {ListProcessors, ListModules, ListNamespaces, ListJobs, Curl(getJobQueueCallback)}
  BY <1>1, <1>3 DEF ListProcessors, ListModules, ListNamespaces, ListJobs, Curl,
     getProcessorCallback, getModuleCallback, getNamespaceCallback, getJobCallback,
     getJobQueueCallback, Callback, GetProcessorsRq, GetModulesRq, GetNamespacesRq, GetJobsRq,
     JobQueueRq, Rq, Fitting
<1>4. CASE c \in {ListFunctions, ListPipelines, ListRuns}
  BY <1>2, <1>4 DEF ListFunctions, ListPipelines, ListRuns, Http, Callback, getModuleCallback,
     getNamespaceCallback
<1>5. ASSUME NEW m \in Modules, NEW on \in BOOLEAN, c = setModuleMounted(m, on) PROVE Root(c)
  BY <1>1, <1>5 DEF setModuleMounted, putModuleCallback, Callback, MountModuleRq, UnmountModuleRq,
     Rq, Fitting
<1>6. ASSUME NEW f \in Functions, NEW on \in BOOLEAN, c = setFunctionMounted(f, on) PROVE Root(c)
  BY <1>1, <1>6 DEF setFunctionMounted, putFunctionCallback, Callback, MountFunctionRq,
     UnmountFunctionRq, Rq, Fitting
<1>7. ASSUME NEW ns \in Namespaces,
             c \in {IsPipelineOnCore(ns), Curl(getRunCallback(ns)), Curl(getRunCountCallback(ns)),
                    Curl(getStatisticCallback(<<ns>>)), Curl(getStatisticInfoCallback(ns))}
      PROVE  Root(c)
  BY <1>1, <1>7 DEF IsPipelineOnCore, GetPipelinesInNamespace, Curl, Command, Http, Callback,
     getPipelineCallback, getRunCallback, getRunCountCallback, getStatisticCallback,
     getStatisticInfoCallback, GetPipelineRq, GetRunRq, GetRunCountRq, GetStatisticRq, SummaryRq,
     Rq, Fitting
<1>8. ASSUME NEW p \in Pipelines,
             c \in {CreatePipelineOnCore(p), RemovePipelineFromCore(p), RunPipelineOnCore(p),
                    GetPipeline(p)}
      PROVE  Root(c)
  BY <1>1, <1>8 DEF CreatePipelineOnCore, RemovePipelineFromCore, RunPipelineOnCore, GetPipeline,
     postPipelineCallback, deletePipelineCallback, postRunCallback, getPipelineCallback, Callback,
     Nothing, DeletePipelineRq, CreateRunRq, GetPipelineRq, Rq, Fitting
<1>9. ASSUME NEW p \in Pipelines,
             c \in {Curl(postPipelineCallback(p, TRUE)), Curl(putPipelineCallback(p)),
                    Curl(getStatisticCallback(p))}
      PROVE  Root(c)
  BY <1>1, <1>9 DEF Curl, postPipelineCallback, putPipelineCallback, getStatisticCallback,
     Callback, StorePipelineRq, ReplacePipelineRq, GetStatisticRq, Rq, Fitting
<1>10. ASSUME NEW id \in RunIds, c = StopRun(id) PROVE Root(c)
  BY <1>1, <1>10 DEF StopRun, deleteRunCallback, Callback, StopRunRq, Rq, Fitting
<1>11. ASSUME NEW j \in Jobs, c \in {CreateJob(j), DeleteJob(j)} PROVE Root(c)
  BY <1>1, <1>11 DEF CreateJob, DeleteJob, postJobCallback, deleteJobCallback, Callback, CreateJobRq,
     DeleteJobRq, Rq, Fitting
<1>12. ASSUME NEW ns \in Namespaces, c \in OfNamespace(ns) PROVE Root(c)
  BY <1>7, <1>12 DEF OfNamespace
<1>13. ASSUME NEW p \in Pipelines, c \in OfPipeline(p) PROVE Root(c)
  BY <1>8, <1>9, <1>13 DEF OfPipeline
<1>14. c \in {ListProcessors, ListModules, ListFunctions, ListNamespaces, ListPipelines, ListRuns,
             ListJobs, Curl(getJobQueueCallback)} => Root(c)
  BY <1>3, <1>4
<1> DEFINE A == {ListProcessors, ListModules, ListFunctions, ListNamespaces, ListPipelines, ListRuns,
                 ListJobs, Curl(getJobQueueCallback)}
           B == {setModuleMounted(m, on) : m \in Modules, on \in BOOLEAN}
           C == {setFunctionMounted(f, on) : f \in Functions, on \in BOOLEAN}
           D == UNION {OfNamespace(ns) : ns \in Namespaces}
           E == UNION {OfPipeline(p) : p \in Pipelines}
           F == {StopRun(id) : id \in RunIds}
           G == {CreateJob(j) : j \in Jobs}
           H == {DeleteJob(j) : j \in Jobs}
<1>15. Commands = A \cup B \cup C \cup D \cup E \cup F \cup G \cup H
  BY DEF Commands
<1>16. c \in B => Root(c)
  BY <1>5
<1>17. c \in C => Root(c)
  BY <1>6
<1>18. (c \in D => Root(c)) /\ (c \in E => Root(c))
  BY <1>12, <1>13
<1>19. (c \in F => Root(c)) /\ (c \in G => Root(c)) /\ (c \in H => Root(c))
  BY <1>10, <1>11
<1> HIDE DEF A, B, C, D, E, F, G, H
<1> QED
  BY ONLY <1>c, <1>14, <1>15, <1>16, <1>17, <1>18, <1>19 DEF A

\* The later requests of a listing ask nobody to change anything.
LEMMA LeavesFit ==
  ASSUME NEW each \in {"functions", "pipelines", "runs"}, NEW x
  PROVE  /\ Leaf(Follows(each, x))
         /\ Follows(each, x).via.asks =
              (CASE each = "functions" -> GetFunctionsRq(x)
                 [] each = "pipelines" -> GetPipelineRq(<<x>>)
                 [] each = "runs"      -> GetRunRq(x))
BY ChannelNames, ChangingActs DEF Leaf, Follows, GetFunctionsInModule, GetPipelinesInNamespace,
   GetRunsInNamespace, Http, getFunctionCallback, getPipelineCallback, getRunCallback, Callback,
   GetFunctionsRq, GetPipelineRq, GetRunRq, Rq, Fitting

\* Until the pool has gone round, no two requests have one nonce.
LEMMA OneNonce ==
  ASSUME ~Wrapped, issued \in Nat, NEW i \in 1..issued, NEW j \in 1..issued,
         NonceFor(i) = NonceFor(j)
  PROVE  i = j
BY ApiAssumption DEF Wrapped, NonceFor

LEMMA QueuePlaces ==
  ASSUME NEW q, Queue(q)
  PROVE  Len(q) \in Nat /\ DOMAIN q = 1..Len(q)
<1>1. q \in Seq({q[i] : i \in DOMAIN q})
  BY DEF Queue
<1> QED
  BY <1>1

LEMMA QueueTail ==
  ASSUME NEW q, Queue(q), q # <<>>
  PROVE  /\ Queue(Tail(q)) /\ 1 \in DOMAIN q /\ Head(q) = q[1]
         /\ \A i \in DOMAIN Tail(q) : i + 1 \in DOMAIN q /\ i + 1 # 1 /\ Tail(q)[i] = q[i + 1]
<1> DEFINE S == {q[i] : i \in DOMAIN q}
           r == Tail(q)
<1>1. q \in Seq(S)
  BY DEF Queue
<1> HIDE DEF S
<1>2. /\ r \in Seq(S) /\ 1 \in DOMAIN q /\ Head(q) = q[1] /\ DOMAIN r = 1..Len(r) /\ Len(r) \in Nat
      /\ \A i \in DOMAIN r : i + 1 \in DOMAIN q /\ i + 1 # 1 /\ r[i] = q[i + 1]
  BY <1>1
<1> HIDE DEF r
<1>3. r \in [1..Len(r) -> {r[i] : i \in DOMAIN r}]
  BY <1>2
<1>4. r \in Seq({r[i] : i \in DOMAIN r})
  BY <1>2, <1>3
<1> QED
  BY <1>2, <1>4 DEF Queue, r

LEMMA QueueGrows ==
  ASSUME NEW q, Queue(q), NEW x
  PROVE  /\ Queue(Append(q, x)) /\ Len(q) + 1 \in DOMAIN Append(q, x)
         /\ Append(q, x)[Len(q) + 1] = x
         /\ \A i \in DOMAIN q : i \in DOMAIN Append(q, x) /\ Append(q, x)[i] = q[i]
         /\ \A i \in DOMAIN Append(q, x) : i \in DOMAIN q \/ i = Len(q) + 1
         /\ Len(q) + 1 \notin DOMAIN q
<1> DEFINE S == {q[i] : i \in DOMAIN q} \cup {x}
           r == Append(q, x)
<1>1. q \in Seq(S)
  <2>1. q \in Seq({q[i] : i \in DOMAIN q})
    BY DEF Queue
  <2> QED
    BY <2>1
<1>0. x \in S
  OBVIOUS
<1> HIDE DEF S
<1>2. /\ r \in Seq(S) /\ Len(r) = Len(q) + 1 /\ DOMAIN r = 1..Len(r) /\ DOMAIN q = 1..Len(q) /\ Len(q) \in Nat
      /\ r[Len(q) + 1] = x
      /\ \A i \in DOMAIN q : r[i] = q[i]
  BY <1>0, <1>1
<1> HIDE DEF r
<1>3. r \in [1..Len(r) -> {r[i] : i \in DOMAIN r}]
  BY <1>2
<1>4. r \in Seq({r[i] : i \in DOMAIN r})
  BY <1>2, <1>3
<1>5. /\ Len(q) + 1 \in DOMAIN r /\ Len(q) + 1 \notin DOMAIN q
      /\ \A i \in DOMAIN q : i \in DOMAIN r
      /\ \A i \in DOMAIN r : i \in DOMAIN q \/ i = Len(q) + 1
  BY <1>2
<1> QED
  BY <1>2, <1>4, <1>5 DEF Queue, r

-----------------------------------------------------------------------------
(* The stores keep their types. *)

TallyFits ==
  /\ numOfRuns \in [Workers -> Nat]
  /\ mounted \subseteq Modules \cup Functions
  /\ clashed \subseteq Workers \X Modules
  /\ robbed \subseteq Workers \X Functions

StoresFit == pipelines \cup recorded \subseteq Pipelines /\ jobs \subseteq Jobs

LEMMA TableSoundIs == TableSound <=> TableFits /\ TallyFits /\ StoresFit
BY DEF TableSound, TableTypeOK, TableFits, TallyFits, StoresFit

LEMMA AddProcessorTallies ==
  ASSUME TallyFits, NEW w, AddProcessor(w)
  PROVE  TallyFits'
BY DEF AddProcessor, TallyFits

LEMMA AddModuleTallies ==
  ASSUME TallyFits, NEW o \in Offers, AddModule(o)
  PROVE  TallyFits'
<1>1. o.worker \in Workers /\ o.module \in Modules /\ o.functions \subseteq Functions
  BY OffersFit
<1>2. mounted' \subseteq Modules \cup Functions
  BY <1>1 DEF AddModule, TallyFits
<1>3. clashed' \subseteq Workers \X Modules
  BY <1>1 DEF AddModule, TallyFits
<1>4. UNCHANGED <<numOfRuns, robbed>>
  BY DEF AddModule
<1> QED
  BY <1>2, <1>3, <1>4 DEF TallyFits

LEMMA RemoveProcessorTallies ==
  ASSUME TableFits, TallyFits, NEW w, RemoveProcessor(w)
  PROVE  TallyFits'
<1> DEFINE instance == processors[StopsAt(processors, w)]
           elsewhere == {f \in Functions : HasFunction(f) /\ instance \notin Range(hosts[f])}
<1>1. /\ numOfRuns' = [numOfRuns EXCEPT ![instance] = 0]
      /\ clashed' = {r \in clashed : r[1] # instance}
      /\ robbed' = {r \in robbed : r[1] # instance} \cup {<<Last(hosts[f]), f>> : f \in elsewhere}
      /\ mounted' \subseteq mounted
  BY DEF RemoveProcessor, Prune
<1>2. \A f \in elsewhere : f \in Functions /\ Last(hosts[f]) \in Workers
  BY DEF HasFunction, TableFits, Last
<1> HIDE DEF instance, elsewhere
<1>3. robbed' \subseteq Workers \X Functions
  BY <1>1, <1>2 DEF TallyFits
<1>4. numOfRuns' \in [Workers -> Nat] /\ clashed' \subseteq Workers \X Modules
  BY <1>1 DEF TallyFits
<1> QED
  BY <1>1, <1>3, <1>4 DEF TallyFits

\* What the request at the head of a queue is known to be.
LEMMA TakenFits ==
  ASSUME Requests, NEW ch \in Channels, NEW act, NEW rec, NEW r \in Taken(ch, act, rec)
  PROVE  /\ chan[ch] # <<>> /\ 1 \in DOMAIN chan[ch] /\ r = chan[ch][1]
         /\ r.rq.act = act /\ r.rq.rec = rec /\ r.rq.ch = ch /\ Fitting(r.rq)
         /\ r.nonce \in 0..RangeSize /\ r.id \in 1..issued /\ r.id \notin performed
         /\ ~Wrapped => r.nonce = NonceFor(r.id)
         /\ \A u \in Users : Busy(u) /\ user[u].id = r.id => Asked(u) = r.rq
<1>1. chan[ch] # <<>> /\ r = Head(chan[ch]) /\ r.rq.act = act /\ r.rq.rec = rec
  BY DEF Taken
<1>2. 1 \in DOMAIN chan[ch] /\ r = chan[ch][1]
  BY <1>1, QueueTail DEF Requests
<1> QED
  BY <1>1, <1>2 DEF Requests

LEMMA ProcessorTallies ==
  ASSUME TableFits, TallyFits, Requests, ProcessorServes
  PROVE  TallyFits'
<1>0. "c5" \in Channels /\ "Mount" \in Changing /\ "UnMount" \in Changing
  BY ChannelNames DEF Changing
<1>1. ASSUME \/ handleGetProcessor \/ handleGetModule \/ handleGetFunctions
             \/ handleGetRun \/ handleCountRuns \/ handleDeleteRun
      PROVE  TallyFits'
  BY <1>1 DEF handleGetProcessor, handleGetModule, handleGetFunctions, handleGetRun,
              handleCountRuns, handleDeleteRun, Shows, TallyFits, tableVars
<1>2. ASSUME handleMountModule \/ handleUnMountModule PROVE TallyFits'
  <2>1. PICK act \in {"Mount", "UnMount"} : \E r \in Taken("c5", act, "Module") :
          (\E can : Changes(r, can, MountModule(r.rq.arg[1]))) \/
          (\E can : Changes(r, can, UnMountModule(r.rq.arg[1])))
    BY <1>2 DEF handleMountModule, handleUnMountModule
  <2>2. PICK r \in Taken("c5", act, "Module") :
          (\E can : Changes(r, can, MountModule(r.rq.arg[1]))) \/
          (\E can : Changes(r, can, UnMountModule(r.rq.arg[1])))
    BY <2>1
  <2>3. r.rq.arg[1] \in Modules
    BY <1>0, TakenFits DEF Fitting
  <2> QED
    BY <2>2, <2>3 DEF Changes, MountModule, UnMountModule, Mount, Unmount, untouched, TallyFits, tableVars
<1>3. ASSUME handleMountFunction \/ handleUnMountFunction PROVE TallyFits'
  <2>1. PICK act \in {"Mount", "UnMount"} : \E r \in Taken("c5", act, "Function") :
          (\E can : Changes(r, can, MountFunction(r.rq.arg))) \/
          (\E can : Changes(r, can, UnMountFunction(r.rq.arg)))
    BY <1>3 DEF handleMountFunction, handleUnMountFunction
  <2>2. PICK r \in Taken("c5", act, "Function") :
          (\E can : Changes(r, can, MountFunction(r.rq.arg))) \/
          (\E can : Changes(r, can, UnMountFunction(r.rq.arg)))
    BY <2>1
  <2>3. r.rq.arg \in Functions
    BY <1>0, TakenFits DEF Fitting
  <2> QED
    BY <2>2, <2>3 DEF Changes, MountFunction, UnMountFunction, Mount, Unmount, untouched, TallyFits, tableVars
<1>4. ASSUME handleCreateRun PROVE TallyFits'
  <2>1. \/ UNCHANGED tableVars
        \/ \E w \in Workers : /\ numOfRuns' = [numOfRuns EXCEPT ![w] = @ + 1]
                              /\ UNCHANGED <<mounted, clashed, robbed>>
    BY <1>4 DEF handleCreateRun, FindCandidateProcessor
  <2> QED
    BY <2>1 DEF TallyFits, tableVars
<1>5. ASSUME handleCreateProcessor PROVE TallyFits'
  BY <1>5, AddProcessorTallies DEF handleCreateProcessor, TableEvent, Event
<1>6. ASSUME handleCreateModule PROVE TallyFits'
  BY <1>6, AddModuleTallies DEF handleCreateModule, TableEvent, Event
<1>7. ASSUME handleDeleteProcessor PROVE TallyFits'
  BY <1>7, RemoveProcessorTallies DEF handleDeleteProcessor, TableEvent, Event
<1> QED
  BY <1>1, <1>2, <1>3, <1>4, <1>5, <1>6, <1>7 DEF ProcessorServes

LEMMA OthersTally ==
  ASSUME TallyFits, DatabaseServes \/ SchedulerServes \/ UserActs \/ UNCHANGED vars
  PROVE  TallyFits'
<1>1. UNCHANGED tableVars
  <2>1. CASE DatabaseServes
    BY <2>1, Zenon DEF DatabaseServes, handleGetPipelineRecord, handleGetNamespaceRecord,
              handleCreatePipelineRecord, handleUpdatePipelineRecord, handleGetStatisticRecord,
              handleSummaryStatistics, handleCreateStatisticRecord, handleDeletePipelineRecord,
              StoresPipelines, Event, Shows, tableVars
  <2>2. CASE SchedulerServes
    BY <2>2, Zenon DEF SchedulerServes, handleGetJob, handleGetQueue, handleCreateJob, handleDeleteJob,
              StoresJobs, Shows, tableVars
  <2>3. CASE UserActs
    BY <2>3, Zenon DEF UserActs, Begin, ReadsAnswer, TimesOut, tableVars
  <2>4. CASE UNCHANGED vars
    BY <2>4 DEF vars
  <2> QED
    BY <2>1, <2>2, <2>3, <2>4
<1> QED
  BY <1>1 DEF tableVars, TallyFits

\* Pipelines, statistics and jobs are what requests named.
LEMMA StoresKeep ==
  ASSUME StoresFit, RunsFit, Requests, [Next]_vars
  PROVE  StoresFit'
<1>0. /\ "c1" \in Channels /\ "c20" \in Channels
      /\ {"Create", "Update", "Delete"} \subseteq Changing
  BY ChannelNames DEF Changing
<1>1. ASSUME handleCreatePipelineRecord \/ handleUpdatePipelineRecord \/ handleDeletePipelineRecord
      PROVE  StoresFit'
  <2>1. PICK act \in {"Create", "Update", "Delete"} : \E r \in Taken("c1", act, "Pipeline") :
          pipelines' \subseteq pipelines \cup {r.rq.arg} /\ UNCHANGED <<recorded, jobs>>
    BY <1>1 DEF handleCreatePipelineRecord, handleUpdatePipelineRecord, handleDeletePipelineRecord,
       StoresPipelines
  <2>2. PICK r \in Taken("c1", act, "Pipeline") :
          pipelines' \subseteq pipelines \cup {r.rq.arg} /\ UNCHANGED <<recorded, jobs>>
    BY <2>1
  <2>3. r.rq.arg \in Pipelines
    BY <1>0, TakenFits DEF Fitting
  <2> QED
    BY <2>2, <2>3 DEF StoresFit
<1>2. ASSUME handleCreateJob \/ handleDeleteJob PROVE StoresFit'
  <2>1. PICK act \in {"Create", "Delete"} : \E r \in Taken("c20", act, "Job") :
          jobs' \subseteq jobs \cup {r.rq.arg[1]} /\ UNCHANGED <<pipelines, recorded>>
    BY <1>2 DEF handleCreateJob, handleDeleteJob, StoresJobs
  <2>2. PICK r \in Taken("c20", act, "Job") :
          jobs' \subseteq jobs \cup {r.rq.arg[1]} /\ UNCHANGED <<pipelines, recorded>>
    BY <2>1
  <2>3. r.rq.arg[1] \in Jobs
    BY <1>0, TakenFits DEF Fitting
  <2> QED
    BY <2>2, <2>3 DEF StoresFit
<1>3. ASSUME handleCreateStatisticRecord PROVE StoresFit'
  BY <1>3 DEF handleCreateStatisticRecord, Event, StoresFit, RunsFit
<1>4. ASSUME ProcessorServes \/ UserActs \/ UNCHANGED vars PROVE UNCHANGED <<pipelines, recorded, jobs>>
  <2>1. CASE ProcessorServes
    BY <2>1, Zenon DEF ProcessorServes, handleGetProcessor, handleGetModule, handleGetFunctions,
       handleMountModule, handleUnMountModule, handleMountFunction, handleUnMountFunction,
       handleCreateRun, handleGetRun, handleCountRuns, handleDeleteRun, handleCreateProcessor,
       handleCreateModule, handleDeleteProcessor, Shows, Changes, TableEvent, Event, storeVars
  <2>2. CASE UserActs
    BY <2>2, Zenon DEF UserActs, Begin, ReadsAnswer, TimesOut, storeVars
  <2>3. CASE UNCHANGED vars
    BY <2>3 DEF vars, storeVars
  <2> QED
    BY <1>4, <2>1, <2>2, <2>3
<1>5. ASSUME handleGetPipelineRecord \/ handleGetNamespaceRecord \/ handleGetStatisticRecord
             \/ handleSummaryStatistics \/ handleGetJob \/ handleGetQueue
      PROVE  UNCHANGED <<pipelines, recorded, jobs>>
  BY <1>5, Zenon DEF handleGetPipelineRecord, handleGetNamespaceRecord, handleGetStatisticRecord,
     handleSummaryStatistics, handleGetJob, handleGetQueue, Shows, storeVars
<1>6. ASSUME UNCHANGED <<pipelines, recorded, jobs>> PROVE StoresFit'
  BY <1>6 DEF StoresFit
<1> QED
  BY <1>1, <1>2, <1>3, <1>4, <1>5, <1>6 DEF Next, DatabaseServes, SchedulerServes

-----------------------------------------------------------------------------
(* What the steps do to requests, answers and what operators were told. *)

Honesty == /\ PoolFits /\ RunsFit /\ Requests /\ SentOnce /\ Replies /\ StableIsThere /\ UsersFit

\* Runs are only added, and what a listing has to show only gets less.
Extends == /\ \A i \in DOMAIN runs : i \in DOMAIN runs' /\ runs'[i] = runs[i]
           /\ \A u \in Users : stable'[u] \subseteq stable[u]

LEMMA NamesStay ==
  ASSUME StableIsThere, Extends, UNCHANGED user, NEW u \in Users, NEW x \in stable[u]
  PROVE  /\ Name(user[u].call.each, x)' = Name(user[u].call.each, x)
         /\ LeafOf(user[u].call.each, x)' = LeafOf(user[u].call.each, x)
<1>1. user[u].call.each = "runs" => runs'[x] = runs[x]
  BY DEF StableIsThere, Extends, Items
<1>2. Name(user[u].call.each, x)' = Name(user[u].call.each, x)
  BY <1>1 DEF Name
<1> QED
  BY <1>2 DEF LeafOf, Follows, GetFunctionsInModule, GetPipelinesInNamespace, GetRunsInNamespace,
     Http, getFunctionCallback, getPipelineCallback, getRunCallback, Callback, GetFunctionsRq,
     GetPipelineRq, GetRunRq, Rq

LEMMA HonestStays ==
  ASSUME StableIsThere, Extends, UNCHANGED user, NEW u \in Users, NEW a, Honest(u, a)
  PROVE  Honest(u, a)'
<1> DEFINE each == user[u].call.each
<1>1. \A x \in stable'[u] :
        x \in stable[u] /\ Name(each, x)' = Name(each, x) /\ LeafOf(each, x)' = LeafOf(each, x)
  BY NamesStay DEF Extends
<1>2. Asked(u)' = Asked(u)
  BY DEF Asked
<1>3. Asked(u).act \in Changing => a.data \subseteq {i \in DOMAIN runs' : runs'[i].by = a.id}
  BY DEF Honest, Extends
<1>4. each # "none" /\ user[u].http = user[u].call.first =>
       a.ok /\ a.kind = Asked(u).wants /\ \A x \in stable'[u] : Name(each, x)' \in a.data
  BY <1>1 DEF Honest
<1>5. each # "none" /\ user[u].http # user[u].call.first =>
       \A x \in stable'[u] : user[u].http = LeafOf(each, x)' =>
         a.ok /\ a.kind = Asked(u).wants /\ x \in a.data
  BY <1>1 DEF Honest
<1> QED
  BY <1>2, <1>3, <1>4, <1>5 DEF Honest

\* What a user who waits knows, and what one was told, does not change with the stores.
LEMMA UsersStay ==
  ASSUME StableIsThere, Extends, UsersFit, UNCHANGED <<user, cur, issued>>, issued \in Nat,
         performed \subseteq performed',
         \A u \in Users : user[u].told = "error" /\ user[u].id \notin performed /\ ~OnTheWay(user[u].id)
           => user[u].id \notin performed' /\ ~OnTheWay(user[u].id)'
  PROVE  UsersFit'
<1>1. (Wrapped' <=> Wrapped) /\ \A u \in Users : Asked(u)' = Asked(u) /\ (Busy(u)' <=> Busy(u))
  BY DEF Wrapped, Asked, Busy
<1>2. ASSUME NEW u \in Users, Waiting(u) PROVE Waiting(u)'
  <2>1. \A x \in stable'[u] : x \in stable[u] /\ LeafOf(user[u].call.each, x)' = LeafOf(user[u].call.each, x)
    BY NamesStay DEF Extends
  <2>2. Covered(u)'
    BY <1>1, <1>2, <2>1 DEF Waiting, Covered
  <2> QED
    BY <1>1, <1>2, <2>2 DEF Waiting
<1>3. ASSUME NEW u \in Users PROVE TruthTo(u)'
  <2>1. TruthTo(u)
    BY DEF UsersFit
  <2>2. user[u].told = "error" /\ user[u].id \notin performed /\ ~OnTheWay(user[u].id)
           => user[u].id \notin performed' /\ ~OnTheWay(user[u].id)'
    OBVIOUS
  <2>3. \A i \in DOMAIN runs : i \in DOMAIN runs' /\ runs'[i] = runs[i]
    BY DEF Extends
  <2> QED
    BY <1>1, <2>1, <2>2, <2>3 DEF TruthTo
<1>4. ASSUME NEW u \in Users PROVE WholeTo(u)'
  BY <1>1 DEF UsersFit, WholeTo, Extends
<1> QED
  BY <1>1, <1>2, <1>3, <1>4 DEF UsersFit

\* A thread answers the request it took, and shows who waits for it what there is to see.
LEMMA AnswersKeep ==
  ASSUME Honesty, NEW ch \in Channels, NEW act, NEW rec, NEW r \in Taken(ch, act, rec),
         NEW ok \in BOOLEAN, NEW kind, NEW data, Answers(r, ok, kind, data),
         Extends, RunsFit', StableIsThere',
         NEW a, a = [id |-> r.id, ok |-> ok, kind |-> kind, data |-> data],
         \A u \in Users : Busy(u) /\ Asked(u) = r.rq => Honest(u, a)'
  PROVE  Honesty'
<1>0. PoolFits /\ RunsFit /\ Requests /\ SentOnce /\ Replies /\ StableIsThere /\ UsersFit
  BY DEF Honesty
<1>1. /\ chan[ch] # <<>> /\ 1 \in DOMAIN chan[ch] /\ r = chan[ch][1]
      /\ r.rq.ch = ch /\ r.nonce \in 0..RangeSize /\ r.id \in 1..issued /\ r.id \notin performed
      /\ ~Wrapped => r.nonce = NonceFor(r.id)
      /\ \A u \in Users : Busy(u) /\ user[u].id = r.id => Asked(u) = r.rq
  BY <1>0, TakenFits
<1>2. /\ chan' = [chan EXCEPT ![ch] = Tail(@)]
      /\ responses' = [responses EXCEPT ![ch][r.nonce] = a]
      /\ performed' = IF ok THEN performed \cup {r.id} ELSE performed
      /\ UNCHANGED <<cur, issued, user>>
  BY <1>1 DEF Answers, restVars
<1>3. (Wrapped' <=> Wrapped) /\ \A u \in Users : Asked(u)' = Asked(u) /\ (Busy(u)' <=> Busy(u))
  BY <1>2 DEF Wrapped, Asked, Busy
<1>4. PoolFits'
  BY <1>0, <1>1, <1>2, <1>3 DEF PoolFits
<1>5. /\ DOMAIN chan' = Channels /\ chan'[ch] = Tail(chan[ch])
      /\ \A d \in Channels \ {ch} : chan'[d] = chan[d]
      /\ \A d \in Channels : Queue(chan[d])
  BY <1>0, <1>2 DEF Requests
<1>q. /\ Queue(Tail(chan[ch]))
      /\ \A i \in DOMAIN Tail(chan[ch]) : /\ i + 1 \in DOMAIN chan[ch] /\ i + 1 # 1
                                         /\ Tail(chan[ch])[i] = chan[ch][i + 1]
  <2>1. Queue(chan[ch]) /\ chan[ch] # <<>>
    BY <1>1, <1>5
  <2> QED
    BY ONLY <2>1, QueueTail
<1>6. \A i \in DOMAIN chan'[ch] : i + 1 \in DOMAIN chan[ch] /\ i + 1 # 1 /\ chan'[ch][i] = chan[ch][i + 1]
  BY ONLY <1>5, <1>q
<1>7. \A d \in Channels : Queue(chan'[d])
  <2>1. Queue(chan'[ch])
    BY ONLY <1>5, <1>q
  <2>2. \A d \in Channels \ {ch} : Queue(chan'[d])
    BY ONLY <1>5
  <2> QED
    BY <2>1, <2>2
<1> DEFINE From(d, i) == IF d = ch THEN i + 1 ELSE i
<1>8. \A d \in Channels : \A i \in DOMAIN chan'[d] :
        /\ From(d, i) \in DOMAIN chan[d] /\ chan'[d][i] = chan[d][From(d, i)]
        /\ ~(d = ch /\ From(d, i) = 1)
  BY <1>5, <1>6
<1>9. \A d \in Channels : \A i \in DOMAIN chan'[d] : chan'[d][i].id # r.id
  <2> SUFFICES ASSUME NEW d \in Channels, NEW i \in DOMAIN chan'[d], chan'[d][i].id = r.id PROVE FALSE
    OBVIOUS
  <2>1. chan[d][From(d, i)].id = chan[ch][1].id /\ From(d, i) \in DOMAIN chan[d]
    BY <1>1, <1>8
  <2>2. d = ch /\ From(d, i) = 1
    BY <1>0, <1>1, <2>1 DEF SentOnce
  <2> QED
    BY <1>8, <2>2
<1>10. \A id : OnTheWay(id)' => OnTheWay(id) /\ id # r.id
  BY <1>8, <1>9 DEF OnTheWay
<1>11. OnTheWay(r.id)
  BY <1>1 DEF OnTheWay
<1>12. Requests'
  <2>1. ASSUME NEW d \in Channels, NEW i \in DOMAIN chan'[d]
        PROVE  /\ chan'[d][i].rq.ch = d /\ Fitting(chan'[d][i].rq)
               /\ chan'[d][i].nonce \in 0..RangeSize /\ chan'[d][i].id \in 1..issued
               /\ ~Wrapped => chan'[d][i].nonce = NonceFor(chan'[d][i].id)
               /\ chan'[d][i].id \notin performed'
               /\ \A u \in Users : Busy(u) /\ user[u].id = chan'[d][i].id => Asked(u) = chan'[d][i].rq
    <3>1. PICK j \in DOMAIN chan[d] : chan'[d][i] = chan[d][j]
      BY <1>8
    <3>2. chan'[d][i].id # r.id
      BY <1>9
    <3>3. chan[d][j].id \notin performed'
      BY <1>0, <1>2, <3>1, <3>2 DEF Requests
    <3> QED
      BY <1>0, <3>1, <3>3 DEF Requests
  <2> QED
    BY <1>2, <1>3, <1>5, <1>7, <2>1 DEF Requests
<1>13. SentOnce'
  <2> SUFFICES ASSUME NEW c \in Channels, NEW d \in Channels, NEW i \in DOMAIN chan'[c],
                      NEW j \in DOMAIN chan'[d], chan'[c][i].id = chan'[d][j].id
               PROVE  c = d /\ i = j
    BY DEF SentOnce
  <2>1. c = d /\ From(c, i) = From(d, j)
    BY <1>0, <1>8 DEF SentOnce
  <2>2. i \in Int /\ j \in Int
    BY <1>7, QueuePlaces
  <2> QED
    BY <2>1, <2>2
<1>14. Replies'
  <2>1. DOMAIN responses' = Channels /\ \A d \in Channels : DOMAIN responses'[d] = 0..RangeSize
    BY <1>0, <1>2 DEF Replies
  <2>2. \A d \in Channels : \A n \in 0..RangeSize :
          responses'[d][n] = IF d = ch /\ n = r.nonce THEN a ELSE responses[d][n]
    BY <1>0, <1>1, <1>2 DEF Replies
  <2>3. ASSUME NEW d \in Channels, NEW n \in 0..RangeSize, NEW b \in {responses'[d][n]} \ {Silence}
        PROVE  /\ b.id \in 1..issued /\ ~OnTheWay(b.id)'
               /\ ~Wrapped => NonceFor(b.id) = n
               /\ b.ok <=> b.id \in performed'
               /\ \A u \in Users : Busy(u) /\ user[u].id = b.id => Honest(u, b)'
    <3>1. CASE d = ch /\ n = r.nonce
      <4>1. b = a /\ a.id = r.id /\ a.ok = ok
        BY <2>2, <2>3, <3>1
      <4>2. ~OnTheWay(b.id)'
        BY <1>10, <4>1
      <4>3. b.ok <=> b.id \in performed'
        BY <1>1, <1>2, <4>1
      <4>4. \A u \in Users : Busy(u) /\ user[u].id = b.id => Honest(u, b)'
        BY <1>1, <4>1
      <4> QED
        BY <1>1, <3>1, <4>1, <4>2, <4>3, <4>4
    <3>2. CASE ~(d = ch /\ n = r.nonce)
      <4>1. b = responses[d][n]
        BY <2>2, <2>3, <3>2
      <4>2. /\ b.id \in 1..issued /\ ~OnTheWay(b.id)
            /\ ~Wrapped => NonceFor(b.id) = n
            /\ b.ok <=> b.id \in performed
            /\ \A u \in Users : Busy(u) /\ user[u].id = b.id => Honest(u, b)
        BY <1>0, <2>3, <4>1 DEF Replies
      <4>3. ~OnTheWay(b.id)' /\ b.id # r.id
        BY <1>10, <1>11, <4>2
      <4>4. b.ok <=> b.id \in performed'
        BY <1>2, <4>2, <4>3
      <4>5. \A u \in Users : Busy(u) /\ user[u].id = b.id => Honest(u, b)'
        BY <1>0, <1>2, <4>2, HonestStays
      <4> QED
        BY <4>2, <4>3, <4>4, <4>5
    <3> QED
      BY <3>1, <3>2
  <2> QED
    BY <1>2, <1>3, <2>1, <2>3 DEF Replies, Silence
<1>15. UsersFit'
  <2>1. issued \in Nat /\ performed \subseteq performed'
    BY <1>0, <1>2 DEF PoolFits
  <2>2. \A u \in Users : user[u].told = "error" /\ user[u].id \notin performed /\ ~OnTheWay(user[u].id)
           => user[u].id \notin performed' /\ ~OnTheWay(user[u].id)'
    BY <1>2, <1>10, <1>11
  <2> QED
    BY <1>0, <1>2, <2>1, <2>2, UsersStay
<1> QED
  BY <1>4, <1>12, <1>13, <1>14, <1>15 DEF Honesty

\* Workers come and go, and runs end.
LEMMA EventsKeep ==
  ASSUME Honesty, UNCHANGED <<chan, responses, cur, issued, user, performed, runs>>,
         StableIsThere', Extends
  PROVE  Honesty'
<1>0. PoolFits /\ RunsFit /\ Requests /\ SentOnce /\ Replies /\ StableIsThere /\ UsersFit
  BY DEF Honesty
<1>1. /\ (Wrapped' <=> Wrapped) /\ \A u \in Users : Asked(u)' = Asked(u) /\ (Busy(u)' <=> Busy(u))
      /\ \A id : OnTheWay(id)' <=> OnTheWay(id)
  BY DEF Wrapped, Asked, Busy, OnTheWay
<1>2. PoolFits' /\ RunsFit' /\ SentOnce'
  BY <1>0, <1>1 DEF PoolFits, RunsFit, SentOnce
<1>3. Requests'
  BY <1>0, <1>1 DEF Requests
<1>4. Replies'
  BY <1>0, <1>1, HonestStays DEF Replies
<1>5. UsersFit'
  BY <1>0, <1>1, UsersStay DEF PoolFits
<1> QED
  BY <1>2, <1>3, <1>4, <1>5 DEF Honesty

\* The part of UsersFit that is about one user.
UserFits(u) ==
  /\ DOMAIN user[u] = DOMAIN Idle
  /\ user[u].told \in {"nothing yet", "waiting", "nil", "error"}
  /\ user[u].id \in 0..issued
  /\ Busy(u) => Waiting(u)
  /\ TruthTo(u) /\ WholeTo(u)

\* A user who does nothing while another one calls.
LEMMA UserIdles ==
  ASSUME NEW v \in Users, UserFits(v), user'[v] = user[v], stable'[v] = stable[v],
         UNCHANGED <<runs, performed>>, issued \in Nat, issued' \in Nat, issued <= issued',
         ~Wrapped' => ~Wrapped,
         OnTheWay(user[v].id)' => OnTheWay(user[v].id)
  PROVE  /\ UserFits(v)'
         /\ \A b : Honest(v, b) => Honest(v, b)'
         /\ Asked(v)' = Asked(v) /\ (Busy(v)' <=> Busy(v))
<1>1. Asked(v)' = Asked(v) /\ (Busy(v)' <=> Busy(v))
  BY DEF Asked, Busy
<1>2. \A x : /\ Name(user[v].call.each, x)' = Name(user[v].call.each, x)
             /\ LeafOf(user[v].call.each, x)' = LeafOf(user[v].call.each, x)
  BY DEF Name, LeafOf, Follows, GetFunctionsInModule, GetPipelinesInNamespace, GetRunsInNamespace,
     Http, getFunctionCallback, getPipelineCallback, getRunCallback, Callback, GetFunctionsRq,
     GetPipelineRq, GetRunRq, Rq
<1>3. ASSUME NEW b, Honest(v, b) PROVE Honest(v, b)'
  BY <1>1, <1>2, <1>3 DEF Honest
<1>4. Covered(v) => Covered(v)'
  BY <1>2 DEF Covered
<1>5. Waiting(v) => Waiting(v)'
  BY <1>1, <1>4 DEF Waiting
<1>6. TruthTo(v)'
  BY <1>1 DEF UserFits, TruthTo
<1>7. WholeTo(v)'
  BY DEF UserFits, WholeTo
<1>8. user'[v].id \in 0..issued'
  <2>1. user[v].id \in 0..issued /\ user'[v].id = user[v].id
    BY DEF UserFits
  <2>2. issued \in Nat /\ issued' \in Nat /\ issued <= issued'
    OBVIOUS
  <2> QED
    BY ONLY <2>1, <2>2
<1> QED
  BY <1>1, <1>3, <1>5, <1>6, <1>7, <1>8 DEF UserFits

\* The call of a user is over.
LEMMA EndsKeep ==
  ASSUME Honesty, NEW u \in Users, NEW s, NEW told \in {"nil", "error"}, Ends(u, s, told),
         UNCHANGED <<responses, performed, runs>>, StableIsThere',
         \A v \in Users \ {u} : stable'[v] = stable[v],
         DOMAIN s = DOMAIN Idle, s.id \in 0..issued,
         s.http.via.asks.act \in Changing /\ ~Wrapped =>
           /\ told = "nil" /\ s.http.via.asks.rec # "Job" => s.id \in performed
           /\ told = "error" /\ ~s.lost => s.id \notin performed /\ ~OnTheWay(s.id)
           /\ told = "nil" /\ s.http.via.asks.rec = "Run" =>
                s.got \subseteq {i \in DOMAIN runs : runs[i].by = s.id},
         told = "nil" /\ s.call.each # "none" /\ ~s.lost /\ ~Wrapped => stable'[u] \subseteq s.got
  PROVE  Honesty'
<1>0. PoolFits /\ RunsFit /\ Requests /\ SentOnce /\ Replies /\ UsersFit
  BY DEF Honesty
<1>1. /\ user' = [user EXCEPT ![u] = [s EXCEPT !.told = told]] /\ UNCHANGED <<cur, issued, chan>>
      /\ DOMAIN user = Users /\ issued \in Nat
  BY <1>0 DEF Ends, UsersFit, PoolFits
<1>2. /\ DOMAIN user' = Users /\ user'[u] = [s EXCEPT !.told = told]
      /\ \A v \in Users \ {u} : user'[v] = user[v]
  BY <1>1
<1>3. DOMAIN Idle = {"call", "http", "todo", "nonce", "id", "got", "lost", "told"}
  BY DEF Idle
<1>4. /\ DOMAIN user'[u] = DOMAIN Idle /\ user'[u].told = told /\ user'[u].call = s.call
      /\ user'[u].http = s.http /\ user'[u].id = s.id /\ user'[u].got = s.got /\ user'[u].lost = s.lost
  BY <1>2, <1>3
<1>5. (Wrapped' <=> Wrapped) /\ \A id : OnTheWay(id)' <=> OnTheWay(id)
  BY <1>1 DEF Wrapped, OnTheWay
<1>6. \A v \in Users \ {u} : /\ UserFits(v)'
                             /\ \A b : Honest(v, b) => Honest(v, b)'
                             /\ Asked(v)' = Asked(v) /\ (Busy(v)' <=> Busy(v))
  <2> TAKE v \in Users \ {u}
  <2>1. UserFits(v) /\ user'[v] = user[v] /\ stable'[v] = stable[v]
    BY <1>0, <1>2 DEF UsersFit, UserFits
  <2>2. issued' \in Nat /\ issued <= issued'
    BY ONLY <1>1
  <2> QED
    BY <1>1, <1>5, <2>1, <2>2, UserIdles
<1>7. ~Busy(u)'
  BY <1>4 DEF Busy
<1>8. UserFits(u)'
  <2>1. TruthTo(u)'
    BY <1>4, <1>5 DEF TruthTo, Asked
  <2>2. WholeTo(u)'
    BY <1>4, <1>5 DEF WholeTo
  <2> QED
    BY <1>1, <1>4, <1>7, <2>1, <2>2 DEF UserFits
<1>9. UsersFit'
  BY <1>2, <1>6, <1>8 DEF UsersFit, UserFits
<1>10. PoolFits' /\ RunsFit' /\ SentOnce'
  BY <1>0, <1>1, <1>5 DEF PoolFits, RunsFit, SentOnce
<1>11. Requests'
  BY <1>0, <1>1, <1>2, <1>5, <1>6, <1>7 DEF Requests
<1>12. Replies'
  BY <1>0, <1>1, <1>2, <1>5, <1>6, <1>7 DEF Replies
<1> QED
  BY <1>9, <1>10, <1>11, <1>12 DEF Honesty

\* A user sends a request.
LEMMA SendsKeep ==
  ASSUME Honesty, NEW u \in Users, NEW s, NEW http, Sends(u, s, http),
         UNCHANGED <<responses, performed, runs>>, StableIsThere',
         \A v \in Users \ {u} : stable'[v] = stable[v],
         DOMAIN s = DOMAIN Idle, s.call \in Calls, Fitting(http.via.asks),
         \/ http = s.call.first /\ s.got = {} /\ s.todo = {}
         \/ s.call.each # "none" /\ Leaf(http),
         \A h \in s.todo : s.call.each # "none" /\ Leaf(h),
         ~Wrapped /\ ~s.lost /\ s.call.each # "none" /\ http # s.call.first =>
           \A x \in stable'[u] : \/ x \in s.got
                                 \/ http = LeafOf(s.call.each, x) \/ LeafOf(s.call.each, x) \in s.todo
  PROVE  Honesty'
<1> DEFINE k == issued + 1
           item == [rq |-> http.via.asks, nonce |-> NextNonce, id |-> k]
           c == http.via.asks.ch
<1>0. PoolFits /\ RunsFit /\ Requests /\ SentOnce /\ Replies /\ UsersFit
  BY DEF Honesty
<1>1. /\ user' = [user EXCEPT ![u] = [s EXCEPT !.http = http, !.nonce = NextNonce,
                                               !.id = k, !.told = "waiting"]]
      /\ cur' = NextNonce /\ issued' = k /\ chan' = [chan EXCEPT ![c] = Append(@, item)]
      /\ DOMAIN user = Users /\ issued \in Nat /\ c \in Channels /\ DOMAIN chan = Channels
  BY <1>0 DEF Sends, UsersFit, PoolFits, Requests, Fitting
<1>2. /\ NextNonce \in 0..RangeSize
      /\ ~Wrapped' => ~Wrapped /\ NextNonce = NonceFor(k)
  BY <1>0, <1>1, ApiAssumption DEF PoolFits, NextNonce, NonceFor, Wrapped
<1>3. DOMAIN Idle = {"call", "http", "todo", "nonce", "id", "got", "lost", "told"}
  BY DEF Idle
<1>4. /\ DOMAIN user' = Users
      /\ user'[u] = [s EXCEPT !.http = http, !.nonce = NextNonce, !.id = k, !.told = "waiting"]
      /\ \A v \in Users \ {u} : user'[v] = user[v]
  BY <1>1
<1>5. /\ DOMAIN user'[u] = DOMAIN Idle /\ user'[u].told = "waiting" /\ user'[u].call = s.call
      /\ user'[u].http = http /\ user'[u].nonce = NextNonce /\ user'[u].id = k
      /\ user'[u].got = s.got /\ user'[u].lost = s.lost /\ user'[u].todo = s.todo
  BY <1>3, <1>4
<1>6. /\ DOMAIN chan' = Channels /\ chan'[c] = Append(chan[c], item)
      /\ \A d \in Channels \ {c} : chan'[d] = chan[d]
      /\ \A d \in Channels : Queue(chan[d])
  BY <1>0, <1>1 DEF Requests
<1>7. item.id = k /\ item.rq = http.via.asks /\ item.nonce = NextNonce /\ k \in Nat /\ issued < k
  BY <1>1
<1> HIDE DEF item
<1> DEFINE n == Len(chan[c]) + 1
<1>8. /\ Queue(chan'[c]) /\ n \in DOMAIN chan'[c] /\ chan'[c][n] = item /\ n \notin DOMAIN chan[c]
      /\ \A i \in DOMAIN chan[c] : i \in DOMAIN chan'[c] /\ chan'[c][i] = chan[c][i]
      /\ \A i \in DOMAIN chan'[c] : i \in DOMAIN chan[c] \/ i = n
  BY <1>1, <1>6, QueueGrows
<1>9. \A d \in Channels : \A i \in DOMAIN chan'[d] :
        \/ i \in DOMAIN chan[d] /\ chan'[d][i] = chan[d][i]
        \/ d = c /\ i = n /\ chan'[d][i] = item
  BY <1>6, <1>8
<1> HIDE DEF n, k, c
<1>10. \A d \in Channels : \A i \in DOMAIN chan[d] : chan[d][i].id \in 1..issued /\ chan[d][i].id # k
  BY <1>0, <1>1, <1>7 DEF Requests
<1>11. \A id : OnTheWay(id)' => OnTheWay(id) \/ id = k
  BY <1>7, <1>9 DEF OnTheWay
<1>12. \A v \in Users \ {u} : /\ UserFits(v)'
                              /\ \A b : Honest(v, b) => Honest(v, b)'
                              /\ Asked(v)' = Asked(v) /\ (Busy(v)' <=> Busy(v))
                              /\ user'[v].id # k
  <2> TAKE v \in Users \ {u}
  <2>1. UserFits(v) /\ user'[v] = user[v] /\ stable'[v] = stable[v] /\ user[v].id \in 0..issued
    BY <1>0, <1>4 DEF UsersFit, UserFits
  <2>2. user[v].id # k
    BY ONLY <1>1, <1>7, <2>1
  <2>3. OnTheWay(user[v].id)' => OnTheWay(user[v].id)
    BY <1>11, <2>1, <2>2
  <2>4. issued' \in Nat /\ issued <= issued'
    BY <1>1, <1>7
  <2> QED
    BY <1>1, <1>2, <2>1, <2>2, <2>3, <2>4, UserIdles
<1>13. PoolFits' /\ RunsFit'
  <2>1. performed \subseteq 1..issued' /\ \A i \in 1..issued : i \in 1..issued'
    BY <1>0, <1>1, <1>7 DEF PoolFits
  <2> QED
    BY <1>0, <1>1, <1>2, <1>7, <2>1 DEF PoolFits, RunsFit
<1>14. Asked(u)' = http.via.asks /\ Busy(u)' /\ user'[u].id = k
  BY <1>5 DEF Asked, Busy
<1>15. Requests'
  <2>1. ASSUME NEW d \in Channels, NEW i \in DOMAIN chan'[d]
        PROVE  /\ chan'[d][i].rq.ch = d /\ Fitting(chan'[d][i].rq)
               /\ chan'[d][i].nonce \in 0..RangeSize /\ chan'[d][i].id \in 1..issued'
               /\ ~Wrapped' => chan'[d][i].nonce = NonceFor(chan'[d][i].id)
               /\ chan'[d][i].id \notin performed
               /\ \A v \in Users : Busy(v)' /\ user'[v].id = chan'[d][i].id => Asked(v)' = chan'[d][i].rq
    <3>1. CASE i \in DOMAIN chan[d] /\ chan'[d][i] = chan[d][i]
      <4>1. /\ chan[d][i].rq.ch = d /\ Fitting(chan[d][i].rq)
            /\ chan[d][i].nonce \in 0..RangeSize /\ chan[d][i].id \in 1..issued
            /\ ~Wrapped => chan[d][i].nonce = NonceFor(chan[d][i].id)
            /\ chan[d][i].id \notin performed
            /\ \A v \in Users : Busy(v) /\ user[v].id = chan[d][i].id => Asked(v) = chan[d][i].rq
        BY <1>0, <3>1 DEF Requests
      <4>2. chan[d][i].id \in 1..issued' /\ chan[d][i].id # k
        <5>1. chan[d][i].id \in 1..issued /\ issued \in Nat /\ k \in Nat /\ issued < k /\ issued' = k
          BY <1>1, <1>7, <4>1
        <5> QED
          BY ONLY <5>1
      <4>3. \A v \in Users : Busy(v)' /\ user'[v].id = chan[d][i].id => Asked(v)' = chan[d][i].rq
        <5> TAKE v \in Users
        <5>1. v # u => /\ user'[v] = user[v] /\ Asked(v)' = Asked(v) /\ (Busy(v)' => Busy(v))
          BY <1>4, <1>12
        <5>2. v = u => user'[v].id # chan[d][i].id
          BY <1>14, <4>2
        <5> QED
          BY <4>1, <5>1, <5>2
      <4> QED
        BY <1>2, <3>1, <4>1, <4>2, <4>3
    <3>2. CASE d = c /\ i = n /\ chan'[d][i] = item
      <4>1. k \in 1..issued' /\ k \notin performed
        BY <1>0, <1>1, <1>7 DEF PoolFits
      <4>2. \A v \in Users : Busy(v)' /\ user'[v].id = k => Asked(v)' = item.rq
        BY <1>7, <1>12, <1>14
      <4>3. item.rq.ch = d /\ Fitting(item.rq)
        BY <1>7, <3>2 DEF c
      <4> QED
        BY <1>2, <1>7, <3>2, <4>1, <4>2, <4>3
    <3> QED
      BY <1>9, <3>1, <3>2
  <2>2. DOMAIN chan' = Channels /\ \A d \in Channels : Queue(chan'[d])
    BY <1>6, <1>8
  <2> QED
    BY <1>5, <2>1, <2>2 DEF Requests
<1>16. SentOnce'
  <2> SUFFICES ASSUME NEW d \in Channels, NEW e \in Channels, NEW i \in DOMAIN chan'[d],
                      NEW j \in DOMAIN chan'[e], chan'[d][i].id = chan'[e][j].id
               PROVE  d = e /\ i = j
    BY DEF SentOnce
  <2>1. /\ \/ i \in DOMAIN chan[d] /\ chan'[d][i] = chan[d][i] /\ chan'[d][i].id # k
           \/ d = c /\ i = n /\ chan'[d][i].id = k
        /\ \/ j \in DOMAIN chan[e] /\ chan'[e][j] = chan[e][j] /\ chan'[e][j].id # k
           \/ e = c /\ j = n /\ chan'[e][j].id = k
    BY <1>7, <1>9, <1>10
  <2> QED
    BY <1>0, <2>1 DEF SentOnce
<1>17. Replies'
  <2>1. ASSUME NEW d \in Channels, NEW m \in 0..RangeSize, NEW b \in {responses[d][m]} \ {Silence}
        PROVE  /\ b.id \in 1..issued' /\ ~OnTheWay(b.id)'
               /\ ~Wrapped' => NonceFor(b.id) = m
               /\ b.ok <=> b.id \in performed
               /\ \A v \in Users : Busy(v)' /\ user'[v].id = b.id => Honest(v, b)'
    <3>1. /\ b.id \in 1..issued /\ ~OnTheWay(b.id)
          /\ ~Wrapped => NonceFor(b.id) = m
          /\ b.ok <=> b.id \in performed
          /\ \A v \in Users : Busy(v) /\ user[v].id = b.id => Honest(v, b)
      BY <1>0 DEF Replies
    <3>2. b.id \in 1..issued' /\ b.id # k
      BY <1>1, <1>7, <3>1
    <3>3. ~OnTheWay(b.id)'
      BY <1>11, <3>1, <3>2
    <3>4. \A v \in Users : Busy(v)' /\ user'[v].id = b.id => Honest(v, b)'
      BY <1>4, <1>12, <1>14, <3>1, <3>2
    <3> QED
      BY <1>2, <3>1, <3>2, <3>3, <3>4
  <2> QED
    BY <1>0, <2>1 DEF Replies
<1>18. UserFits(u)'
  <2>1. \A x : LeafOf(s.call.each, x)' = LeafOf(s.call.each, x)
    BY DEF Name, LeafOf, Follows, GetFunctionsInModule, GetPipelinesInNamespace, GetRunsInNamespace,
       Http, getFunctionCallback, getPipelineCallback, getRunCallback, Callback, GetFunctionsRq,
       GetPipelineRq, GetRunRq, Rq
  <2>2. \A x : LeafOf(user[u].call.each, x)' = LeafOf(s.call.each, x)
    BY <1>5 DEF Name, LeafOf, Follows, GetFunctionsInModule, GetPipelinesInNamespace, GetRunsInNamespace,
       Http, getFunctionCallback, getPipelineCallback, getRunCallback, Callback, GetFunctionsRq,
       GetPipelineRq, GetRunRq, Rq
  <2>3. Covered(u)'
    BY <1>2, <1>5, <2>2 DEF Covered
  <2>4. user'[u].id \in 1..issued' /\ user'[u].id \in 0..issued'
    BY <1>1, <1>5, <1>7
  <2>5. Waiting(u)'
    BY <1>2, <1>5, <1>14, <2>3, <2>4 DEF Waiting
  <2>6. TruthTo(u)' /\ WholeTo(u)'
    BY <1>5 DEF TruthTo, WholeTo
  <2> QED
    BY <1>5, <2>4, <2>5, <2>6 DEF UserFits
<1>19. UsersFit'
  BY <1>4, <1>12, <1>18 DEF UsersFit, UserFits
<1> QED
  BY <1>13, <1>15, <1>16, <1>17, <1>19 DEF Honesty

-----------------------------------------------------------------------------
(* What the threads' handlers answer. *)

\* What the waiting request of a user asks for, by the listing it belongs to.
LEMMA AsksFor ==
  ASSUME NEW u \in Users, Waiting(u)
  PROVE  LET each == user[u].call.each
             http == user[u].http
         IN  /\ Asked(u).act \in Changing => each = "none"
             /\ each # "none" => each \in {"functions", "pipelines", "runs"}
             /\ each # "none" /\ http = user[u].call.first =>
                  Asked(u) = IF each = "functions" THEN GetModulesRq ELSE GetNamespacesRq
             /\ each # "none" /\ http # user[u].call.first => Leaf(http)
             /\ \A x : each # "none" /\ http = LeafOf(each, x) =>
                  Asked(u) = (CASE each = "functions" -> GetFunctionsRq(Name(each, x))
                                [] each = "pipelines" -> GetPipelineRq(<<Name(each, x)>>)
                                [] each = "runs"      -> GetRunRq(Name(each, x)))
<1> DEFINE each == user[u].call.each
           http == user[u].http
<1>1. Root(user[u].call)
  BY CallsFit DEF Waiting
<1>2. http = user[u].call.first \/ (each # "none" /\ Leaf(http))
  BY DEF Waiting
<1>3. each # "none" => each \in {"functions", "pipelines", "runs"}
  BY <1>1 DEF Root
<1>4. each # "none" /\ http = user[u].call.first =>
        Asked(u) = IF each = "functions" THEN GetModulesRq ELSE GetNamespacesRq
  BY <1>1 DEF Root, Asked
<1>5. Asked(u).act \in Changing => each = "none"
  <2>1. CASE http = user[u].call.first
    BY <1>1, <2>1 DEF Root, Asked
  <2>2. CASE Leaf(http)
    BY <2>2, ChangingActs DEF Leaf, Asked
  <2> QED
    BY <1>2, <2>1, <2>2
<1>6. ASSUME NEW x, each # "none", http = LeafOf(each, x)
      PROVE  Asked(u) = (CASE each = "functions" -> GetFunctionsRq(Name(each, x))
                           [] each = "pipelines" -> GetPipelineRq(<<Name(each, x)>>)
                           [] each = "runs"      -> GetRunRq(Name(each, x)))
  <2>1. each \in {"functions", "pipelines", "runs"}
    BY <1>3, <1>6
  <2>2. Asked(u) = Follows(each, Name(each, x)).via.asks
    BY <1>6 DEF Asked, LeafOf
  <2> HIDE DEF each, http
  <2> QED
    BY ONLY <2>1, <2>2, LeavesFit
<1> QED
  BY <1>2, <1>3, <1>4, <1>5, <1>6

\* A request that is no part of a listing can be answered with anything.
LEMMA NoListing ==
  ASSUME NEW u \in Users, Waiting(u), Asked(u).act \notin Changing, NEW a,
         Asked(u).act # "Get" \/ Asked(u).rec \notin {"Module", "Namespace", "Function", "Pipeline", "Run"}
  PROVE  Honest(u, a)
<1>1. user[u].call.each = "none"
  <2> SUFFICES ASSUME user[u].call.each # "none" PROVE FALSE
    OBVIOUS
  <2>1. CASE user[u].http = user[u].call.first
    BY <2>1, AsksFor DEF GetModulesRq, GetNamespacesRq, Rq
  <2>2. CASE user[u].http # user[u].call.first
    BY <2>2, AsksFor DEF Leaf, Asked
  <2> QED
    BY <2>1, <2>2
<1> QED
  BY <1>1 DEF Honest

LEMMA StableStays ==
  ASSUME StableIsThere, UNCHANGED <<user, stable, hosts, pipelines, recorded, runs>>
  PROVE  StableIsThere' /\ Extends
BY DEF StableIsThere, Extends, Items, NamesOf

LEMMA StableShrinks ==
  ASSUME StableIsThere, UNCHANGED user, StillThere,
         \A i \in DOMAIN runs : i \in DOMAIN runs' /\ runs'[i] = runs[i]
  PROVE  StableIsThere' /\ Extends
<1>1. stable' = [u \in Users |-> stable[u] \cap Items(user[u].call.each, hosts, pipelines, recorded, runs)']
  BY DEF StillThere, Items, NamesOf
<1>2. \A u \in Users : stable'[u] \subseteq stable[u]
                       /\ stable'[u] \subseteq Items(user[u].call.each, hosts, pipelines, recorded, runs)'
  BY <1>1
<1>3. stable' = [u \in Users |-> stable'[u]]
  BY <1>1
<1> QED
  BY <1>2, <1>3 DEF StableIsThere, Extends

\* A thread shows what it keeps, and keeps it.
LEMMA ShowsKeep ==
  ASSUME Honesty, NEW ch \in Channels, NEW act, NEW rec, NEW r \in Taken(ch, act, rec),
         NEW ok \in BOOLEAN, NEW kind, NEW data, Answers(r, ok, kind, data),
         UNCHANGED <<tableVars, storeVars, stable>>,
         \A a : a.ok = ok /\ a.kind = kind /\ a.data = data =>
           \A u \in Users : Waiting(u) /\ Asked(u) = r.rq => Honest(u, a)
  PROVE  Honesty'
<1> DEFINE a == [id |-> r.id, ok |-> ok, kind |-> kind, data |-> data]
<1>1. StableIsThere /\ RunsFit /\ UsersFit
  BY DEF Honesty
<1>2. UNCHANGED <<user, stable, hosts, pipelines, recorded, runs, issued>>
  BY DEF Answers, restVars, tableVars, storeVars
<1>3. StableIsThere' /\ Extends /\ RunsFit'
  BY <1>1, <1>2, StableStays DEF RunsFit
<1> SUFFICES ASSUME NEW b, b = a PROVE Honesty'
  OBVIOUS
<1>4. \A u \in Users : Busy(u) /\ Asked(u) = r.rq => Honest(u, b)
  <2>1. b.ok = ok /\ b.kind = kind /\ b.data = data
    OBVIOUS
  <2> QED
    BY <1>1, <2>1 DEF UsersFit
<1>5. \A u \in Users : Honest(u, b) => Honest(u, b)'
  BY <1>1, <1>2, <1>3, HonestStays
<1> QED
  BY <1>3, <1>4, <1>5, AnswersKeep

\* A thread changes what it keeps, or refuses to, and answers no more than that.
LEMMA ChangesKeep ==
  ASSUME Honesty, NEW ch \in Channels, NEW act \in Changing, NEW rec, NEW r \in Taken(ch, act, rec),
         NEW ok \in BOOLEAN, Answers(r, ok, "none", {}),
         UNCHANGED runs, StableIsThere', Extends
  PROVE  Honesty'
<1>1. RunsFit /\ UsersFit /\ Requests
  BY DEF Honesty
<1>2. UNCHANGED <<user, issued>>
  BY DEF Answers, restVars
<1>3. RunsFit'
  BY <1>1, <1>2 DEF RunsFit
<1> SUFFICES ASSUME NEW a, a = [id |-> r.id, ok |-> ok, kind |-> "none", data |-> {}] PROVE Honesty'
  OBVIOUS
<1>4. r.rq.act = act
  BY <1>1, TakenFits
<1>5. ASSUME NEW u \in Users, Busy(u), Asked(u) = r.rq PROVE Honest(u, a)'
  <2>1. user[u].call.each = "none"
    BY <1>1, <1>4, <1>5, AsksFor DEF UsersFit
  <2>2. user'[u].call.each = "none" /\ a.data = {}
    BY <1>2, <2>1
  <2> QED
    BY <2>2 DEF Honest
<1> QED
  BY <1>3, <1>5, AnswersKeep

LEMMA ModulesShown ==
  ASSUME Honesty, Inv, handleGetModule
  PROVE  Honesty'
<1>0. "c5" \in Channels /\ "Get" \notin Changing
  BY ChannelNames, ChangingActs
<1>1. PICK r \in Taken("c5", "Get", "Module") :
        /\ Answers(r, TRUE, "modules", GetModules) /\ UNCHANGED <<tableVars, storeVars, stable>>
  BY DEF handleGetModule, Shows
<1>2. r.rq.act = "Get" /\ r.rq.rec = "Module" /\ StableIsThere
  BY <1>0, TakenFits DEF Honesty
<1>3. ASSUME NEW u \in Users, Waiting(u), Asked(u) = r.rq, NEW a, a.ok = TRUE, a.kind = "modules",
             a.data = GetModules
      PROVE  Honest(u, a)
  <2> DEFINE each == user[u].call.each
  <2>1. Asked(u).act \notin Changing
    BY <1>0, <1>2, <1>3
  <2>2. ASSUME each # "none", user[u].http = user[u].call.first
        PROVE  Asked(u).wants = "modules" /\ \A x \in stable[u] : Name(each, x) \in GetModules
    <3>1. Asked(u) = GetModulesRq /\ each = "functions"
      BY <1>2, <1>3, <2>2, AsksFor DEF GetModulesRq, GetNamespacesRq, Rq
    <3>2. \A x \in stable[u] : x \in Functions /\ hosts[x] # <<>>
      BY <1>2, <3>1 DEF StableIsThere, Items
    <3>3. \A f \in Functions : f[1] \in Modules /\ (hosts[f] # <<>> => version[f[1]] # Absent)
      BY FunctionsFit, ListsFacts DEF Inv
    <3>4. \A x \in stable[u] : x[1] \in GetModules
      BY <3>2, <3>3 DEF GetModules, HasModule
    <3> QED
      BY <3>1, <3>4 DEF GetModulesRq, Rq, Name
  <2>3. ~(each # "none" /\ user[u].http # user[u].call.first)
    BY <1>2, <1>3, AsksFor DEF Leaf, Asked
  <2> QED
    BY <1>3, <2>1, <2>2, <2>3 DEF Honest
<1> QED
  BY <1>0, <1>1, <1>3, ShowsKeep

LEMMA NamespacesShown ==
  ASSUME Honesty, handleGetNamespaceRecord
  PROVE  Honesty'
<1>0. "c1" \in Channels /\ "Get" \notin Changing
  BY ChannelNames, ChangingActs
<1> DEFINE names == NamesOf(pipelines \cup recorded)
<1>1. PICK r \in Taken("c1", "Get", "Namespace") :
        /\ Answers(r, TRUE, "namespaces", names) /\ UNCHANGED <<tableVars, storeVars, stable>>
  BY DEF handleGetNamespaceRecord, Shows
<1>2. r.rq.act = "Get" /\ r.rq.rec = "Namespace" /\ StableIsThere
  BY <1>0, TakenFits DEF Honesty
<1>3. ASSUME NEW u \in Users, Waiting(u), Asked(u) = r.rq, NEW a, a.ok = TRUE, a.kind = "namespaces",
             a.data = names
      PROVE  Honest(u, a)
  <2> DEFINE each == user[u].call.each
  <2>1. Asked(u).act \notin Changing
    BY <1>0, <1>2, <1>3
  <2>2. ASSUME each # "none", user[u].http = user[u].call.first
        PROVE  Asked(u).wants = "namespaces" /\ \A x \in stable[u] : Name(each, x) \in names
    <3>1. Asked(u) = GetNamespacesRq /\ each \in {"pipelines", "runs"}
      BY <1>2, <1>3, <2>2, AsksFor DEF GetModulesRq, GetNamespacesRq, Rq
    <3>2. each = "pipelines" => \A x \in stable[u] : x[1] \in names
      BY <1>2, <3>1 DEF StableIsThere, Items, NamesOf
    <3>3. each = "runs" => \A x \in stable[u] : runs[x].pipeline[1] \in names
      BY <1>2, <3>1 DEF StableIsThere, Items
    <3>4. \A x \in stable[u] : Name(each, x) \in names
      BY <3>1, <3>2, <3>3 DEF Name
    <3>5. Asked(u).wants = "namespaces"
      BY <3>1 DEF GetNamespacesRq, Rq
    <3> QED
      BY ONLY <3>4, <3>5
  <2>3. ~(each # "none" /\ user[u].http # user[u].call.first)
    BY <1>2, <1>3, AsksFor DEF Leaf, Asked
  <2> QED
    BY <1>3, <2>1, <2>2, <2>3 DEF Honest
<1> QED
  BY <1>0, <1>1, <1>3, ShowsKeep

\* An answer to the later requests of a listing.
LEMMA LeafAnswer ==
  ASSUME NEW u \in Users, Waiting(u), Asked(u).act = "Get", NEW rec \in {"Function", "Pipeline", "Run"},
         Asked(u).rec = rec, NEW a,
         \A x \in stable[u] :
           /\ user[u].call.each = (CASE rec = "Function" -> "functions"
                                     [] rec = "Pipeline" -> "pipelines"
                                     [] rec = "Run"      -> "runs")
           /\ user[u].http = LeafOf(user[u].call.each, x)
           => a.ok /\ a.kind = Asked(u).wants /\ x \in a.data
  PROVE  Honest(u, a)
<1> DEFINE each == user[u].call.each
<1>1. Asked(u).act \notin Changing
  BY ChangingActs
<1>2. ~(each # "none" /\ user[u].http = user[u].call.first)
  BY AsksFor DEF GetModulesRq, GetNamespacesRq, Rq
<1>3. ASSUME each # "none", NEW x \in stable[u], user[u].http = LeafOf(each, x)
      PROVE  a.ok /\ a.kind = Asked(u).wants /\ x \in a.data
  <2>1. each \in {"functions", "pipelines", "runs"}
        /\ Asked(u) = (CASE each = "functions" -> GetFunctionsRq(Name(each, x))
                         [] each = "pipelines" -> GetPipelineRq(<<Name(each, x)>>)
                         [] each = "runs"      -> GetRunRq(Name(each, x)))
    BY <1>3, AsksFor
  <2>2. each = (CASE rec = "Function" -> "functions"
                  [] rec = "Pipeline" -> "pipelines"
                  [] rec = "Run"      -> "runs")
    BY <2>1 DEF GetFunctionsRq, GetPipelineRq, GetRunRq, Rq
  <2> QED
    BY <1>3, <2>2
<1> QED
  BY <1>1, <1>2, <1>3 DEF Honest

\* The argument of those requests is the name under which what they are about is found.
LEMMA LeafNames ==
  ASSUME NEW u \in Users, Waiting(u), NEW each, user[u].call.each = each, NEW x,
         each \in {"functions", "pipelines", "runs"}, user[u].http = LeafOf(each, x)
  PROVE  /\ Asked(u).arg = <<Name(each, x)>>
         /\ Asked(u).wants = each
<1>1. Asked(u) = (CASE each = "functions" -> GetFunctionsRq(Name(each, x))
                    [] each = "pipelines" -> GetPipelineRq(<<Name(each, x)>>)
                    [] each = "runs"      -> GetRunRq(Name(each, x)))
  BY AsksFor
<1> QED
  BY <1>1 DEF GetFunctionsRq, GetPipelineRq, GetRunRq, Rq

LEMMA FunctionsShown ==
  ASSUME Honesty, Inv, handleGetFunctions
  PROVE  Honesty'
<1>0. "c5" \in Channels
  BY ChannelNames
<1>1. PICK r \in Taken("c5", "Get", "Function") :
        /\ Answers(r, HasModule(r.rq.arg[1]), "functions", GetFunctions(r.rq.arg[1]))
        /\ UNCHANGED <<tableVars, storeVars, stable>>
  BY DEF handleGetFunctions
<1> DEFINE m == r.rq.arg[1]
<1>2. r.rq.act = "Get" /\ r.rq.rec = "Function" /\ StableIsThere
  BY <1>0, TakenFits DEF Honesty
<1>3. ASSUME NEW u \in Users, Waiting(u), Asked(u) = r.rq,
             NEW a, a.ok = HasModule(m), a.kind = "functions", a.data = GetFunctions(m)
      PROVE  Honest(u, a)
  <2>1. ASSUME NEW x \in stable[u], user[u].call.each = "functions", user[u].http = LeafOf("functions", x)
        PROVE  a.ok /\ a.kind = Asked(u).wants /\ x \in a.data
    <3>0. Asked(u).arg = <<Name("functions", x)>> /\ Asked(u).wants = "functions"
      BY ONLY <1>3, <2>1, LeafNames, SMTT(30)
    <3>1. m = x[1] /\ Asked(u).wants = "functions"
      BY ONLY <1>3, <3>0 DEF Name
    <3>2. x \in Functions /\ hosts[x] # <<>>
      BY <1>2, <2>1 DEF StableIsThere, Items
    <3>3. version[x[1]] # Absent
      BY <3>2, ListsFacts DEF Inv
    <3>4. HasModule(x[1]) /\ x \in GetFunctions(x[1])
      BY <3>2, <3>3 DEF HasModule, HasFunction, GetFunctions, Of
    <3> QED
      BY <1>3, <3>1, <3>4
  <2> QED
    BY <1>2, <1>3, <2>1, LeafAnswer
<1>4. HasModule(m) \in BOOLEAN
  BY DEF HasModule
<1> QED
  BY <1>0, <1>1, <1>3, <1>4, ShowsKeep

LEMMA PipelinesShown ==
  ASSUME Honesty, handleGetPipelineRecord
  PROVE  Honesty'
<1>0. "c1" \in Channels
  BY ChannelNames
<1>1. PICK r \in Taken("c1", "Get", "Pipeline") :
        /\ Answers(r, Found(r.rq.arg) # {}, "pipelines", Found(r.rq.arg))
        /\ UNCHANGED <<tableVars, storeVars, stable>>
  BY DEF handleGetPipelineRecord
<1> DEFINE found == Found(r.rq.arg)
           some  == found # {}
<1>2. r.rq.act = "Get" /\ r.rq.rec = "Pipeline" /\ StableIsThere
  BY <1>0, TakenFits DEF Honesty
<1>3. ASSUME NEW u \in Users, Waiting(u), Asked(u) = r.rq,
             NEW a, a.ok = some, a.kind = "pipelines", a.data = found
      PROVE  Honest(u, a)
  <2>1. ASSUME NEW x \in stable[u], user[u].call.each = "pipelines", user[u].http = LeafOf("pipelines", x)
        PROVE  a.ok /\ a.kind = Asked(u).wants /\ x \in a.data
    <3>0. Asked(u).arg = <<Name("pipelines", x)>> /\ Asked(u).wants = "pipelines"
      BY ONLY <1>3, <2>1, LeafNames
    <3>1. r.rq.arg = <<x[1]>> /\ Asked(u).wants = "pipelines"
      BY ONLY <1>3, <3>0 DEF Name
    <3>2. x \in pipelines
      BY <1>2, <2>1 DEF StableIsThere, Items
    <3>3. x \in found
      BY <3>1, <3>2 DEF Found
    <3> QED
      BY <1>3, <3>1, <3>3
  <2> QED
    BY <1>2, <1>3, <2>1, LeafAnswer
<1>4. some \in BOOLEAN
  OBVIOUS
<1>5. Answers(r, some, "pipelines", found) /\ UNCHANGED <<tableVars, storeVars, stable>>
  BY <1>1
<1> HIDE DEF some, found
<1> QED
  BY <1>0, <1>3, <1>4, <1>5, ShowsKeep

LEMMA RunsShown ==
  ASSUME Honesty, handleGetRun
  PROVE  Honesty'
<1>0. "c5" \in Channels
  BY ChannelNames
<1>1. PICK r \in Taken("c5", "Get", "Run") :
        /\ Answers(r, TRUE, "runs", RunsIn(r.rq.arg[1])) /\ UNCHANGED <<tableVars, storeVars, stable>>
  BY DEF handleGetRun
<1> DEFINE found == RunsIn(r.rq.arg[1])
<1>2. r.rq.act = "Get" /\ r.rq.rec = "Run" /\ StableIsThere
  BY <1>0, TakenFits DEF Honesty
<1>3. ASSUME NEW u \in Users, Waiting(u), Asked(u) = r.rq, NEW a, a.ok = TRUE, a.kind = "runs", a.data = found
      PROVE  Honest(u, a)
  <2>1. ASSUME NEW x \in stable[u], user[u].call.each = "runs", user[u].http = LeafOf("runs", x)
        PROVE  a.ok /\ a.kind = Asked(u).wants /\ x \in a.data
    <3>0. Asked(u).arg = <<Name("runs", x)>> /\ Asked(u).wants = "runs"
      BY ONLY <1>3, <2>1, LeafNames, SMTT(30)
    <3>1. r.rq.arg = <<runs[x].pipeline[1]>> /\ Asked(u).wants = "runs"
      BY ONLY <1>3, <3>0 DEF Name
    <3>2. x \in DOMAIN runs
      BY <1>2, <2>1 DEF StableIsThere, Items
    <3>3. x \in found
      BY <3>1, <3>2 DEF RunsIn
    <3> QED
      BY <1>3, <3>1, <3>3
  <2> QED
    BY <1>2, <1>3, <2>1, LeafAnswer
<1> QED
  BY <1>0, <1>1, <1>3, ShowsKeep

\* The other requests that only look.
LEMMA OthersShown ==
  ASSUME Honesty,
         \/ handleGetProcessor \/ handleCountRuns \/ handleGetStatisticRecord
         \/ handleSummaryStatistics \/ handleGetJob \/ handleGetQueue
  PROVE  Honesty'
<1>0. {"c5", "c1", "c20"} \subseteq Channels
  BY ChannelNames
<1>1. ASSUME NEW ch \in Channels, NEW act \in {"Get", "Count", "Summary"}, NEW rec,
             act # "Get" \/ rec \notin {"Module", "Namespace", "Function", "Pipeline", "Run"},
             NEW r \in Taken(ch, act, rec), NEW ok \in BOOLEAN, NEW kind, NEW data,
             Answers(r, ok, kind, data), UNCHANGED <<tableVars, storeVars, stable>>
      PROVE  Honesty'
  <2>1. r.rq.act = act /\ r.rq.rec = rec
    BY <1>1, TakenFits DEF Honesty
  <2>2. act \notin Changing
    BY ChangingActs
  <2>3. \A a : a.ok = ok /\ a.kind = kind /\ a.data = data =>
          \A u \in Users : Waiting(u) /\ Asked(u) = r.rq => Honest(u, a)
    BY <1>1, <2>1, <2>2, NoListing
  <2> QED
    BY <1>1, <2>3, ShowsKeep
<1>2. CASE handleGetProcessor
  BY <1>0, <1>1, <1>2 DEF handleGetProcessor, Shows
<1>3. CASE handleCountRuns
  BY <1>0, <1>1, <1>3 DEF handleCountRuns
<1>4. CASE handleGetStatisticRecord
  <2>1. PICK r \in Taken("c1", "Get", "Statistic") :
          /\ Answers(r, StatisticsOf(r.rq.arg) # {}, "statistics", StatisticsOf(r.rq.arg))
          /\ UNCHANGED <<tableVars, storeVars, stable>>
    BY <1>4 DEF handleGetStatisticRecord
  <2> DEFINE some == StatisticsOf(r.rq.arg) # {}
  <2>2. some \in BOOLEAN /\ Answers(r, some, "statistics", StatisticsOf(r.rq.arg))
    BY <2>1
  <2> HIDE DEF some
  <2> QED
    BY <1>0, <1>1, <2>1, <2>2
<1>5. CASE handleSummaryStatistics
  BY <1>0, <1>1, <1>5 DEF handleSummaryStatistics
<1>6. CASE handleGetJob
  <2>1. PICK r \in Taken("c20", "Get", "Job") :
          Answers(r, jobs # {}, "jobs", jobs) /\ UNCHANGED <<tableVars, storeVars, stable>>
    BY <1>6 DEF handleGetJob
  <2> DEFINE some == jobs # {}
  <2>2. some \in BOOLEAN /\ Answers(r, some, "jobs", jobs)
    BY <2>1
  <2> HIDE DEF some
  <2> QED
    BY <1>0, <1>1, <2>1, <2>2
<1>7. CASE handleGetQueue
  BY <1>0, <1>1, <1>7 DEF handleGetQueue, Shows
<1> QED
  BY <1>2, <1>3, <1>4, <1>5, <1>6, <1>7

\* A new run is the answer to the request that made it.
LEMMA RunCreated ==
  ASSUME Honesty, StoresFit, handleCreateRun
  PROVE  Honesty'
<1>0. "c5" \in Channels /\ "Create" \in Changing
  BY ChannelNames DEF Changing
<1>1. PICK r \in Taken("c5", "Create", "Run") :
        LET p == r.rq.arg IN
          \/ /\ p \in pipelines
             /\ runs' = Append(runs, [pipeline |-> p, by |-> r.id])
             /\ Answers(r, TRUE, "run", {Len(runs) + 1})
             /\ StillThere
          \/ /\ Answers(r, FALSE, "none", {})
             /\ UNCHANGED <<tableVars, storeVars, stable>>
  BY DEF handleCreateRun
<1>2. RunsFit /\ UsersFit /\ Requests /\ StableIsThere
  BY DEF Honesty
<1>3. CASE Answers(r, FALSE, "none", {}) /\ UNCHANGED <<tableVars, storeVars, stable>>
  <2>1. UNCHANGED <<user, stable, hosts, pipelines, recorded, runs>>
    BY <1>3 DEF Answers, restVars, tableVars, storeVars
  <2>2. StableIsThere' /\ Extends
    BY <1>2, <2>1, StableStays
  <2> QED
    BY <1>0, <1>3, <2>1, <2>2, ChangesKeep
<1>4. ASSUME r.rq.arg \in pipelines, runs' = Append(runs, [pipeline |-> r.rq.arg, by |-> r.id]),
             Answers(r, TRUE, "run", {Len(runs) + 1}), StillThere
      PROVE  Honesty'
  <2> DEFINE run == [pipeline |-> r.rq.arg, by |-> r.id]
             n   == Len(runs) + 1
  <2>1. UNCHANGED <<user, issued>> /\ r.id \in 1..issued /\ r.rq.act = "Create"
    BY <1>0, <1>2, <1>4, TakenFits DEF Answers, restVars
  <2>2. /\ Queue(runs') /\ n \in DOMAIN runs' /\ runs'[n] = run
        /\ \A i \in DOMAIN runs : i \in DOMAIN runs' /\ runs'[i] = runs[i]
        /\ \A i \in DOMAIN runs' : i \in DOMAIN runs \/ i = n
    BY <1>2, <1>4, QueueGrows DEF RunsFit
  <2>3. run.pipeline \in Pipelines /\ run.by = r.id
    BY <1>4 DEF StoresFit
  <2> HIDE DEF run, n
  <2>4. RunsFit'
    BY <1>2, <2>1, <2>2, <2>3 DEF RunsFit
  <2>5. StableIsThere' /\ Extends
    BY <1>2, <1>4, <2>1, <2>2, StableShrinks
  <2> SUFFICES ASSUME NEW a, a = [id |-> r.id, ok |-> TRUE, kind |-> "run", data |-> {n}] PROVE Honesty'
    OBVIOUS
  <2>6. Answers(r, TRUE, "run", {n})
    BY <1>4 DEF n
  <2>7. ASSUME NEW u \in Users, Busy(u), Asked(u) = r.rq PROVE Honest(u, a)'
    <3>1. user[u].call.each = "none"
      BY <1>0, <1>2, <2>1, <2>7, AsksFor DEF UsersFit
    <3>2. user'[u].call.each = "none" /\ a.data = {n} /\ a.id = r.id
      BY <2>1, <3>1
    <3>3. a.data \subseteq {i \in DOMAIN runs' : runs'[i].by = a.id}
      BY <2>2, <2>3, <3>2
    <3> QED
      BY <3>2, <3>3 DEF Honest
  <2> QED
    BY <1>0, <2>4, <2>5, <2>6, <2>7, AnswersKeep
<1> QED
  BY <1>1, <1>3, <1>4

\* The requests that change the table, the pipelines or the jobs, or stop a run.
LEMMA OthersChanged ==
  ASSUME Honesty,
         \/ handleMountModule \/ handleUnMountModule \/ handleMountFunction \/ handleUnMountFunction
         \/ handleDeleteRun \/ handleCreatePipelineRecord \/ handleUpdatePipelineRecord
         \/ handleDeletePipelineRecord \/ handleCreateJob \/ handleDeleteJob
  PROVE  Honesty'
<1>0. /\ {"c5", "c1", "c20"} \subseteq Channels
      /\ {"Mount", "UnMount", "Create", "Update", "Delete"} = Changing
  BY ChannelNames DEF Changing
<1>1. StableIsThere
  BY DEF Honesty
<1> DEFINE Quiet(r, ok) == Answers(r, ok, "none", {}) /\ UNCHANGED <<stable, hosts, pipelines, recorded, runs>>
<1>2. ASSUME NEW ch \in Channels, NEW act \in Changing, NEW rec, NEW r \in Taken(ch, act, rec),
             NEW ok \in BOOLEAN, Quiet(r, ok)
      PROVE  Honesty'
  <2>1. UNCHANGED <<user, stable, hosts, pipelines, recorded, runs>>
    BY <1>2 DEF Answers, restVars
  <2> QED
    BY <1>1, <1>2, <2>1, StableStays, ChangesKeep
<1>3. CASE handleMountModule
  <2>1. PICK r \in Taken("c5", "Mount", "Module") : Changes(r, HasModule(r.rq.arg[1]), MountModule(r.rq.arg[1]))
    BY <1>3 DEF handleMountModule
  <2> DEFINE can == HasModule(r.rq.arg[1])
  <2>2. can \in BOOLEAN
    BY DEF HasModule, HasFunction
  <2>3. Quiet(r, can)
    BY <2>1, Zenon DEF Changes, storeVars, tableVars, MountModule, untouched
  <2> HIDE DEF can, Quiet
  <2> QED
    BY <1>0, <1>2, <2>2, <2>3
<1>4. CASE handleUnMountModule
  <2>1. PICK r \in Taken("c5", "UnMount", "Module") : Changes(r, HasModule(r.rq.arg[1]), UnMountModule(r.rq.arg[1]))
    BY <1>4 DEF handleUnMountModule
  <2> DEFINE can == HasModule(r.rq.arg[1])
  <2>2. can \in BOOLEAN
    BY DEF HasModule, HasFunction
  <2>3. Quiet(r, can)
    BY <2>1, Zenon DEF Changes, storeVars, tableVars, UnMountModule, untouched
  <2> HIDE DEF can, Quiet
  <2> QED
    BY <1>0, <1>2, <2>2, <2>3
<1>5. CASE handleMountFunction
  <2>1. PICK r \in Taken("c5", "Mount", "Function") : Changes(r, HasFunction(r.rq.arg), MountFunction(r.rq.arg))
    BY <1>5 DEF handleMountFunction
  <2> DEFINE can == HasFunction(r.rq.arg)
  <2>2. can \in BOOLEAN
    BY DEF HasModule, HasFunction
  <2>3. Quiet(r, can)
    BY <2>1, Zenon DEF Changes, storeVars, tableVars, MountFunction, untouched
  <2> HIDE DEF can, Quiet
  <2> QED
    BY <1>0, <1>2, <2>2, <2>3
<1>6. CASE handleUnMountFunction
  <2>1. PICK r \in Taken("c5", "UnMount", "Function") : Changes(r, HasFunction(r.rq.arg), UnMountFunction(r.rq.arg))
    BY <1>6 DEF handleUnMountFunction
  <2> DEFINE can == HasFunction(r.rq.arg)
  <2>2. can \in BOOLEAN
    BY DEF HasModule, HasFunction
  <2>3. Quiet(r, can)
    BY <2>1, Zenon DEF Changes, storeVars, tableVars, UnMountFunction, untouched
  <2> HIDE DEF can, Quiet
  <2> QED
    BY <1>0, <1>2, <2>2, <2>3
<1>7. CASE handleDeleteRun
  <2>1. PICK r \in Taken("c5", "Delete", "Run") :
          Answers(r, TRUE, "none", {}) /\ UNCHANGED <<tableVars, storeVars, stable>>
    BY <1>7 DEF handleDeleteRun
  <2>2. Quiet(r, TRUE)
    BY <2>1 DEF storeVars, tableVars
  <2> HIDE DEF Quiet
  <2> QED
    BY <1>0, <1>2, <2>2
<1>8. ASSUME NEW act \in Changing, NEW r \in Taken("c1", act, "Pipeline"), NEW ok \in BOOLEAN,
             Answers(r, ok, "none", {}), UNCHANGED runs, StillThere
      PROVE  Honesty'
  <2>1. UNCHANGED user
    BY <1>8 DEF Answers, restVars
  <2>2. StableIsThere' /\ Extends
    BY <1>1, <1>8, <2>1, StableShrinks
  <2> QED
    BY <1>0, <1>8, <2>2, ChangesKeep
<1>9. CASE handleCreatePipelineRecord
  <2>1. PICK r \in Taken("c1", "Create", "Pipeline") :
          StoresPipelines(r, r.rq.arg \notin pipelines, pipelines \cup {r.rq.arg})
    BY <1>9 DEF handleCreatePipelineRecord
  <2> DEFINE ok == r.rq.arg \notin pipelines
  <2>2. ok \in BOOLEAN /\ Answers(r, ok, "none", {}) /\ UNCHANGED runs /\ StillThere
    BY <2>1 DEF StoresPipelines
  <2> HIDE DEF ok
  <2> QED
    BY <1>0, <1>8, <2>2
<1>10. CASE handleUpdatePipelineRecord
  <2>1. PICK r \in Taken("c1", "Update", "Pipeline") :
          StoresPipelines(r, r.rq.arg \in pipelines, pipelines)
    BY <1>10 DEF handleUpdatePipelineRecord
  <2> DEFINE ok == r.rq.arg \in pipelines
  <2>2. ok \in BOOLEAN /\ Answers(r, ok, "none", {}) /\ UNCHANGED runs /\ StillThere
    BY <2>1 DEF StoresPipelines
  <2> HIDE DEF ok
  <2> QED
    BY <1>0, <1>8, <2>2
<1>11. CASE handleDeletePipelineRecord
  <2>1. PICK r \in Taken("c1", "Delete", "Pipeline") :
          StoresPipelines(r, r.rq.arg \in pipelines, pipelines \ {r.rq.arg})
    BY <1>11 DEF handleDeletePipelineRecord
  <2> DEFINE ok == r.rq.arg \in pipelines
  <2>2. ok \in BOOLEAN /\ Answers(r, ok, "none", {}) /\ UNCHANGED runs /\ StillThere
    BY <2>1 DEF StoresPipelines
  <2> HIDE DEF ok
  <2> QED
    BY <1>0, <1>8, <2>2
<1>12. CASE handleCreateJob
  <2>1. PICK r \in Taken("c20", "Create", "Job") :
          StoresJobs(r, r.rq.arg[1] \notin jobs, jobs \cup {r.rq.arg[1]})
    BY <1>12 DEF handleCreateJob
  <2> DEFINE ok == r.rq.arg[1] \notin jobs
  <2>2. ok \in BOOLEAN /\ Quiet(r, ok)
    BY <2>1 DEF StoresJobs, tableVars
  <2> HIDE DEF ok, Quiet
  <2> QED
    BY <1>0, <1>2, <2>2
<1>13. CASE handleDeleteJob
  <2>1. PICK r \in Taken("c20", "Delete", "Job") :
          StoresJobs(r, r.rq.arg[1] \in jobs, jobs \ {r.rq.arg[1]})
    BY <1>13 DEF handleDeleteJob
  <2> DEFINE ok == r.rq.arg[1] \in jobs
  <2>2. ok \in BOOLEAN /\ Quiet(r, ok)
    BY <2>1 DEF StoresJobs, tableVars
  <2> HIDE DEF ok, Quiet
  <2> QED
    BY <1>0, <1>2, <2>2
<1> QED
  BY <1>3, <1>4, <1>5, <1>6, <1>7, <1>9, <1>10, <1>11, <1>12, <1>13

\* What workers do.
LEMMA WorkersKeep ==
  ASSUME Honesty,
         \/ handleCreateProcessor \/ handleCreateModule \/ handleDeleteProcessor
         \/ handleCreateStatisticRecord
  PROVE  Honesty'
<1>1. /\ UNCHANGED <<pipelines, jobs, runs, chan, responses, restVars, performed>>
      /\ StillThere
  BY Zenon DEF handleCreateProcessor, handleCreateModule, handleDeleteProcessor,
     handleCreateStatisticRecord, TableEvent, Event
<1>2. UNCHANGED <<chan, responses, cur, issued, user, performed, runs>>
  BY <1>1 DEF restVars
<1>3. StableIsThere' /\ Extends
  BY <1>1, <1>2, StableShrinks DEF Honesty
<1> QED
  BY <1>2, <1>3, EventsKeep

-----------------------------------------------------------------------------
(* What operators do. *)

LEMMA BeginKeeps ==
  ASSUME Honesty, NEW u \in Users, NEW c \in Calls, Begin(u, c)
  PROVE  Honesty'
<1> DEFINE state == [Idle EXCEPT !.call = c]
           ended == [state EXCEPT !.http = c.first]
           told  == Told(c.first, c.first.via.failure)
<1>0. StableIsThere /\ UsersFit /\ issued \in Nat
  BY DEF Honesty, PoolFits
<1>1. /\ stable' = [stable EXCEPT ![u] = Items(c.each, hosts, pipelines, recorded, runs)]
      /\ UNCHANGED <<tableVars, storeVars, responses, performed, events>>
      /\ \/ c.first.via.asks = Nothing /\ Ends(u, ended, told)
         \/ c.first.via.asks # Nothing /\ Sends(u, state, c.first)
  BY Zenon DEF Begin
<1>2. Root(c)
  BY CallsFit
<1>3. UNCHANGED <<responses, performed, runs, hosts, pipelines, recorded>>
  BY <1>1 DEF tableVars, storeVars
<1>4. /\ stable'[u] = Items(c.each, hosts, pipelines, recorded, runs)
      /\ \A v \in Users \ {u} : stable'[v] = stable[v]
      /\ stable' = [v \in Users |-> stable'[v]]
  BY <1>0, <1>1 DEF StableIsThere
<1>5. /\ DOMAIN state = DOMAIN Idle /\ state.call = c /\ state.got = {} /\ state.todo = {}
      /\ DOMAIN ended = DOMAIN Idle /\ ended.call = c /\ ended.http = c.first /\ ended.id = 0
  BY DEF Idle
<1>6. told \in {"nil", "error"}
  BY DEF Told
<1> HIDE DEF state, ended, told
<1>7. \A v \in Users \ {u} : user'[v].call = user[v].call
  BY <1>0, <1>1 DEF UsersFit, Ends, Sends
<1>8. user'[u].call = c
  <2>1. CASE Ends(u, ended, told)
    <3>1. user' = [user EXCEPT ![u] = [ended EXCEPT !.told = told]]
      BY <2>1 DEF Ends
    <3> QED
      BY <1>0, <1>5, <3>1 DEF UsersFit, Idle
  <2>2. CASE Sends(u, state, c.first)
    <3>1. user' = [user EXCEPT ![u] = [state EXCEPT !.http = c.first, !.nonce = NextNonce,
                                                    !.id = issued + 1, !.told = "waiting"]]
      BY <2>2 DEF Sends
    <3> QED
      BY <1>0, <1>5, <3>1 DEF UsersFit, Idle
  <2> QED
    BY <1>1, <2>1, <2>2
<1>9. StableIsThere'
  <2>1. \A v \in Users : stable'[v] \subseteq Items(user'[v].call.each, hosts, pipelines, recorded, runs)
    BY <1>0, <1>4, <1>7, <1>8 DEF StableIsThere
  <2> QED
    BY <1>3, <1>4, <2>1 DEF StableIsThere, Items, NamesOf
<1>10. CASE c.first.via.asks = Nothing /\ Ends(u, ended, told)
  <2>1. ended.http.via.asks.act \notin Changing /\ ended.call.each = "none"
    BY <1>2, <1>5, <1>10, ChangingActs DEF Root, Nothing, GetModulesRq, GetNamespacesRq, Rq
  <2>2. ended.id \in 0..issued
    BY <1>0, <1>5
  <2> QED
    BY <1>3, <1>4, <1>5, <1>6, <1>9, <1>10, <2>1, <2>2, EndsKeep
<1>11. CASE c.first.via.asks # Nothing /\ Sends(u, state, c.first)
  <2>1. Fitting(c.first.via.asks)
    BY <1>2, <1>11 DEF Root
  <2> QED
    BY <1>3, <1>4, <1>5, <1>9, <1>11, <2>1, SendsKeep
<1> QED
  BY <1>1, <1>10, <1>11

\* What a user finds under the nonce of the request it waits for is about that request.
LEMMA Known ==
  ASSUME Honesty, NEW u \in Users, Busy(u), ~Wrapped,
         NEW ans \in {responses[Asked(u).ch][user[u].nonce]} \ {Silence}
  PROVE  /\ ans.id = user[u].id /\ ~OnTheWay(user[u].id)
         /\ ans.ok <=> user[u].id \in performed
         /\ Honest(u, ans)
<1>1. Waiting(u) /\ Replies /\ issued \in Nat
  BY DEF Honesty, UsersFit, PoolFits
<1>2. Asked(u).ch \in Channels /\ user[u].nonce \in 0..RangeSize /\ user[u].id \in 1..issued
      /\ user[u].nonce = NonceFor(user[u].id)
  BY <1>1 DEF Waiting, Fitting
<1>3. /\ ans.id \in 1..issued /\ ~OnTheWay(ans.id) /\ NonceFor(ans.id) = user[u].nonce
      /\ ans.ok <=> ans.id \in performed
      /\ Busy(u) /\ user[u].id = ans.id => Honest(u, ans)
  BY <1>1, <1>2 DEF Replies
<1>4. ans.id = user[u].id
  BY <1>1, <1>2, <1>3, OneNonce
<1> QED
  BY <1>3, <1>4

LEMMA ContinueKeeps ==
  ASSUME Honesty, NEW u \in Users, Busy(u), NEW ans,
         ans # Silence => ans = responses[Asked(u).ch][user[u].nonce],
         Continue(u, ans),
         UNCHANGED <<tableVars, storeVars, responses, stable, performed>>
  PROVE  Honesty'
<1> DEFINE s      == user[u]
           rq     == Asked(u)
           each   == s.call.each
           good   == Accepts(rq, ans)
           status == IF good THEN "OK" ELSE s.http.via.failure
           told   == Told(s.http, status)
           data   == IF good THEN ans.data ELSE {}
           naming == each # "none" /\ s.http = s.call.first
           todo   == IF naming THEN {Follows(each, x) : x \in data} ELSE s.todo
           got    == IF naming THEN {} ELSE s.got \cup data
           lost   == s.lost \/ ans = Silence
           state  == [s EXCEPT !.got = got, !.lost = lost]
           ended  == [state EXCEPT !.todo = {}]
           Rest(next) == [state EXCEPT !.todo = todo \ {next}]
<1>0. StableIsThere /\ UsersFit /\ issued \in Nat
  BY DEF Honesty, PoolFits
<1>1. Waiting(u) /\ DOMAIN s = DOMAIN Idle /\ user[u].id \in 0..issued
  BY <1>0 DEF UsersFit
<1>2. \/ (told = "error" \/ todo = {}) /\ Ends(u, ended, told)
      \/ told # "error" /\ \E next \in todo : Sends(u, Rest(next), next)
  BY Zenon DEF Continue, Asked
<1>3. UNCHANGED <<responses, performed, runs, hosts, pipelines, recorded, stable>>
  BY DEF tableVars, storeVars
<1>4. told \in {"nil", "error"}
  BY DEF Told
<1>5. ans # Silence /\ ~Wrapped =>
        /\ ans.id = s.id /\ ~OnTheWay(s.id) /\ (ans.ok <=> s.id \in performed)
        /\ Honest(u, ans)
  BY Known
<1>6. Root(s.call) /\ Fitting(rq)
  BY <1>1, CallsFit DEF Waiting
<1>7. /\ rq.act \in Changing => each = "none" /\ s.http = s.call.first /\ s.got = {}
      /\ each # "none" => each \in {"functions", "pipelines", "runs"}
      /\ each # "none" /\ s.http # s.call.first => Leaf(s.http)
      /\ s.http = s.call.first \/ each # "none"
      /\ \A next \in s.todo : each # "none" /\ Leaf(next)
      /\ s.call \in Calls
  BY <1>1, AsksFor DEF Waiting
<1>8. /\ DOMAIN ended = DOMAIN Idle /\ ended.call = s.call /\ ended.http = s.http /\ ended.id = s.id
      /\ ended.got = got /\ ended.lost = lost
  BY <1>1 DEF Idle
<1>9. \A next : /\ DOMAIN Rest(next) = DOMAIN Idle /\ Rest(next).call = s.call
                /\ Rest(next).todo = todo \ {next} /\ Rest(next).got = got /\ Rest(next).lost = lost
  BY <1>1 DEF Idle
<1> HIDE DEF ended, Rest, state
\* What is there to see is in a good answer.
<1>10. ASSUME ~Wrapped, ~lost, naming
       PROVE  good /\ \A x \in stable[u] : LeafOf(each, x) \in todo
  <2>1. ans # Silence /\ ans.ok /\ ans.kind = rq.wants /\ \A x \in stable[u] : Name(each, x) \in ans.data
    BY <1>5, <1>10 DEF Honest
  <2>2. good
    BY <2>1 DEF Accepts
  <2> QED
    BY <1>10, <2>1, <2>2 DEF LeafOf
<1>11. ASSUME ~Wrapped, ~lost, each # "none", ~naming, NEW x \in stable[u]
       PROVE  x \in got \/ LeafOf(each, x) \in todo
  <2>1. x \in s.got \/ s.http = LeafOf(each, x) \/ LeafOf(each, x) \in s.todo
    BY <1>1, <1>11 DEF Waiting, Covered
  <2>2. ASSUME s.http = LeafOf(each, x) PROVE x \in data
    <3>1. ans # Silence /\ ans.ok /\ ans.kind = rq.wants /\ x \in ans.data
      BY <1>5, <1>11, <2>2 DEF Honest
    <3> QED
      BY <3>1 DEF Accepts
  <2> QED
    BY <1>11, <2>1, <2>2
<1>12. ASSUME rq.act \in Changing, ~Wrapped
       PROVE  /\ told = "nil" /\ rq.rec # "Job" => s.id \in performed
              /\ told = "error" /\ ~lost => s.id \notin performed /\ ~OnTheWay(s.id)
              /\ told = "nil" /\ rq.rec = "Run" => got \subseteq {i \in DOMAIN runs : runs[i].by = s.id}
  <2>1. s.http.strict /\ (rq.rec # "Job" => s.http.via.failure # "OK") /\ rq.wants = "none"
    <3>1. rq = s.call.first.via.asks /\ s.http = s.call.first
      BY ONLY <1>7, <1>12 DEF Asked
    <3>2. Root(s.call) /\ s.call.first.via.asks.act \in Changing
      BY ONLY <1>6, <1>12, <3>1
    <3>3. /\ s.call.first.strict
          /\ s.call.first.via.asks.rec # "Job" => s.call.first.via.failure # "OK"
      BY ONLY <3>2 DEF Root
    <3>4. rq.wants = "none"
      BY ONLY <1>6, <1>12 DEF Fitting
    <3> QED
      BY ONLY <3>1, <3>3, <3>4
  <2>2. good <=> ans # Silence /\ ans.ok
    BY <1>12, <2>1, ChangingActs DEF Accepts, GetJobsRq, Rq
  <2>3. told = "nil" /\ rq.rec # "Job" => good
    BY <2>1 DEF Told
  <2>4. told = "error" => ~good
    BY DEF Told
  <2>5. told = "nil" /\ rq.rec = "Run" => got = ans.data /\ good
    BY <1>7, <1>12, <2>3
  <2>6. good => ans.data \subseteq {i \in DOMAIN runs : runs[i].by = s.id}
    BY <1>5, <1>12, <2>2 DEF Honest
  <2> QED
    BY <1>5, <1>12, <2>2, <2>3, <2>4, <2>5, <2>6
<1>13. StableIsThere'
  <2>1. \A v \in Users : user'[v].call = user[v].call
    <3>1. CASE Ends(u, ended, told)
      <4>1. user' = [user EXCEPT ![u] = [ended EXCEPT !.told = told]]
        BY <3>1 DEF Ends
      <4> QED
        BY <1>0, <1>8, <4>1 DEF UsersFit, Idle
    <3>2. ASSUME NEW next, Sends(u, Rest(next), next) PROVE \A v \in Users : user'[v].call = user[v].call
      <4>1. user' = [user EXCEPT ![u] = [Rest(next) EXCEPT !.http = next, !.nonce = NextNonce,
                                                          !.id = issued + 1, !.told = "waiting"]]
        BY <3>2 DEF Sends
      <4> QED
        BY <1>0, <1>9, <4>1 DEF UsersFit, Idle
    <3> QED
      BY <1>2, <3>1, <3>2
  <2> QED
    BY <1>0, <1>3, <2>1 DEF StableIsThere, Items, NamesOf
<1>14. CASE (told = "error" \/ todo = {}) /\ Ends(u, ended, told)
  <2>1. ASSUME told = "nil", each # "none", ~lost, ~Wrapped PROVE stable[u] \subseteq got
    <3>1. todo = {}
      BY <1>14, <2>1
    <3> QED
      BY <1>10, <1>11, <2>1, <3>1
  <2>2. ended.http.via.asks = rq
    BY <1>8 DEF Asked
  <2> HIDE DEF s, rq, each, told, got, lost, todo, naming, good, status, data
  <2>3. told = "nil" /\ ended.call.each # "none" /\ ~ended.lost /\ ~Wrapped => stable'[u] \subseteq ended.got
    BY <1>3, <1>8, <2>1 DEF each
  <2>4. ended.http.via.asks.act \in Changing /\ ~Wrapped =>
           /\ told = "nil" /\ ended.http.via.asks.rec # "Job" => ended.id \in performed
           /\ told = "error" /\ ~ended.lost => ended.id \notin performed /\ ~OnTheWay(ended.id)
           /\ told = "nil" /\ ended.http.via.asks.rec = "Run" =>
                ended.got \subseteq {i \in DOMAIN runs : runs[i].by = ended.id}
    BY <1>8, <1>12, <2>2
  <2>5. ended.id \in 0..issued
    BY <1>1, <1>8 DEF s
  <2> QED
    BY <1>3, <1>4, <1>8, <1>13, <1>14, <2>3, <2>4, <2>5, EndsKeep
<1>15. ASSUME NEW next \in todo, Sends(u, Rest(next), next) PROVE Honesty'
  <2>1. each # "none" /\ Leaf(next) /\ \A http \in todo : Leaf(http)
    BY <1>7, LeavesFit
  <2>2. ~Wrapped /\ ~lost =>
          \A x \in stable[u] : x \in got \/ next = LeafOf(each, x) \/ LeafOf(each, x) \in todo \ {next}
    BY <1>10, <1>11, <2>1
  <2> HIDE DEF rq, told, got, lost, todo, naming, good, status, data
  <2>3. /\ Rest(next).call.each = each /\ Rest(next).call \in Calls /\ Fitting(next.via.asks)
        /\ \A h \in Rest(next).todo : Rest(next).call.each # "none" /\ Leaf(h)
    BY <1>7, <1>9, <2>1 DEF Leaf
  <2>4. ~Wrapped /\ ~Rest(next).lost /\ Rest(next).call.each # "none" /\ next # Rest(next).call.first =>
           \A x \in stable'[u] : \/ x \in Rest(next).got
                                 \/ next = LeafOf(Rest(next).call.each, x)
                                 \/ LeafOf(Rest(next).call.each, x) \in Rest(next).todo
    BY <1>3, <1>9, <2>2
  <2> QED
    BY <1>3, <1>9, <1>13, <1>15, <2>1, <2>3, <2>4, SendsKeep
<1> QED
  BY <1>2, <1>14, <1>15

LEMMA UsersKeep ==
  ASSUME Honesty, UserActs
  PROVE  Honesty'
<1>1. PICK u \in Users : (\E c \in Calls : Begin(u, c)) \/ ReadsAnswer(u) \/ TimesOut(u)
  BY DEF UserActs
<1>2. CASE \E c \in Calls : Begin(u, c)
  BY <1>2, BeginKeeps
<1>3. CASE ReadsAnswer(u)
  BY <1>3, ContinueKeeps DEF ReadsAnswer, Asked
<1>4. CASE TimesOut(u)
  BY <1>4, ContinueKeeps DEF TimesOut
<1> QED
  BY <1>1, <1>2, <1>3, <1>4

-----------------------------------------------------------------------------
LEMMA InitSound == Init => Sound
<1> SUFFICES ASSUME Init PROVE Sound
  OBVIOUS
<1>1. Inv
  BY InitInv
<1>2. /\ Empty /\ pipelines = Pipelines /\ recorded = {} /\ jobs = {} /\ runs = <<>>
      /\ chan = [ch \in Channels |-> <<>>]
      /\ responses = [ch \in Channels |-> [n \in 0..RangeSize |-> Silence]]
      /\ cur = 0 /\ issued = 0 /\ user = [u \in Users |-> Idle] /\ stable = [u \in Users |-> {}]
      /\ performed = {}
  BY DEF Init
<1>3. TableSound
  <2>1. TallyFits
    BY <1>2 DEF Empty, TallyFits
  <2>2. StoresFit
    BY <1>2 DEF StoresFit
  <2> QED
    BY <1>1, <2>1, <2>2, TableSoundIs DEF Inv
<1>4. Queue(<<>>) /\ DOMAIN <<>> = {}
  <2>1. DOMAIN <<>> = {}
    OBVIOUS
  <2>2. <<>> \in Seq({<<>>[i] : i \in DOMAIN <<>>})
    OBVIOUS
  <2> QED
    BY <2>1, <2>2 DEF Queue
<1>5. PoolFits
  BY <1>2, ApiAssumption DEF PoolFits, NonceFor, Wrapped
<1>6. RunsFit
  BY <1>2, <1>4 DEF RunsFit
<1>7. \A ch \in Channels : chan[ch] = <<>>
  BY <1>2
<1>8. Requests /\ SentOnce
  <2>1. DOMAIN chan = Channels
    BY <1>2
  <2> QED
    BY <1>4, <1>7, <2>1 DEF Requests, SentOnce
<1>9. Replies
  <2>1. DOMAIN responses = Channels
        /\ \A ch \in Channels : DOMAIN responses[ch] = 0..RangeSize
                                /\ \A n \in 0..RangeSize : responses[ch][n] = Silence
    BY <1>2
  <2> QED
    BY <2>1 DEF Replies
<1>10. StableIsThere
  BY <1>2 DEF StableIsThere
<1>11. UsersFit
  <2>1. DOMAIN user = Users /\ \A u \in Users : user[u] = Idle
    BY <1>2
  <2>2. Idle.told = "nothing yet" /\ Idle.id = 0
    BY DEF Idle
  <2>3. issued = 0
    BY <1>2
  <2>4. 0 \in 0..issued
    BY ONLY <2>3
  <2> QED
    BY <2>1, <2>2, <2>4 DEF UsersFit, Busy, TruthTo, WholeTo
<1> QED
  BY <1>1, <1>3, <1>5, <1>6, <1>8, <1>9, <1>10, <1>11 DEF Sound

LEMMA StepSound == Sound /\ [Next]_vars => Sound'
<1> SUFFICES ASSUME Sound, [Next]_vars PROVE Sound'
  OBVIOUS
<1>1. Inv /\ TableFits /\ TallyFits /\ StoresFit /\ Honesty
  BY TableSoundIs DEF Sound, Honesty
<1>2. Inv' /\ TableFits'
  BY <1>1, StepInv DEF Inv
<1>3. RunsFit /\ Requests
  BY <1>1 DEF Honesty
<1>4. TallyFits'
  BY <1>1, <1>3, ProcessorTallies, OthersTally DEF Next
<1>5. StoresFit'
  BY <1>1, <1>3, StoresKeep
<1>6. Honesty'
  <2>1. CASE ProcessorServes
    BY <1>1, <2>1, Zenon, ModulesShown, FunctionsShown, RunsShown, OthersShown, OthersChanged, RunCreated,
       WorkersKeep DEF ProcessorServes
  <2>2. CASE DatabaseServes
    BY <1>1, <2>2, Zenon, PipelinesShown, NamespacesShown, OthersShown, OthersChanged, WorkersKeep
       DEF DatabaseServes
  <2>3. CASE SchedulerServes
    BY <1>1, <2>3, Zenon, OthersShown, OthersChanged DEF SchedulerServes
  <2>4. CASE UserActs
    BY <1>1, <2>4, UsersKeep
  <2>5. CASE UNCHANGED vars
    <3>1. UNCHANGED <<chan, responses, cur, issued, user, performed, runs, stable, hosts, pipelines, recorded>>
      BY <2>5 DEF vars, restVars, storeVars, tableVars
    <3>2. StableIsThere' /\ Extends
      BY <1>1, <3>1, StableStays DEF Honesty
    <3> QED
      BY <1>1, <3>1, <3>2, EventsKeep
  <2> QED
    BY <2>1, <2>2, <2>3, <2>4, <2>5 DEF Next
<1>7. TableSound'
  BY <1>2, <1>4, <1>5 DEF TableSound, TableTypeOK, TableFits, TallyFits, StoresFit
<1> QED
  BY <1>2, <1>6, <1>7 DEF Sound, Honesty

\* Nonces stay inside the pool, whatever is on its way or recorded is about a request that was
\* sent, and the table and the stores hold what operators and workers named.
THEOREM TypeCorrect == Spec => []TypeOK
<1>1. Sound => TypeOK
  BY DEF Sound, TypeOK, TableSound, PoolFits, RunsFit, Requests, UsersFit
<1> QED
  BY <1>1, InitSound, StepSound, PTL DEF Spec

\* Until the pool of nonces has gone round, an operator who is told that a change went well is
\* told so because the core performed that very request, and one who is told of an error that
\* is no timeout is told so because it did not and will not.
THEOREM ToldTruly == Spec => []ToldTheTruth
<1>1. Sound => ToldTheTruth
  BY DEF Sound, UsersFit, TruthTo, ToldTheTruth
<1> QED
  BY <1>1, InitSound, StepSound, PTL DEF Spec

\* A listing put together from several requests shows all that was there while it took, unless
\* a request of it timed out or the pool of nonces has gone round.
THEOREM ListedWhole == Spec => []ListingIsWhole
<1>1. Sound => ListingIsWhole
  BY DEF Sound, UsersFit, WholeTo, ListingIsWhole
<1> QED
  BY <1>1, InitSound, StepSound, PTL DEF Spec
=============================================================================
