---------------------------- MODULE ClientProofs ----------------------------
(***************************************************************************)
(* Proofs about Client, whatever its interrupt queue has room for and      *)
(* however often the network breaks: types, what becomes of a connection   *)
(* that is given up, and how often the client dials.                       *)
(***************************************************************************)
EXTENDS Client, FiniteSetTheorems, TLAPS

USE ClientAssumption

States  == {"up", "down", "closed"}
Places  == {"none", "decode", "in", "failed", "done"}
Pollers == {"first", "failed", "connect", "poll", "redial", "jammed", "returned"}
Events  == [event : {"failed", "close"}, of : Nat]

\* The connections, and that whoever connects, polls or dials again has one.
ConnsFit ==
  /\ net \in Seq(States)
  /\ listener \in Seq(Places) /\ Len(listener) = Len(net)
  /\ endedBy \in Seq(Nat) /\ Len(endedBy) = Len(net)
  /\ poller \in {"connect", "poll", "redial", "jammed"} => Len(net) > 0

\* An interrupt is about a connection that was made.
QueueFits ==
  /\ interrupts \in Seq(Events) /\ Len(interrupts) <= Room
  /\ \A i \in DOMAIN interrupts : interrupts[i].of <= Len(net)

RestFits ==
  /\ poller \in Pollers
  /\ connected \in BOOLEAN /\ attemptReconnect \in BOOLEAN
  /\ sending \in BOOLEAN /\ terminating \in {"no", "waits", "done"}
  /\ breaks \in 0..MaxBreaks /\ sends \in 0..MaxSends

Typed == ConnsFit /\ QueueFits /\ RestFits

LEMMA AddsEvent ==
  ASSUME NEW q \in Seq(Events), NEW e \in Events
  PROVE  /\ Append(q, e) \in Seq(Events) /\ Len(Append(q, e)) = Len(q) + 1
         /\ \A i \in DOMAIN Append(q, e) :
              (i \in DOMAIN q /\ Append(q, e)[i] = q[i]) \/ Append(q, e)[i] = e
OBVIOUS

LEMMA AppendKeeps ==
  ASSUME NEW q \in Seq(Events), NEW e \in Events
  PROVE  \A i \in DOMAIN q : i \in DOMAIN Append(q, e) /\ Append(q, e)[i] = q[i]
OBVIOUS

LEMMA TakesEvent ==
  ASSUME NEW q \in Seq(Events), q # <<>>
  PROVE  /\ Tail(q) \in Seq(Events) /\ Len(Tail(q)) = Len(q) - 1 /\ Head(q) \in Events
         /\ 1 \in DOMAIN q /\ Head(q) = q[1]
         /\ \A i \in DOMAIN Tail(q) : i + 1 \in DOMAIN q /\ Tail(q)[i] = q[i + 1]
OBVIOUS

LEMMA AboutEvents ==
  /\ \A k \in Nat : functionFailed(k) \in Events
  /\ \A k : functionFailed(k).event = "failed" /\ functionFailed(k).of = k
  /\ forceClose \in Events /\ forceClose.event = "close" /\ forceClose.of = 0
BY DEF functionFailed, forceClose, Events

LEMMA Interrupted ==
  ASSUME Typed, NEW e \in Events, e.of <= Len(net), HasRoom, Interrupt(e), UNCHANGED net
  PROVE  QueueFits'
<1>1. interrupts \in Seq(Events) /\ Len(interrupts) < Room
  BY DEF Typed, QueueFits, HasRoom
<1>2. \A i \in DOMAIN interrupts' : interrupts'[i].of <= Len(net)
  BY <1>1, AddsEvent DEF Interrupt, Typed, QueueFits
<1>3. interrupts' \in Seq(Events) /\ Len(interrupts') <= Room
  BY <1>1, AddsEvent DEF Interrupt
<1> QED
  BY <1>2, <1>3 DEF QueueFits

LEMMA Taken ==
  ASSUME Typed, interrupts # <<>>, interrupts' = Tail(interrupts), Len(net') = Len(net)
  PROVE  QueueFits' /\ Head(interrupts) \in Events /\ Head(interrupts).of <= Len(net)
BY TakesEvent DEF Typed, QueueFits

LEMMA TypedIsTypeOK == Typed => TypeOK
<1> SUFFICES ASSUME Typed PROVE TypeOK
  OBVIOUS
<1>1. /\ Conns = 1..Len(net)
      /\ listener \in [Conns -> Places] /\ endedBy \in [Conns -> Nat]
  BY DEF Typed, ConnsFit, Conns
<1> QED
  BY <1>1 DEF Typed, ConnsFit, QueueFits, RestFits, TypeOK, States, Places, Pollers, Events

LEMMA Empty ==
  ASSUME NEW S
  PROVE  <<>> \in Seq(S) /\ Len(<<>>) = 0 /\ DOMAIN <<>> = {}
OBVIOUS

LEMMA InitTyped == Init => Typed
<1> SUFFICES ASSUME Init PROVE Typed
  OBVIOUS
<1>1. ConnsFit
  BY Empty DEF Init, ConnsFit
<1>2. QueueFits
  <2>1. interrupts \in Seq(Events) /\ Len(interrupts) = 0 /\ DOMAIN interrupts = {}
    BY Empty DEF Init
  <2> QED
    BY <2>1 DEF QueueFits
<1>3. RestFits
  <2>1. poller \in Pollers /\ breaks \in 0..MaxBreaks /\ sends \in 0..MaxSends
    BY DEF Init, Pollers
  <2>2. /\ connected \in BOOLEAN /\ attemptReconnect \in BOOLEAN
        /\ sending \in BOOLEAN /\ terminating \in {"no", "waits", "done"}
    BY Zenon DEF Init
  <2> QED
    BY <2>1, <2>2 DEF RestFits
<1> QED
  BY <1>1, <1>2, <1>3 DEF Typed

\* A step that leaves the connections as they are may move the poller along.
LEMMA ConnsStay ==
  ASSUME ConnsFit, UNCHANGED conns,
         poller' \in {"connect", "poll", "redial", "jammed"} => Len(net) > 0
  PROVE  ConnsFit'
BY DEF ConnsFit, conns

LEMMA ListenerMoves ==
  ASSUME ConnsFit, NEW k \in Conns, NEW to \in Places,
         listener' = [listener EXCEPT ![k] = to], UNCHANGED <<net, endedBy>>,
         poller' \in {"connect", "poll", "redial", "jammed"} => Len(net) > 0
  PROVE  ConnsFit'
BY DEF ConnsFit, Conns

LEMMA NetChanges ==
  ASSUME ConnsFit, NEW k \in Conns, NEW to \in States,
         net' = [net EXCEPT ![k] = to], UNCHANGED <<listener, endedBy>>,
         poller' \in {"connect", "poll", "redial", "jammed"} => Len(net) > 0
  PROVE  ConnsFit' /\ Len(net') = Len(net)
BY DEF ConnsFit, Conns

LEMMA QueueStays ==
  ASSUME QueueFits, UNCHANGED interrupts, Len(net') = Len(net)
  PROVE  QueueFits'
BY DEF QueueFits

LEMMA StepTyped ==
  ASSUME Typed, [Next]_vars
  PROVE  Typed'
<1> USE DEF RestFits, Pollers
<1>c. /\ DOMAIN net = 1..Len(net) /\ Len(net) \in Nat
      /\ Conns = 1..Len(net) /\ Current = Len(net)
  BY DEF Typed, ConnsFit, Conns, Current
<1>1. CASE Dialled
  <2>1. /\ net' \in Seq(States) /\ Len(net') = Len(net) + 1
        /\ listener' \in Seq(Places) /\ Len(listener') = Len(listener) + 1
        /\ endedBy' \in Seq(Nat) /\ Len(endedBy') = Len(endedBy) + 1
    BY <1>1 DEF Dialled, Typed, ConnsFit, States, Places
  <2>2. QueueFits'
    <3>1. \A i \in DOMAIN interrupts : interrupts[i] \in Events /\ interrupts[i].of \in Nat
      <4>1. \A e \in Events : e.of \in Nat
        BY DEF Events
      <4> QED
        BY <4>1 DEF Typed, QueueFits
    <3>2. interrupts' = interrupts /\ Len(net) <= Len(net') /\ Len(net') \in Nat
      BY <1>1, <2>1, <1>c DEF Dialled
    <3>3. \A i \in DOMAIN interrupts : interrupts[i].of <= Len(net')
      BY <3>1, <3>2, <1>c DEF Typed, QueueFits
    <3> QED
      BY <3>2, <3>3 DEF Typed, QueueFits
  <2> QED
    BY <1>1, <1>c, <2>1, <2>2 DEF Dialled, Typed, ConnsFit
<1>2. CASE DialFails
  BY <1>2, ConnsStay, QueueStays DEF DialFails, Typed, conns, flags
<1>3. CASE Connected
  <2>1. ConnsFit'
    BY <1>3, <1>c, ListenerMoves DEF Connected, Typed, ConnsFit, Places
  <2> QED
    BY <1>3, <2>1, QueueStays DEF Connected, Typed, flags
<1>4. CASE PollFailed
  <2>1. QueueFits' /\ Head(interrupts).of \in Nat
    BY <1>4, Taken DEF PollFailed, Events
  <2>2. ConnsFit'
    BY <1>4, <1>c, <2>1 DEF PollFailed, Typed, ConnsFit
  <2> QED
    BY <1>4, <2>1, <2>2 DEF PollFailed, Typed
<1>5. CASE PollClose
  <2>1. ConnsFit' /\ Len(net') = Len(net)
    BY <1>5, <1>c, NetChanges DEF PollClose, Typed, ConnsFit, States
  <2>2. QueueFits'
    BY <1>5, <2>1, Taken DEF PollClose
  <2> QED
    BY <1>5, <2>1, <2>2 DEF PollClose, Typed
<1>6. CASE PollSend
  BY <1>6, ConnsStay, QueueStays DEF PollSend, Typed, ConnsFit, conns, flags
<1>7. CASE PollSendFails
  <2>1. ConnsFit'
    BY <1>7, ConnsStay DEF PollSendFails, Typed, ConnsFit, conns
  <2>2. QueueFits'
    BY <1>7, <1>c, Interrupted, QueueStays, AboutEvents DEF PollSendFails, Typed, conns
  <2> QED
    BY <1>7, <2>1, <2>2 DEF PollSendFails, Typed, flags
<1>8. ASSUME NEW k \in Conns, PollReceive(k) \/ Receive(k) \/ DecodeFails(k)
      PROVE Typed'
  <2>1. PICK to \in Places : listener' = [listener EXCEPT ![k] = to]
    BY <1>8 DEF PollReceive, Receive, DecodeFails, Places
  <2>2. ConnsFit'
    BY <1>8, <2>1, ListenerMoves DEF PollReceive, Receive, DecodeFails, Typed, ConnsFit
  <2> QED
    BY <1>8, <2>2, QueueStays DEF PollReceive, Receive, DecodeFails, Typed, flags
<1>9. ASSUME NEW k \in Conns, Break(k)
      PROVE Typed'
  <2>1. ConnsFit' /\ Len(net') = Len(net)
    BY <1>9, NetChanges DEF Break, Typed, ConnsFit, States
  <2> QED
    BY <1>9, <2>1, QueueStays DEF Break, Typed, flags
<1>10. ASSUME NEW k \in Conns, ListenerInterrupts(k)
       PROVE Typed'
  <2>1. ConnsFit'
    BY <1>10, ListenerMoves DEF ListenerInterrupts, Typed, ConnsFit, Places
  <2>2. QueueFits'
    BY <1>10, <1>c, Interrupted, AboutEvents DEF ListenerInterrupts
  <2> QED
    BY <1>10, <2>1, <2>2 DEF ListenerInterrupts, Typed, flags
<1>11. CASE Send \/ Disconnect
  <2>1. UNCHANGED <<conns, poller, flags, interrupts>>
    BY <1>11 DEF Send, Disconnect
  <2>2. ConnsFit' /\ QueueFits'
    BY <2>1, ConnsStay, QueueStays DEF Typed, ConnsFit, conns
  <2>3. sends' \in 0..MaxSends /\ breaks' = breaks
    BY <1>11 DEF Send, Disconnect, Typed
  <2>4. sending' \in BOOLEAN /\ terminating' \in {"no", "waits", "done"}
    BY <1>11 DEF Send, Disconnect, Typed
  <2> QED
    BY <2>1, <2>2, <2>3, <2>4 DEF Typed, flags
<1>12. CASE Terminate
  <2>1. ConnsFit'
    BY <1>12, ConnsStay DEF Terminate, Typed, ConnsFit, conns
  <2>2. QueueFits'
    BY <1>12, <1>c, Interrupted, AboutEvents DEF Terminate, conns
  <2> QED
    BY <1>12, <2>1, <2>2 DEF Terminate, Typed, flags
<1>13. CASE UNCHANGED vars
  BY <1>13, ConnsStay, QueueStays DEF vars, conns, flags, Typed, ConnsFit
<1> QED
  BY <1>1, <1>2, <1>3, <1>4, <1>5, <1>6, <1>7, <1>8, <1>9, <1>10, <1>11, <1>12, <1>13
     DEF Next, EPoll, Listen

\* Every variable of the client keeps its type.
THEOREM TypeCorrect == Spec => []TypeOK
<1>1. Spec => []Typed
  BY InitTyped, StepTyped, PTL DEF Spec
<1> QED
  BY <1>1, TypedIsTypeOK, PTL
-----------------------------------------------------------------------------
\* Whoever fails to read, and whatever an interrupt is about, is a connection that is not up.
Heard ==
  /\ poller = "connect" => listener[Current] = "none"
  /\ \A k \in Conns : listener[k] \in {"failed", "done"} => net[k] # "up"
  /\ \A i \in DOMAIN interrupts :
       interrupts[i].event = "failed" => interrupts[i].of \in Conns /\ net[interrupts[i].of] # "up"

\* No connection is given up for what happens on a later one, or on itself while it is up.
EndedRightly ==
  \A k \in Conns : endedBy[k] <= k /\ (endedBy[k] = k => net[k] # "up")

Down == {k \in Conns : net[k] = "down"}
Done == {k \in Conns : listener[k] = "done"}

\* The dial the client is about to make, the message it is writing, the order to close.
Owed == IF poller \in {"first", "redial"} THEN 1 ELSE 0
Writing == IF sending THEN 1 ELSE 0
Told == IF terminating = "done" THEN 1 ELSE 0

\* Until the client returns, every connection after the first, every interrupt that waits and
\* the message being written are paid for by a listener that ended, a message sent or the order
\* to close; and a listener ends with a connection that broke.
Paid ==
  /\ \A k \in Conns : net[k] # "closed"
  /\ Cardinality(Down) <= breaks
  /\ terminating = "done" => \E i \in DOMAIN interrupts : interrupts[i].event = "close"
  /\ Len(net) + Owed + Len(interrupts) + Writing <= 1 + Cardinality(Done) + sends + Told

Budget == DialsAreBounded /\ (poller # "returned" => Paid)

Inv == Typed /\ Heard /\ EndedRightly /\ Budget
-----------------------------------------------------------------------------
\* A connection that is not up stays so.
StaysDown ==
  Conns \subseteq Conns' /\ \A k \in Conns : net[k] # "up" => net'[k] # "up"

LEMMA Shape ==
  ASSUME Typed
  PROVE  /\ Conns = 1..Len(net) /\ Current = Len(net) /\ Len(net) \in Nat
         /\ DOMAIN net = Conns /\ DOMAIN listener = Conns /\ DOMAIN endedBy = Conns
         /\ poller \in {"connect", "poll", "redial", "jammed"} => Current \in Conns
         /\ interrupts \in Seq(Events)
BY DEF Typed, ConnsFit, QueueFits, Conns, Current

LEMMA Dials ==
  ASSUME Typed, Dialled
  PROVE  /\ Conns' = Conns \cup {Len(net) + 1} /\ Len(net') = Len(net) + 1
         /\ Len(net) + 1 \notin Conns
         /\ \A k \in Conns : net'[k] = net[k] /\ listener'[k] = listener[k] /\ endedBy'[k] = endedBy[k]
         /\ net'[Len(net) + 1] = "up" /\ listener'[Len(net) + 1] = "none"
         /\ endedBy'[Len(net) + 1] = 0
<1>1. net' = Append(net, "up") /\ listener' = Append(listener, "none")
      /\ endedBy' = Append(endedBy, 0)
  BY DEF Dialled
<1>2. /\ net \in Seq(States) /\ listener \in Seq(Places) /\ endedBy \in Seq(Nat)
      /\ Len(listener) = Len(net) /\ Len(endedBy) = Len(net) /\ Conns = 1..Len(net)
  BY DEF Typed, ConnsFit, Conns
<1>3. Conns' = 1..(Len(net) + 1) /\ Len(net') = Len(net) + 1
  BY <1>1, <1>2 DEF Conns
<1> QED
  BY <1>1, <1>2, <1>3

LEMMA NeverUpAgain ==
  ASSUME Typed, [Next]_vars
  PROVE  StaysDown
<1>1. CASE Dialled
  BY <1>1, Dials DEF StaysDown
<1>2. CASE UNCHANGED net
  BY <1>2 DEF StaysDown, Conns
<1>3. CASE PollClose
  BY <1>3, Shape DEF PollClose, StaysDown, Conns
<1>4. ASSUME NEW k \in Conns, Break(k) PROVE StaysDown
  BY <1>4, Shape DEF Break, StaysDown, Conns
<1> QED
  BY <1>1, <1>2, <1>3, <1>4
     DEF Next, EPoll, Listen, DialFails, Connected, PollFailed, PollSend, PollSendFails, conns,
         PollReceive, Receive, DecodeFails, ListenerInterrupts, Send, Disconnect, Terminate, vars

\* The interrupts after a step: those before it, or one less, or one more.
FailedIsDown(e) == e.event = "failed" => e.of \in Conns /\ net[e.of] # "up"

LEMMA HeardAs ==
  Heard =>
    /\ \A k \in Conns : listener[k] \in {"failed", "done"} => net[k] # "up"
    /\ \A i \in DOMAIN interrupts : FailedIsDown(interrupts[i])
BY DEF Heard, FailedIsDown

LEMMA StillDown ==
  ASSUME StaysDown, NEW e, FailedIsDown(e)
  PROVE  e.event = "failed" => e.of \in Conns' /\ net'[e.of] # "up"
BY DEF StaysDown, FailedIsDown

LEMMA InterruptsHeard ==
  ASSUME Typed, Heard, StaysDown,
         \/ UNCHANGED interrupts
         \/ interrupts # <<>> /\ interrupts' = Tail(interrupts)
         \/ \E e \in Events : Interrupt(e) /\ FailedIsDown(e)
  PROVE  \A i \in DOMAIN interrupts' :
           interrupts'[i].event = "failed" =>
             interrupts'[i].of \in Conns' /\ net'[interrupts'[i].of] # "up"
<1>1. \A i \in DOMAIN interrupts : FailedIsDown(interrupts[i])
  BY HeardAs
<1>2. \A i \in DOMAIN interrupts' : FailedIsDown(interrupts'[i])
  <2>1. CASE UNCHANGED interrupts
    BY <1>1, <2>1
  <2>2. CASE interrupts # <<>> /\ interrupts' = Tail(interrupts)
    BY <1>1, <2>2, Shape, TakesEvent
  <2>3. ASSUME NEW e \in Events, Interrupt(e), FailedIsDown(e)
        PROVE \A i \in DOMAIN interrupts' : FailedIsDown(interrupts'[i])
    BY <1>1, <2>3, Shape, AddsEvent DEF Interrupt
  <2> QED
    BY <2>1, <2>2, <2>3
<1> QED
  BY <1>2, StillDown

LEMMA ListenersHeard ==
  ASSUME Typed, Heard, [Next]_vars
  PROVE  \A k \in Conns' : listener'[k] \in {"failed", "done"} => net'[k] # "up"
<1>d. StaysDown
  BY NeverUpAgain
<1>s. \A k \in Conns : listener[k] \in {"failed", "done"} => net[k] # "up"
  BY DEF Heard
<1>1. CASE Dialled
  BY <1>1, <1>d, <1>s, Dials DEF StaysDown
<1>2. CASE Connected
  BY <1>2, <1>s, Shape DEF Connected, Conns
<1>3. ASSUME NEW k \in Conns, PollReceive(k) \/ Receive(k) \/ DecodeFails(k) \/ ListenerInterrupts(k)
      PROVE \A c \in Conns' : listener'[c] \in {"failed", "done"} => net'[c] # "up"
  BY <1>3, <1>s, Shape DEF PollReceive, Receive, DecodeFails, ListenerInterrupts, Conns
<1>4. CASE UNCHANGED listener /\ Conns' = Conns
  BY <1>4, <1>d, <1>s DEF StaysDown
<1>5. CASE PollClose
  <2>1. Conns' = Conns
    BY <1>5, Shape DEF PollClose, Conns
  <2> QED
    BY <1>5, <2>1, <1>4 DEF PollClose
<1>6. ASSUME NEW k \in Conns, Break(k)
      PROVE UNCHANGED listener /\ Conns' = Conns
  BY <1>6, Shape DEF Break, Conns
<1>7. CASE UNCHANGED conns
  BY <1>7, <1>4 DEF conns, Conns
<1>8. CASE PollFailed
  BY <1>8, <1>4 DEF PollFailed, Conns
<1> QED
  BY <1>1, <1>2, <1>3, <1>4, <1>5, <1>6, <1>7, <1>8
     DEF Next, EPoll, Listen, DialFails, PollSend, PollSendFails, Send, Disconnect, Terminate, vars, conns

LEMMA StepUnheard ==
  ASSUME Typed, Heard, [Next]_vars
  PROVE  poller' = "connect" => listener'[Current'] = "none"
<1>u. poller = "connect" => listener[Current] = "none"
  BY DEF Heard
<1>1. CASE Dialled
  BY <1>1, Dials DEF Current
<1>2. CASE UNCHANGED <<net, listener>> /\ (poller' = "connect" => poller = "connect")
  BY <1>2, <1>u DEF Current
<1>3. CASE Connected
  BY <1>3 DEF Connected
<1>4. CASE PollClose
  BY <1>4 DEF PollClose
<1>5. ASSUME NEW k \in Conns,
             PollReceive(k) \/ Break(k) \/ Receive(k) \/ DecodeFails(k) \/ ListenerInterrupts(k)
      PROVE poller' = "connect" => listener'[Current'] = "none"
  <2>1. poller' = poller /\ Current' = Current
    BY <1>5, Shape, NetChanges
       DEF PollReceive, Break, Receive, DecodeFails, ListenerInterrupts, Typed, States, Current
  <2>2. listener[Current] = "none" => listener'[Current] = "none"
    BY <1>5, Shape DEF PollReceive, Break, Receive, DecodeFails, ListenerInterrupts
  <2> QED
    BY <1>u, <2>1, <2>2
<1> QED
  BY <1>1, <1>2, <1>3, <1>4, <1>5
     DEF Next, EPoll, Listen, DialFails, PollFailed, PollSend, PollSendFails, Send, Disconnect,
         Terminate, vars, conns

LEMMA StepHeard ==
  ASSUME Typed, Heard, [Next]_vars
  PROVE  Heard'
<1>1. \/ UNCHANGED interrupts
      \/ interrupts # <<>> /\ interrupts' = Tail(interrupts)
      \/ \E e \in Events : Interrupt(e) /\ FailedIsDown(e)
  <2>1. CASE PollFailed \/ PollClose
    BY <2>1 DEF PollFailed, PollClose
  <2>2. CASE PollSendFails
    BY <2>2, Shape, AboutEvents DEF PollSendFails, FailedIsDown
  <2>3. ASSUME NEW k \in Conns, ListenerInterrupts(k)
        PROVE \E e \in Events : Interrupt(e) /\ FailedIsDown(e)
    BY <2>3, Shape, AboutEvents DEF ListenerInterrupts, FailedIsDown, Heard
  <2>4. CASE Terminate
    BY <2>4, AboutEvents DEF Terminate, FailedIsDown
  <2> QED
    BY <2>1, <2>2, <2>3, <2>4
       DEF Next, EPoll, Listen, Dialled, DialFails, Connected, PollSend, PollReceive, Break,
           Receive, DecodeFails, Send, Disconnect, vars
<1>2. \A i \in DOMAIN interrupts' :
        interrupts'[i].event = "failed" =>
          interrupts'[i].of \in Conns' /\ net'[interrupts'[i].of] # "up"
  BY <1>1, InterruptsHeard, NeverUpAgain
<1> QED
  BY <1>2, ListenersHeard, StepUnheard DEF Heard

LEMMA StepEndedRightly ==
  ASSUME Typed, Heard, EndedRightly, [Next]_vars
  PROVE  EndedRightly'
<1>d. StaysDown
  BY NeverUpAgain
<1>1. CASE Dialled
  <2>1. \A k \in Conns : endedBy'[k] <= k /\ (endedBy'[k] = k => net'[k] # "up")
    BY <1>1, Dials DEF EndedRightly
  <2> QED
    BY <1>1, <2>1, Dials, Shape DEF EndedRightly
<1>2. CASE PollFailed
  <2>1. /\ Head(interrupts).of \in Conns /\ net[Head(interrupts).of] # "up"
    BY <1>2, Shape, TakesEvent DEF PollFailed, Heard
  <2>2. endedBy' = [endedBy EXCEPT ![Current] = Head(interrupts).of] /\ net' = net
    BY <1>2 DEF PollFailed
  <2> QED
    BY <2>1, <2>2, Shape DEF EndedRightly, Conns
<1>3. CASE UNCHANGED endedBy /\ Conns' = Conns
  BY <1>3, <1>d DEF EndedRightly, StaysDown
<1>4. CASE PollClose \/ \E k \in Conns : Break(k)
  BY <1>4, <1>3, Shape DEF PollClose, Break, Conns
<1>5. CASE UNCHANGED <<net, endedBy>>
  BY <1>5, <1>3 DEF Conns
<1> QED
  BY <1>1, <1>2, <1>4, <1>5
     DEF Next, EPoll, Listen, DialFails, Connected, PollSend, PollSendFails, PollReceive, Receive,
         DecodeFails, ListenerInterrupts, Send, Disconnect, Terminate, vars, conns
-----------------------------------------------------------------------------
LEMMA Counts ==
  ASSUME Typed
  PROVE  /\ IsFiniteSet(Conns) /\ IsFiniteSet(Down) /\ IsFiniteSet(Done)
         /\ Cardinality(Down) \in Nat /\ Cardinality(Done) \in Nat
         /\ Len(net) \in Nat /\ Len(interrupts) \in Nat /\ breaks \in Nat /\ sends \in Nat
         /\ Owed \in {0, 1} /\ Writing \in {0, 1} /\ Told \in {0, 1}
<1>1. IsFiniteSet(Conns)
  BY Shape, FS_Interval
<1>2. Down \subseteq Conns /\ Done \subseteq Conns
  BY DEF Down, Done
<1>3. breaks \in Nat /\ sends \in Nat
  BY DEF Typed, RestFits
<1> QED
  BY <1>1, <1>2, <1>3, Shape, FS_Subset, FS_CardinalityType DEF Owed, Writing, Told

\* A listener that ended, ended on a connection that broke.
LEMMA DoneIsDown ==
  ASSUME Typed, Heard, Paid
  PROVE  Cardinality(Done) <= breaks
<1>1. Done \subseteq Down
  <2>1. \A k \in Conns : net[k] \in States
    BY DEF Typed, ConnsFit, Conns
  <2> QED
    BY <2>1 DEF Heard, Paid, Done, Down, States
<1>2. Cardinality(Done) <= Cardinality(Down)
  BY <1>1, Counts, FS_Subset
<1> QED
  BY <1>2, Counts DEF Paid

\* What waits for the order to close is in the queue.
LEMMA ToldIsQueued ==
  ASSUME Typed, Paid
  PROVE  Told <= Len(interrupts)
<1>1. CASE terminating = "done"
  BY <1>1, Shape, Counts DEF Paid, Told
<1>2. CASE terminating # "done"
  BY <1>2, Counts DEF Told
<1> QED
  BY <1>1, <1>2

LEMMA StepBounded ==
  ASSUME Typed, Heard, Budget, [Next]_vars
  PROVE  DialsAreBounded'
<1>1. CASE Dialled
  <2>1. Paid /\ Owed = 1
    BY <1>1 DEF Dialled, Budget, Owed
  <2>2. Len(net) + 1 <= 1 + breaks + sends
    BY <2>1, DoneIsDown, ToldIsQueued, Counts DEF Paid
  <2> QED
    BY <1>1, <2>2, Dials DEF DialsAreBounded, Dialled
<1>2. CASE /\ Len(net') = Len(net)
           /\ breaks' \in Nat /\ sends' \in Nat /\ breaks' >= breaks /\ sends' >= sends
  BY <1>2, Counts DEF Budget, DialsAreBounded
<1>3. CASE PollClose
  BY <1>3, <1>2, Shape, Counts, NetChanges DEF PollClose, Typed, States
<1>4. ASSUME NEW k \in Conns, Break(k)
      PROVE DialsAreBounded'
  BY <1>4, <1>2, Shape, Counts, NetChanges DEF Break, Typed, ConnsFit, States
<1>5. CASE UNCHANGED <<net, breaks, sends>>
  BY <1>5, <1>2, Counts
<1>6. CASE Send
  BY <1>6, <1>2, Counts DEF Send, conns
<1> QED
  BY <1>1, <1>3, <1>4, <1>5, <1>6
     DEF Next, EPoll, Listen, DialFails, Connected, PollFailed, PollSend, PollSendFails,
         PollReceive, Receive, DecodeFails, ListenerInterrupts, Disconnect, Terminate, vars, conns

LEMMA Shifts ==
  ASSUME NEW a \in Int, NEW b \in Int, NEW c \in Int, NEW d \in Int, NEW e \in Int,
         a - d <= b - e, b <= c + e
  PROVE  a <= c + d
OBVIOUS

\* A step that changes neither the connections nor what the budget counts, but in its favour.
LEMMA PaidStays ==
  ASSUME Typed, Paid, Conns' = Conns, \A k \in Conns : net'[k] = net[k], Done' = Done,
         Len(net') = Len(net), UNCHANGED <<breaks, terminating>>,
         Owed' \in {0, 1}, Writing' \in {0, 1}, sends' \in Nat, Len(interrupts') \in Nat,
         Len(net) + Owed' + Len(interrupts') + Writing' - sends'
           <= Len(net) + Owed + Len(interrupts) + Writing - sends,
         terminating = "done" => \E i \in DOMAIN interrupts' : interrupts'[i].event = "close"
  PROVE  Paid'
<1>1. Down' = Down
  BY DEF Down
<1>2. Told' = Told
  BY DEF Told
<1>3. Len(net) + Owed' + Len(interrupts') + Writing' <= 1 + Cardinality(Done) + sends' + Told
  <2>1. Len(net) + Owed + Len(interrupts) + Writing <= 1 + Cardinality(Done) + sends + Told
    BY DEF Paid
  <2>2. /\ Len(net) \in Int /\ Owed \in Int /\ Len(interrupts) \in Int /\ Writing \in Int
        /\ Cardinality(Done) \in Int /\ sends \in Int /\ Told \in Int
    BY ONLY Typed, Counts
  <2>3. /\ Owed' \in Int /\ Len(interrupts') \in Int /\ Writing' \in Int /\ sends' \in Int
    BY ONLY Owed' \in {0, 1}, Writing' \in {0, 1}, sends' \in Nat, Len(interrupts') \in Nat
  <2>4. Len(net) + Owed' + Len(interrupts') + Writing' - sends'
           <= Len(net) + Owed + Len(interrupts) + Writing - sends
    OBVIOUS
  <2> DEFINE a == Len(net) + Owed' + Len(interrupts') + Writing'
             b == Len(net) + Owed + Len(interrupts) + Writing
             c == 1 + Cardinality(Done) + Told
  <2>5. a \in Int /\ b \in Int /\ c \in Int
    BY ONLY <2>2, <2>3
  <2>7. b <= c + sends
    BY ONLY <2>1, <2>2
  <2>8. a - sends' <= b - sends
    BY ONLY <2>2, <2>3, <2>4
  <2>6. a <= c + sends'
    <3> HIDE DEF a, b, c
    <3> QED
      BY ONLY <2>2, <2>3, <2>5, <2>7, <2>8, Shifts
  <2> QED
    BY ONLY <2>2, <2>3, <2>6
<1> QED
  BY <1>1, <1>2, <1>3 DEF Paid

LEMMA StepPaid ==
  ASSUME Typed, Typed', Heard, Budget, [Next]_vars, poller' # "returned"
  PROVE  Paid'
<1>c. /\ Owed' \in {0, 1} /\ Writing' \in {0, 1} /\ sends' \in Nat /\ Len(interrupts') \in Nat
  BY DEF Typed, RestFits, QueueFits, Owed, Writing
<1>p. Paid
  <2>1. poller # "returned"
    BY DEF Next, EPoll, Listen, Dialled, DialFails, Connected, PollFailed, PollClose, PollSend,
           PollSendFails, PollReceive, Break, Receive, DecodeFails, ListenerInterrupts, Send,
           Disconnect, Terminate, vars
  <2> QED
    BY <2>1 DEF Budget
<1>q. terminating = "done" => \E i \in DOMAIN interrupts : interrupts[i].event = "close"
  BY <1>p DEF Paid
<1>1. CASE Dialled
  <2>1. Down' = Down /\ Done' = Done
    BY <1>1, Dials DEF Down, Done
  <2>2. Owed = 1 /\ Owed' = 0 /\ Told' = Told /\ Writing' = Writing
    BY <1>1 DEF Dialled, Owed, Told, Writing
  <2>3. UNCHANGED <<interrupts, breaks, sends, terminating>>
    BY <1>1 DEF Dialled
  <2>4. \A k \in Conns' : net'[k] # "closed"
    BY <1>1, <1>p, Dials DEF Paid
  <2>5. Len(net') + Owed' + Len(interrupts') + Writing' <= 1 + Cardinality(Done') + sends' + Told'
    BY <1>1, <1>p, <2>1, <2>2, <2>3, Dials, Counts DEF Paid
  <2> QED
    BY <1>q, <1>p, <2>1, <2>3, <2>4, <2>5 DEF Paid
<1>2. CASE UNCHANGED <<net, listener, interrupts, breaks, sends, terminating>>
           /\ Owed' <= Owed /\ Writing' <= Writing
  BY <1>p, <1>c, <1>q, <1>2, Counts, PaidStays DEF Done, Conns
<1>3. CASE DialFails \/ PollSend \/ UNCHANGED vars
  BY <1>2, <1>3, Counts, SMTT(30) DEF DialFails, PollSend, vars, conns, Owed, Writing
<1>4. CASE Connected
  <2>1. /\ UNCHANGED <<net, interrupts, breaks, sends, terminating>>
        /\ Owed' <= Owed /\ Writing' = Writing
    BY <1>4 DEF Connected, Owed, Writing
  <2>2. Done' = Done
    <3>1. listener[Current] # "done" /\ Current \in Conns
      BY <1>4, Shape DEF Connected, Heard
    <3>2. Conns' = Conns
      BY <1>4 DEF Connected, Conns
    <3>3. \A k \in Conns : listener'[k] = "done" <=> listener[k] = "done"
      BY <1>4, <3>1, Shape DEF Connected
    <3> QED
      BY <3>2, <3>3 DEF Done
  <2> QED
    BY <1>p, <1>c, <1>q, <2>1, <2>2, Counts, PaidStays DEF Conns
<1>5. CASE PollFailed
  <2>1. /\ interrupts # <<>> /\ interrupts' = Tail(interrupts) /\ Head(interrupts).event = "failed"
        /\ UNCHANGED <<net, listener, breaks, sends, terminating, sending>>
        /\ poller = "poll"
    BY <1>5 DEF PollFailed, conns
  <2>2. Len(interrupts') = Len(interrupts) - 1
    BY <2>1, Shape, TakesEvent
  <2>3. terminating = "done" => \E i \in DOMAIN interrupts' : interrupts'[i].event = "close"
    <3> SUFFICES ASSUME terminating = "done"
                 PROVE  \E i \in DOMAIN interrupts' : interrupts'[i].event = "close"
      OBVIOUS
    <3>1. PICK i \in DOMAIN interrupts : interrupts[i].event = "close"
      BY <1>q
    <3>2. i # 1
      BY <2>1, <3>1, Shape, TakesEvent
    <3>3. i - 1 \in DOMAIN Tail(interrupts) /\ Tail(interrupts)[i - 1] = interrupts[i]
      BY <2>1, <3>1, <3>2, Shape
    <3> QED
      BY <2>1, <3>1, <3>3
  <2>4. Owed = 0 /\ Writing' = Writing
    BY <2>1 DEF Owed, Writing
  <2>5. Done' = Done /\ Conns' = Conns
    BY <2>1 DEF Done, Conns
  <2>6. Len(net) + Owed' + Len(interrupts') + Writing' - sends'
          <= Len(net) + Owed + Len(interrupts) + Writing - sends
    BY <1>c, <2>1, <2>2, <2>4, Counts
  <2> QED
    BY <1>p, <1>c, <2>1, <2>3, <2>5, <2>6, PaidStays
<1>6. CASE PollSendFails
  <2>1. /\ UNCHANGED <<net, listener, breaks, sends, terminating>>
        /\ sending /\ ~sending' /\ poller = "poll" /\ poller' \in {"poll", "jammed"}
        /\ interrupts' = interrupts \/ Interrupt(functionFailed(Current))
    BY <1>6 DEF PollSendFails, conns
  <2>2. Writing = 1 /\ Writing' = 0 /\ Owed = 0 /\ Owed' = 0
    BY <2>1 DEF Writing, Owed
  <2>3. Len(interrupts') <= Len(interrupts) + 1
    BY <1>c, <2>1, Shape, Counts, AddsEvent, AboutEvents DEF Interrupt
  <2>4. terminating = "done" => \E i \in DOMAIN interrupts' : interrupts'[i].event = "close"
    BY <1>q, <2>1, Shape, AboutEvents, AppendKeeps DEF Interrupt
  <2>5. Done' = Done /\ Conns' = Conns
    BY <2>1 DEF Done, Conns
  <2>6. Len(net) + Owed' + Len(interrupts') + Writing' - sends'
          <= Len(net) + Owed + Len(interrupts) + Writing - sends
    BY <1>c, <2>1, <2>2, <2>3, Counts
  <2> QED
    BY <1>p, <1>c, <2>1, <2>4, <2>5, <2>6, PaidStays
<1>7. ASSUME NEW k \in Conns, PollReceive(k) \/ Receive(k) \/ DecodeFails(k)
      PROVE Paid'
  <2>1. /\ UNCHANGED <<net, interrupts, breaks, sends, terminating, poller>>
        /\ Writing' = Writing /\ Owed' = Owed
    BY <1>7 DEF PollReceive, Receive, DecodeFails, flags, Writing, Owed
  <2>2. PICK to \in {"decode", "in", "failed"} : listener' = [listener EXCEPT ![k] = to]
    BY <1>7 DEF PollReceive, Receive, DecodeFails
  <2>3. listener[k] # "done" /\ Conns' = Conns
    BY <1>7, <2>1 DEF PollReceive, Receive, DecodeFails, Conns
  <2>4. \A c \in Conns : listener'[c] = "done" <=> listener[c] = "done"
    BY <2>2, <2>3, Shape
  <2> QED
    BY <1>p, <1>c, <1>q, <2>1, <2>3, <2>4, Counts, PaidStays DEF Done
<1>8. ASSUME NEW k \in Conns, Break(k)
      PROVE Paid'
  <2>1. /\ UNCHANGED <<listener, interrupts, sends, terminating, poller, sending>>
        /\ net[k] = "up" /\ net' = [net EXCEPT ![k] = "down"] /\ breaks' = breaks + 1
    BY <1>8 DEF Break, flags
  <2>2. Conns' = Conns /\ Len(net') = Len(net)
    BY <2>1, Shape, NetChanges DEF Conns, Typed, ConnsFit, States
  <2>3. \A c \in Conns : net'[c] = IF c = k THEN "down" ELSE net[c]
    BY <2>1, Shape
  <2>4. Down' = Down \cup {k} /\ k \notin Down /\ Done' = Done
    BY <2>1, <2>2, <2>3 DEF Down, Done
  <2>5. Cardinality(Down') = Cardinality(Down) + 1
    BY <2>4, Counts, FS_AddElement
  <2>6. \A c \in Conns : net'[c] # "closed"
    BY <1>p, <2>3 DEF Paid
  <2>7. Cardinality(Down') <= breaks'
    BY <1>p, <2>1, <2>5, Counts DEF Paid
  <2>8. UNCHANGED <<Owed, Writing, Told, Done>>
    BY <2>1, <2>4 DEF Owed, Writing, Told
  <2> QED
    BY <1>p, <2>1, <2>2, <2>6, <2>7, <2>8 DEF Paid
<1>9. ASSUME NEW k \in Conns, ListenerInterrupts(k)
      PROVE Paid'
  <2>1. /\ UNCHANGED <<net, sends, breaks, terminating, poller, sending>>
        /\ listener[k] = "failed" /\ listener' = [listener EXCEPT ![k] = "done"]
        /\ Interrupt(functionFailed(k))
    BY <1>9 DEF ListenerInterrupts, flags
  <2>2. Conns' = Conns /\ Down' = Down
    BY <2>1 DEF Conns, Down
  <2>3. \A c \in Conns : listener'[c] = IF c = k THEN "done" ELSE listener[c]
    BY <2>1, Shape
  <2>4. Done' = Done \cup {k} /\ k \notin Done
    BY <2>1, <2>2, <2>3 DEF Done
  <2>5. Cardinality(Done') = Cardinality(Done) + 1
    BY <2>4, Counts, FS_AddElement
  <2>6. Len(interrupts') = Len(interrupts) + 1
    BY <2>1, Shape, AddsEvent, AboutEvents DEF Interrupt
  <2>7. terminating' = "done" => \E i \in DOMAIN interrupts' : interrupts'[i].event = "close"
    BY <1>q, <2>1, Shape, AboutEvents, AppendKeeps DEF Interrupt
  <2>8. UNCHANGED <<Owed, Writing, Told>>
    BY <2>1 DEF Owed, Writing, Told
  <2>9. Len(net) + Owed + Len(interrupts') + Writing <= 1 + Cardinality(Done') + sends + Told
    BY <1>p, <2>5, <2>6, Counts, SMTT(30) DEF Paid
  <2> QED
    BY <1>p, <2>1, <2>2, <2>7, <2>8, <2>9 DEF Paid
<1>10. CASE Send
  <2>1. /\ UNCHANGED <<net, listener, interrupts, breaks, terminating, poller>>
        /\ ~sending /\ sending' = TRUE /\ sends' = sends + 1
    BY <1>10 DEF Send, conns, flags
  <2>2. Writing = 0 /\ Writing' = 1 /\ Owed' = Owed
    BY <2>1 DEF Writing, Owed
  <2>3. Done' = Done /\ Conns' = Conns
    BY <2>1 DEF Done, Conns
  <2>4. Len(net) + Owed' + Len(interrupts') + Writing' - sends'
          <= Len(net) + Owed + Len(interrupts) + Writing - sends
    BY <2>1, <2>2, Counts
  <2> QED
    BY <1>p, <1>c, <1>q, <2>1, <2>3, <2>4, PaidStays
<1>11. CASE Disconnect
  <2>1. /\ UNCHANGED <<net, listener, interrupts, breaks, sends, poller, sending>>
        /\ terminating = "no" /\ terminating' = "waits"
    BY <1>11 DEF Disconnect, conns, flags
  <2>2. UNCHANGED <<Owed, Writing, Told, Done, Down, Conns>>
    BY <2>1 DEF Owed, Writing, Told, Done, Down, Conns
  <2> QED
    BY <1>p, <2>1, <2>2 DEF Paid
<1>12. CASE Terminate
  <2>1. /\ UNCHANGED <<net, listener, breaks, sends, poller, sending>>
        /\ terminating = "waits" /\ terminating' = "done" /\ Interrupt(forceClose)
    BY <1>12 DEF Terminate, conns, flags
  <2>2. UNCHANGED <<Owed, Writing, Done, Down, Conns>> /\ Told = 0 /\ Told' = 1
    BY <2>1 DEF Owed, Writing, Told, Done, Down, Conns
  <2>3. /\ Len(interrupts') = Len(interrupts) + 1
        /\ interrupts'[Len(interrupts) + 1].event = "close"
        /\ Len(interrupts) + 1 \in DOMAIN interrupts'
    BY <2>1, Shape, AboutEvents DEF Interrupt
  <2>4. Len(net) + Owed + Len(interrupts') + Writing <= 1 + Cardinality(Done) + sends + Told'
    BY <1>p, <2>2, <2>3, Counts DEF Paid
  <2> QED
    BY <1>p, <2>1, <2>2, <2>3, <2>4 DEF Paid
<1>13. CASE PollClose
  BY <1>13 DEF PollClose
<1> QED
  BY <1>1, <1>3, <1>4, <1>5, <1>6, <1>7, <1>8, <1>9, <1>10, <1>11, <1>12, <1>13
     DEF Next, EPoll, Listen

LEMMA InitInv == Init => Heard /\ EndedRightly /\ Budget
<1> SUFFICES ASSUME Init PROVE Heard /\ EndedRightly /\ Budget
  OBVIOUS
<1>1. /\ Conns = {} /\ DOMAIN interrupts = {} /\ Len(net) = 0 /\ Len(interrupts) = 0
      /\ breaks = 0 /\ sends = 0
  BY Empty DEF Init, Conns
<1>2. Owed = 1 /\ Writing = 0 /\ Told = 0 /\ poller = "first" /\ terminating = "no"
  BY DEF Init, Owed, Writing, Told
<1>3. Cardinality(Down) = 0 /\ Cardinality(Done) = 0
  BY <1>1, FS_EmptySet DEF Down, Done
<1>4. Heard /\ EndedRightly
  BY <1>1, <1>2 DEF Heard, EndedRightly
<1>5. Paid
  BY <1>1, <1>2, <1>3 DEF Paid
<1> QED
  BY <1>1, <1>4, <1>5 DEF Budget, DialsAreBounded

LEMMA InvHolds == Spec => []Inv
<1>1. Init => Inv
  BY InitTyped, InitInv DEF Inv
<1>2. Inv /\ [Next]_vars => Inv'
  BY StepTyped, StepHeard, StepEndedRightly, StepBounded, StepPaid DEF Inv, Budget
<1> QED
  BY <1>1, <1>2, PTL DEF Spec

\* A connection is given up while it is up only for what happened on an earlier one: what
\* EPoll leaves in the interrupt queue is read by the EPoll of the next connection.
THEOREM GivenUp == Spec => []GivenUpForEarlier
<1>1. Inv => GivenUpForEarlier
  <2> SUFFICES ASSUME Inv, NEW k \in Conns, endedBy[k] # 0, net[k] = "up"
               PROVE  endedBy[k] < k
    BY DEF GivenUpForEarlier
  <2>1. endedBy[k] \in Nat /\ k \in Nat
    BY DEF Inv, Typed, ConnsFit, Conns
  <2> QED
    BY <2>1 DEF Inv, EndedRightly
<1> QED
  BY <1>1, InvHolds, PTL

\* The client dials at most once for each connection that broke and each message it sent: no
\* interrupt makes it dial twice, though interrupts outlive their connections.
THEOREM Bounded == Spec => []DialsAreBounded
<1>1. Inv => DialsAreBounded
  BY DEF Inv, Budget
<1> QED
  BY <1>1, InvHolds, PTL
=============================================================================
