------------------------------- MODULE Client -------------------------------
(***************************************************************************)
(* The connection of a worker to the core: json_socket.Client dials, polls *)
(* one Connection and dials again when it ends, a goroutine listens on     *)
(* each network connection that was made, the socket thread sends, and the *)
(* main goroutine disconnects.  The interrupt queue and the queue of       *)
(* messages belong to the Connection, which outlives its connections.      *)
(***************************************************************************)
EXTENDS Integers, Sequences

CONSTANTS
  Room,       \* connectionEventBufferRoom (2 in the code)
  MaxBreaks,  \* bound: how often the network or the core breaks a connection
  MaxSends    \* bound: messages the socket thread sends

ASSUME ClientAssumption == Room \in Nat \ {0} /\ MaxBreaks \in Nat /\ MaxSends \in Nat

VARIABLES
  net,         \* the connections made, oldest first: "up", "down", or "closed" by the client
  listener,    \* where the goroutine that listens on each of them is
  endedBy,     \* the connection whose interrupt ended the polling of each, 0 if none has
  poller,      \* where the goroutine that dials and polls is
  connected,   \* the flags of the Connection
  attemptReconnect,
  interrupts,  \* the interrupt queue: what happened, and on which connection
  sending,     \* whether the socket thread is in Send
  terminating, \* where the main goroutine is: "no", "waits" for room in the queue, "done"
  breaks, sends

conns == <<net, listener, endedBy>>
flags == <<connected, attemptReconnect>>
vars  == <<conns, poller, flags, interrupts, sending, terminating, breaks, sends>>

Conns   == DOMAIN net
Current == Len(net)

functionFailed(k) == [event |-> "failed", of |-> k]
forceClose        == [event |-> "close", of |-> 0]

Init ==
  /\ net = <<>> /\ listener = <<>> /\ endedBy = <<>>
  /\ poller = "first"
  /\ connected = FALSE /\ attemptReconnect = TRUE
  /\ interrupts = <<>>
  /\ sending = FALSE /\ terminating = "no" /\ breaks = 0 /\ sends = 0

HasRoom == Len(interrupts) < Room
Interrupt(event) == interrupts' = Append(interrupts, event)
-----------------------------------------------------------------------------
(* The goroutine that dials and polls. *)

\* SetNetConn, and OnConnectEvent, which may wait for the provisioner.
Dialled ==
  /\ poller \in {"first", "redial"} /\ poller' = "connect"
  /\ net' = Append(net, "up")
  /\ listener' = Append(listener, "none") /\ endedBy' = Append(endedBy, 0)
  /\ connected' = TRUE
  /\ UNCHANGED <<attemptReconnect, interrupts, sending, terminating, breaks, sends>>

\* The first time Connect gives up after MaxNumberOfRetries.
DialFails ==
  /\ poller = "first" /\ poller' = "failed"
  /\ UNCHANGED <<conns, flags, interrupts, sending, terminating, breaks, sends>>

\* Mutant: nobody listens on the connection.
ConnectedUnheard ==
  /\ poller = "connect" /\ poller' = "poll"
  /\ UNCHANGED <<conns, flags, interrupts, sending, terminating, breaks, sends>>

Connected ==
  /\ poller = "connect" /\ poller' = "poll"
  /\ listener' = [listener EXCEPT ![Current] = "decode"]
  /\ UNCHANGED <<net, endedBy, flags, interrupts, sending, terminating, breaks, sends>>

\* Mutant: the interrupt stays in the queue.
PollFailedAgain ==
  /\ poller = "poll" /\ interrupts # <<>> /\ Head(interrupts).event = "failed"
  /\ poller' = IF attemptReconnect THEN "redial" ELSE "returned"
  /\ connected' = FALSE
  /\ UNCHANGED <<conns, attemptReconnect, interrupts, sending, terminating, breaks, sends>>

\* EPoll takes an interrupt, whichever connection it is about, and ends.  Only when it is told
\* to close the connection does it close it.
PollFailed ==
  /\ poller = "poll" /\ interrupts # <<>> /\ Head(interrupts).event = "failed"
  /\ endedBy' = [endedBy EXCEPT ![Current] = Head(interrupts).of]
  /\ interrupts' = Tail(interrupts)
  /\ poller' = IF attemptReconnect THEN "redial" ELSE "returned"
  /\ connected' = FALSE
  /\ UNCHANGED <<net, listener, attemptReconnect, sending, terminating, breaks, sends>>

\* Mutant: the flag is left as it was.
PollCloseReconnects ==
  /\ poller = "poll" /\ interrupts # <<>> /\ Head(interrupts).event = "close"
  /\ net' = [net EXCEPT ![Current] = "closed"]
  /\ interrupts' = Tail(interrupts)
  /\ poller' = "redial" /\ connected' = FALSE
  /\ UNCHANGED <<listener, endedBy, attemptReconnect, sending, terminating, breaks, sends>>

PollClose ==
  /\ poller = "poll" /\ interrupts # <<>> /\ Head(interrupts).event = "close"
  /\ net' = [net EXCEPT ![Current] = "closed"]
  /\ interrupts' = Tail(interrupts)
  /\ poller' = "returned"
  /\ connected' = FALSE /\ attemptReconnect' = FALSE
  /\ UNCHANGED <<listener, endedBy, sending, terminating, breaks, sends>>

\* Mutant: EPoll writes only when it has nothing to read.
PollSendIdle ==
  /\ poller = "poll" /\ sending /\ sending' = FALSE
  /\ \A k \in Conns : listener[k] # "in"
  /\ UNCHANGED <<conns, poller, flags, interrupts, terminating, breaks, sends>>

\* EPoll takes the message Send offers.  On a connection that is down it may find out when it
\* writes; it then interrupts itself, and is jammed if the queue has no room.
PollSend ==
  /\ poller = "poll" /\ sending /\ sending' = FALSE
  /\ UNCHANGED <<conns, poller, flags, interrupts, terminating, breaks, sends>>

PollSendFails ==
  /\ poller = "poll" /\ sending /\ sending' = FALSE /\ net[Current] # "up"
  /\ \/ HasRoom /\ Interrupt(functionFailed(Current)) /\ UNCHANGED poller
     \/ ~HasRoom /\ poller' = "jammed" /\ UNCHANGED interrupts
  /\ UNCHANGED <<conns, flags, terminating, breaks, sends>>

\* EPoll takes a message a listening goroutine offers, of whichever connection.
PollReceive(k) ==
  /\ poller = "poll" /\ listener[k] = "in"
  /\ listener' = [listener EXCEPT ![k] = "decode"]
  /\ UNCHANGED <<net, endedBy, poller, flags, interrupts, sending, terminating, breaks, sends>>
-----------------------------------------------------------------------------
(* The network and the listening goroutines. *)

Break(k) ==
  /\ net[k] = "up" /\ breaks < MaxBreaks
  /\ net' = [net EXCEPT ![k] = "down"]
  /\ breaks' = breaks + 1
  /\ UNCHANGED <<listener, endedBy, poller, flags, interrupts, sending, terminating, sends>>

Receive(k) ==
  /\ listener[k] = "decode" /\ net[k] = "up"
  /\ listener' = [listener EXCEPT ![k] = "in"]
  /\ UNCHANGED <<net, endedBy, poller, flags, interrupts, sending, terminating, breaks, sends>>

\* Mutant: a connection that is idle is taken for one that is down.
DecodeTimesOut(k) ==
  /\ listener[k] = "decode"
  /\ listener' = [listener EXCEPT ![k] = "failed"]
  /\ UNCHANGED <<net, endedBy, poller, flags, interrupts, sending, terminating, breaks, sends>>

DecodeFails(k) ==
  /\ listener[k] = "decode" /\ net[k] # "up"
  /\ listener' = [listener EXCEPT ![k] = "failed"]
  /\ UNCHANGED <<net, endedBy, poller, flags, interrupts, sending, terminating, breaks, sends>>

ListenerInterrupts(k) ==
  /\ listener[k] = "failed" /\ HasRoom
  /\ Interrupt(functionFailed(k))
  /\ listener' = [listener EXCEPT ![k] = "done"]
  /\ UNCHANGED <<net, endedBy, poller, flags, sending, terminating, breaks, sends>>

Listen(k) == PollReceive(k) \/ Break(k) \/ Receive(k) \/ DecodeFails(k) \/ ListenerInterrupts(k)
-----------------------------------------------------------------------------
(* The socket thread and the main goroutine. *)

\* handleRequest drops the message when IsConnected says no, and is in Send otherwise.
Send ==
  /\ ~sending /\ sends < MaxSends
  /\ connected
  /\ sending' = TRUE /\ sends' = sends + 1
  /\ UNCHANGED <<conns, poller, flags, interrupts, terminating, breaks>>

Disconnect ==
  /\ terminating = "no" /\ terminating' = "waits"
  /\ UNCHANGED <<conns, poller, flags, interrupts, sending, breaks, sends>>

Terminate ==
  /\ terminating = "waits" /\ HasRoom /\ terminating' = "done"
  /\ Interrupt(forceClose)
  /\ UNCHANGED <<conns, poller, flags, sending, breaks, sends>>
-----------------------------------------------------------------------------
EPoll == PollFailed \/ PollClose \/ PollSend \/ PollSendFails

Next ==
  \/ Dialled \/ DialFails \/ Connected \/ EPoll
  \/ \E k \in Conns : Listen(k)
  \/ Send \/ Disconnect \/ Terminate

Spec == Init /\ [][Next]_vars

\* Connections broken, and messages that could not be written, make interrupts.
MaxConns == 1 + MaxBreaks + MaxSends

\* Goroutines are scheduled, EPoll's select takes each of its cases in the end, and the core can
\* be reached again.  Nothing makes the core send, a connection break or the worker stop.
Fairness ==
  /\ WF_vars(Dialled \/ Connected)
  /\ WF_vars(PollFailed \/ PollClose) /\ WF_vars(PollSend \/ PollSendFails)
  /\ \A k \in 1..MaxConns :
       /\ WF_vars(k \in Conns /\ (DecodeFails(k) \/ ListenerInterrupts(k)))
       /\ WF_vars(k \in Conns /\ PollReceive(k))
  /\ WF_vars(Terminate)

FairSpec == Spec /\ Fairness
-----------------------------------------------------------------------------
\* Every variable has its type.
TypeOK ==
  /\ net \in Seq({"up", "down", "closed"})
  /\ listener \in [Conns -> {"none", "decode", "in", "failed", "done"}]
  /\ endedBy \in [Conns -> Nat]
  /\ poller \in {"first", "failed", "connect", "poll", "redial", "jammed", "returned"}
  /\ connected \in BOOLEAN /\ attemptReconnect \in BOOLEAN
  /\ interrupts \in Seq([event : {"failed", "close"}, of : Nat]) /\ Len(interrupts) <= Room
  /\ sending \in BOOLEAN /\ terminating \in {"no", "waits", "done"}
  /\ breaks \in 0..MaxBreaks /\ sends \in 0..MaxSends

\* A connection is given up while it is up only for what happened on an earlier one: what a
\* broken connection leaves in the interrupt queue.  It is then never closed.
GivenUpForEarlier ==
  \A k \in Conns : endedBy[k] # 0 /\ net[k] = "up" => endedBy[k] < k

\* However many interrupts outlive their connection, the client dials at most once for each
\* connection that broke and for each message it tried to send.
DialsAreBounded == Len(net) <= 1 + breaks + sends

Jammed == poller = "jammed"

\* A connection that is down while it is polled is replaced by one that is up, as long as the
\* network stays up, unless EPoll waits for itself or the client is closing.
Reconnects ==
  (poller = "poll" /\ net[Current] = "down")
    ~> ((poller = "poll" /\ net[Current] = "up") \/ Jammed \/ poller = "returned")

\* Terminate finds room in the queue and the event loop ends, also when it comes while the
\* client dials again.
ClosesWhenTold ==
  (terminating = "waits") ~> (poller \in {"returned", "failed"} \/ Jammed)

\* Send returns once the message is taken by whichever connection is polled next.
SendReturns ==
  sending ~> (~sending \/ Jammed \/ poller = "returned")
=============================================================================
