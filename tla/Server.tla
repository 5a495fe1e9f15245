------------------------------- MODULE Server -------------------------------
(***************************************************************************)
(* The connections of workers to the core: json_socket.Server accepts      *)
(* them, ConnectionRegister gives them identifiers from a ring buffer,     *)
(* one goroutine per connection polls its Connection while another listens *)
(* on the network, and the socket thread of the core sends on them.  The   *)
(* processor thread is here as far as it lists the connected workers.      *)
(***************************************************************************)
EXTENDS Ring, SequencesExt

CONSTANTS
  Conns,       \* the network connections that are ever made
  Nobody,      \* no connection
  MaxClients,  \* MaximumNumOfClientsOnServer (100 in the code)
  Cap,         \* room of the channels between threads (10 in the code)
  MaxSends     \* bound: messages the runner asks the socket thread to send

ASSUME ServerAssumption ==
  /\ Nobody \notin Conns
  /\ MaxClients \in Nat \ {0} /\ Cap \in Nat \ {0} /\ MaxSends \in Nat

VARIABLES
  pool,        \* the register's identifiers that are free
  clients,     \* the register's map from identifiers to connections
  number,      \* the register's count of connections
  handler,     \* where the goroutine of each connection is
  id,          \* the identifier each connection was given, 0 before
  interrupts,  \* how many events wait in the interrupt queue of each connection
  listener,    \* where the listening goroutine of each connection is
  open,        \* whether the network connection carries data
  c7, c8,      \* requests to the processor thread, and its responses
  answers,     \* the response table, as far as what it holds matters to who waits
  reply,       \* the response the processor thread is about to send, if any
  processors,  \* the processor table: the connections listed as workers
  hosting,     \* identifiers that have ever registered a module
  c9, sends,   \* identifiers the runner wants a message sent to, and how many it ever named
  target       \* the connection the socket thread is sending on, or Nobody

register == <<pool, clients, number, id>>
links    == <<interrupts, listener, open>>
threads  == <<c7, c8, answers, reply, processors, hosting>>
sending  == <<c9, sends, target>>
vars     == <<register, handler, links, threads, sending>>

Ids  == 1..MaxClients
Room == 2

Ops     == {"create", "module", "delete"}
Request == [op : Ops, conn : Conns]
Answer  == [op : Ops, conn : Conns, ok : BOOLEAN]
NoReply == [op |-> "none"]

Init ==
  /\ pool = NewRingBuffer([i \in 0..(MaxClients - 1) |-> i + 1], MaxClients, MaxClients - 1)
  /\ clients = [i \in Ids |-> Nobody]
  /\ number = 0
  /\ handler = [c \in Conns |-> "new"]
  /\ id = [c \in Conns |-> 0]
  /\ interrupts = [c \in Conns |-> 0]
  /\ listener = [c \in Conns |-> "none"]
  /\ open = [c \in Conns |-> TRUE]
  /\ c7 = <<>> /\ c8 = <<>> /\ answers = {} /\ reply = NoReply
  /\ processors = <<>> /\ hosting = {}
  /\ c9 = <<>> /\ sends = 0 /\ target = Nobody

Moves(c, from, to) == handler[c] = from /\ handler' = [handler EXCEPT ![c] = to]

\* A blocking send of a request to the processor thread.
Asks(c, op) == Len(c7) < Cap /\ c7' = Append(c7, [op |-> op, conn |-> c])
-----------------------------------------------------------------------------
(* The goroutine of a connection. *)

\* Mutant: an identifier is handed out without a look at the map.
NeverFound(i) == FALSE
Found(i) == clients[i] # Nobody

\* Listen has accepted the connection: RegisterConnection.  The number counts the connection before the map is looked at.
Registered(c) ==
  /\ number < MaxClients /\ ~NoData(pool)
  /\ pool' = Removed(pool)
  /\ number' = number + 1
  /\ LET i == Oldest(pool) IN
       IF Found(i)
         THEN Moves(c, "new", "refused") /\ UNCHANGED <<clients, id>>
         ELSE /\ Moves(c, "new", "connect")
              /\ clients' = [clients EXCEPT ![i] = c]
              /\ id' = [id EXCEPT ![c] = i]

Full(c) ==
  /\ number >= MaxClients \/ NoData(pool)
  /\ Moves(c, "new", "refused")
  /\ UNCHANGED register

Register(c) ==
  /\ Registered(c) \/ Full(c)
  /\ open' = [open EXCEPT ![c] = handler'[c] = "connect"]
  /\ UNCHANGED <<interrupts, listener, threads, sending>>

\* OnClientConnectEvent asks the processor thread to list the worker...
Connect(c) ==
  /\ Moves(c, "connect", "connecting")
  /\ Asks(c, "create")
  /\ UNCHANGED <<register, links, c8, answers, reply, processors, hosting, sending>>

\* Mutant: nobody listens on the connection.
AcceptedUnheard(c) ==
  /\ [op |-> "create", conn |-> c, ok |-> TRUE] \in answers
  /\ Moves(c, "connecting", "poll")
  /\ UNCHANGED <<listener, open>>

\* ...and waits for the answer until a timeout.
Accepted(c) ==
  /\ [op |-> "create", conn |-> c, ok |-> TRUE] \in answers
  /\ Moves(c, "connecting", "poll")
  /\ listener' = [listener EXCEPT ![c] = "decode"]
  /\ UNCHANGED open

\* Refused or out of time: the connection is closed, and stays registered.
Rejected(c) ==
  /\ Moves(c, "connecting", "rejected")
  /\ open' = [open EXCEPT ![c] = FALSE]
  /\ UNCHANGED listener

ConnectReturns(c) ==
  /\ Accepted(c) \/ Rejected(c)
  /\ UNCHANGED <<register, interrupts, threads, sending>>

\* EPoll takes an interrupt and ends.
PollInterrupt(c) ==
  /\ interrupts[c] > 0
  /\ Moves(c, "poll", "disconnect")
  /\ interrupts' = [interrupts EXCEPT ![c] = @ - 1]
  /\ UNCHANGED <<register, listener, open, threads, sending>>

\* EPoll takes the message that Send offers.  When it cannot be written EPoll interrupts
\* itself, and is jammed if the interrupt queue has no room.
Encodes(c) ==
  /\ handler[c] = "poll"
  /\ UNCHANGED <<handler, interrupts>>

EncodeFails(c) ==
  /\ ~open[c]
  /\ IF interrupts[c] < Room
       THEN /\ handler[c] = "poll"
            /\ interrupts' = [interrupts EXCEPT ![c] = @ + 1]
            /\ UNCHANGED handler
       ELSE Moves(c, "poll", "jammed") /\ UNCHANGED interrupts

PollSend(c) ==
  /\ target = c
  /\ Encodes(c) \/ EncodeFails(c)
  /\ target' = Nobody
  /\ UNCHANGED <<register, listener, open, threads, c9, sends>>

\* EPoll takes the message the listener offers: a module to register, or one it ignores.
PollReceive(c) ==
  /\ listener[c] = "in"
  /\ \E next \in {"message", "poll"} : Moves(c, "poll", next)
  /\ listener' = [listener EXCEPT ![c] = "decode"]
  /\ UNCHANGED <<register, interrupts, open, threads, sending>>

\* Mutant: the goroutine waits for the socket thread, as it does in the other two events.
OnMessageInTurn(c) ==
  /\ target # c
  /\ Moves(c, "message", "poll")
  /\ Asks(c, "module")
  /\ UNCHANGED <<register, links, c8, answers, reply, processors, hosting, sending>>

\* OnMessageEvent.
OnMessage(c) ==
  /\ Moves(c, "message", "poll")
  /\ Asks(c, "module")
  /\ UNCHANGED <<register, links, c8, answers, reply, processors, hosting, sending>>

\* OnClientDisconnectEvent asks for the worker to be dropped and waits, until a timeout.
Disconnect(c) ==
  /\ Moves(c, "disconnect", "disconnecting")
  /\ Asks(c, "delete")
  /\ UNCHANGED <<register, links, c8, answers, reply, processors, hosting, sending>>

\* Mutant: the identifier is not given back.
Forgotten(i) == pool
Returned(i) == Added(pool, i)

\* Answered or not, the handler closes the connection and calls ReleaseConnection, which
\* releases nothing when the pool has no room for the identifier.
Release(c) ==
  /\ Moves(c, "disconnecting", "done")
  /\ open' = [open EXCEPT ![c] = FALSE]
  /\ \/ OutOfRoom(pool) /\ UNCHANGED <<pool, clients, number>>
     \/ /\ ~OutOfRoom(pool)
        /\ pool' = Returned(id[c])
        /\ number' = number - 1
        /\ clients' = [clients EXCEPT ![id[c]] = Nobody]
  /\ UNCHANGED <<id, interrupts, listener, threads, sending>>
-----------------------------------------------------------------------------
(* The network and the listening goroutine. *)

WorkerDrops(c) ==
  /\ open[c] /\ handler[c] # "new"
  /\ open' = [open EXCEPT ![c] = FALSE]
  /\ UNCHANGED <<register, handler, interrupts, listener, threads, sending>>

Receive(c) ==
  /\ listener[c] = "decode" /\ open[c]
  /\ listener' = [listener EXCEPT ![c] = "in"]
  /\ UNCHANGED <<register, handler, interrupts, open, threads, sending>>

\* The connection is closed, or what came is not a message.
DecodeFails(c) ==
  /\ listener[c] = "decode"
  /\ listener' = [listener EXCEPT ![c] = "failed"]
  /\ UNCHANGED <<register, handler, interrupts, open, threads, sending>>

ListenerInterrupts(c) ==
  /\ listener[c] = "failed" /\ interrupts[c] < Room
  /\ interrupts' = [interrupts EXCEPT ![c] = @ + 1]
  /\ listener' = [listener EXCEPT ![c] = "done"]
  /\ UNCHANGED <<register, handler, open, threads, sending>>
-----------------------------------------------------------------------------
(* The threads of the core. *)

\* The places of the table where the worker of a connection, or another of its identifier, is.
Listed(c) == {k \in DOMAIN processors : processors[k].id = id[c]}

\* Mutant: the last worker of the table is dropped.
LastPlace(c) == Len(processors)

\* The place RemoveProcessor stops its search at: the last one if the worker is not listed.
PlaceOf(c) == IF Listed(c) = {} THEN Len(processors) ELSE CHOOSE k \in Listed(c) : TRUE

\* Table.AddProcessor, AddModule and RemoveProcessor, on a request of connection c.
Adds(c) ==
  /\ reply' = [op |-> "create", conn |-> c, ok |-> Listed(c) = {}]
  /\ processors' = IF Listed(c) = {}
                     THEN Append(processors, [id |-> id[c], conn |-> c]) ELSE processors
  /\ UNCHANGED hosting

\* A module is also refused if it is listed already or its version or contact differs.
Hosts(c) ==
  \E ok \in BOOLEAN :
    /\ ok => Listed(c) # {}
    /\ reply' = [op |-> "module", conn |-> c, ok |-> ok]
    /\ hosting' = IF ok THEN hosting \cup {id[c]} ELSE hosting
    /\ UNCHANGED processors

Drops(c) ==
  /\ reply' = [op |-> "delete", conn |-> c, ok |-> processors # <<>>]
  /\ processors' = IF processors = <<>> THEN processors ELSE RemoveAt(processors, PlaceOf(c))
  /\ UNCHANGED hosting

ProcessorServes ==
  /\ reply = NoReply /\ c7 # <<>>
  /\ LET r == Head(c7) IN
       \/ r.op = "create" /\ Adds(r.conn)
       \/ r.op = "module" /\ Hosts(r.conn)
       \/ r.op = "delete" /\ Drops(r.conn)
  /\ c7' = Tail(c7)
  /\ UNCHANGED <<register, handler, links, c8, answers, sending>>

ProcessorReplies ==
  /\ reply # NoReply /\ Len(c8) < Cap
  /\ c8' = Append(c8, reply)
  /\ reply' = NoReply
  /\ UNCHANGED <<register, handler, links, c7, answers, processors, hosting, sending>>

\* The socket thread, unless it is sending, takes a response or a request to send.  Only what
\* is answered to a "create" is looked at by the one who waits.
SocketTakesResponse ==
  /\ target = Nobody /\ c8 # <<>>
  /\ answers' = answers \cup {r \in {Head(c8)} : r.op = "create"}
  /\ c8' = Tail(c8)
  /\ UNCHANGED <<register, handler, links, c7, reply, processors, hosting, sending>>

GetConnection(i) == clients[i]

\* Server.Send: an error when there is no connection with the identifier.
SocketSends ==
  /\ target = Nobody /\ c9 # <<>>
  /\ target' = GetConnection(Head(c9))
  /\ c9' = Tail(c9)
  /\ UNCHANGED <<register, handler, links, threads, sends>>

\* The runner dispatches or stops a run on the worker of its record, connected or not.
RunnerDispatches(i) ==
  /\ sends < MaxSends /\ Len(c9) < Cap
  /\ c9' = Append(c9, i)
  /\ sends' = sends + 1
  /\ UNCHANGED <<register, handler, links, threads, target>>
-----------------------------------------------------------------------------
Goroutine(c) ==
  \/ Register(c) \/ Connect(c) \/ ConnectReturns(c)
  \/ PollInterrupt(c) \/ PollSend(c) \/ PollReceive(c) \/ OnMessage(c)
  \/ Disconnect(c) \/ Release(c)

Next ==
  \/ \E c \in Conns :
       Goroutine(c) \/ WorkerDrops(c) \/ Receive(c) \/ DecodeFails(c) \/ ListenerInterrupts(c)
  \/ ProcessorServes \/ ProcessorReplies
  \/ SocketTakesResponse \/ SocketSends
  \/ \E i \in hosting : RunnerDispatches(i)

Spec == Init /\ [][Next]_vars

\* A select that takes one of its ready cases at random takes each one in the end, and senders
\* blocked on a channel are served in turn.  Waiting for a response ends by a timeout.  Nothing
\* makes a worker connect or send, or the runner dispatch.
Fairness ==
  /\ \A c \in Conns :
       /\ WF_vars(ConnectReturns(c) \/ Release(c))
       /\ SF_vars(Connect(c) \/ OnMessage(c) \/ Disconnect(c))
       /\ SF_vars(PollSend(c)) /\ WF_vars(PollInterrupt(c)) /\ WF_vars(PollReceive(c))
       /\ WF_vars(~open[c] /\ DecodeFails(c)) /\ WF_vars(ListenerInterrupts(c))
  /\ WF_vars(ProcessorServes) /\ WF_vars(ProcessorReplies)
  /\ WF_vars(SocketTakesResponse) /\ SF_vars(SocketSends)

FairSpec == Spec /\ Fairness
-----------------------------------------------------------------------------
Refusals == {"refused", "rejected"}
Polling  == {"poll", "message", "jammed", "disconnect"}
Holding  == {"connect", "connecting"} \cup Polling \cup {"disconnecting"}

\* Types: the pool lacks at most as many identifiers as there are, and only workers are listed.
TypeOK ==
  /\ pool.buffer \in [0..(MaxClients - 1) -> Ids] /\ pool.size \in 0..MaxClients
  /\ pool.startOfData \in 0..pool.endOfBuffer /\ pool.endOfData \in 0..pool.endOfBuffer
  /\ pool.endOfBuffer = MaxClients - 1
  /\ clients \in [Ids -> Conns \cup {Nobody}]
  /\ number \in 0..MaxClients
  /\ handler \in [Conns -> Holding \cup Refusals \cup {"new", "done"}]
  /\ id \in [Conns -> {0} \cup Ids]
  /\ interrupts \in [Conns -> 0..Room]
  /\ listener \in [Conns -> {"none", "decode", "in", "failed", "done"}]
  /\ open \in [Conns -> BOOLEAN]
  /\ c7 \in Seq(Request) /\ c8 \in Seq(Answer) /\ answers \subseteq Answer
  /\ reply \in {NoReply} \cup Answer
  /\ processors \in Seq([id : Ids, conn : Conns]) /\ hosting \subseteq Ids
  /\ c9 \in Seq(Ids) /\ sends \in 0..MaxSends
  /\ target \in Conns \cup {Nobody}

\* A connection keeps the identifier it was given for itself until it is released, also when
\* the pool, torn at its last slot, hands out an identifier that is in use.
OneOwner ==
  \A c \in Conns : handler[c] \in Holding => id[c] \in Ids /\ clients[id[c]] = c

\* The number of connections is what the pool of identifiers lacks, although connections are
\* counted before they are refused and releases fail: there is an identifier for each
\* connection the number admits.
PoolHoldsTheRest == number + pool.size = MaxClients

\* A worker that was told it is connected is in the table of the processor thread under its
\* own identifier until it asks to be dropped: a late request of the connection that had the
\* identifier before does not drop it.
WorkerIsListed ==
  \A c \in Conns :
    handler[c] \in Polling =>
      \E k \in DOMAIN processors : processors[k] = [id |-> id[c], conn |-> c]

\* The processor thread waits for room to answer, and nobody else can ask it anything.
ThreadsFull == Len(c7) = Cap /\ reply # NoReply /\ Len(c8) = Cap

\* The goroutine of the connection never polls it again.
Gone(c) == handler[c] \in {"jammed", "disconnect", "disconnecting", "done"} \cup Refusals

\* The socket thread gets its message out, unless the connection is already being closed or
\* the threads wait for each other.
SendReturnsUnlessGone == \A c \in Conns : target = c ~> target # c \/ Gone(c) \/ ThreadsFull

\* A connection that breaks is taken out of the register, unless its goroutine waits for itself
\* to take an interrupt, or the socket thread is held up in a Send.
DroppedIsReleased ==
  \A c \in Conns :
    handler[c] = "poll" /\ ~open[c] ~> handler[c] \in {"jammed", "done"} \/ (ThreadsFull /\ target # Nobody)
=============================================================================
