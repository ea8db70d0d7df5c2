-------------------------------- MODULE WsFeed --------------------------------
(***************************************************************************)
(* The WebSocket feed: the task of a connection (crates/gateway/src/ws.rs),*)
(* the registry of senders (ws_registry.rs) and the handlers of routes.rs  *)
(* that send what a submission or a cancel did to those it concerns.       *)
(*                                                                         *)
(* A handler has its result from under the state's mutex, releases it and  *)
(* asks for the registry's lock, as connections do to be registered and    *)
(* to be removed. What is done under that lock awaits nothing: from having *)
(* it to letting go of it is one step.                                     *)
(***************************************************************************)
EXTENDS Integers, Sequences, SequencesExt

CONSTANTS Addresses,
          Sockets,     \* the connections explored, each made once
          Signer,      \* the address that signs the challenge of each
          Stalled,     \* connections whose client stops reading the feed
          Requests     \* accepted submissions [id, taker, makers], cancels [id, maker]

ASSUME WsFeedAssumption ==
  /\ Signer \in [Sockets -> Addresses]
  /\ \A r \in Requests : "taker" \in DOMAIN r => r.makers \in Seq(Addresses)

VARIABLES
  registry,       \* WsRegistry: [connections, next_id]; for an address, a set of [id, tx]
  queue,          \* who asked for its lock, in that order: the first has it
  \* the task of a connection, and its locals
  phase,
  address,        \* recovered, from the signature
  sender_id,
  channel,        \* what was sent and not taken by rx.recv
  sending,        \* the message in socket.send, or none
  \* clients and handlers
  closed,         \* the connections their clients have closed
  received,       \* what was written to a socket
  handler,        \* "waiting", "dispatch", "answered" or "dropped"
  \* bookkeeping
  dispatched,     \* all that was sent to addresses, in order: [address, message]
  since           \* how much had been sent when a connection was registered

socket_vars == <<phase, address, sender_id, sending, received>>
vars == <<registry, queue, socket_vars, channel, closed, handler, dispatched, since>>

Nobody == "nobody"

Init ==
  /\ registry = [connections |-> [a \in {} |-> {}], next_id |-> 0]
  /\ queue = <<>>
  /\ phase = [s \in Sockets |-> "new"] /\ address = [s \in Sockets |-> Nobody]
  /\ sender_id = [s \in Sockets |-> 0]
  /\ channel = [s \in Sockets |-> <<>>] /\ sending = [s \in Sockets |-> <<>>]
  /\ closed = {} /\ received = [s \in Sockets |-> <<>>]
  /\ handler = [r \in Requests |-> "waiting"]
  /\ dispatched = <<>> /\ since = [s \in Sockets |-> 0]

-----------------------------------------------------------------------------
(* The registry                                                            *)

Connected == DOMAIN registry.connections

\* The senders of an address. The code's Vec has an order, in which they are served:
\* it is the order of messages in different channels, and left out.
Senders(a) == IF a \in Connected THEN registry.connections[a] ELSE {}

\* An address without senders has no entry.
PutSenders(a, senders) ==
  IF senders = {}
    THEN [b \in Connected \ {a} |-> registry.connections[b]]
    ELSE [b \in Connected \cup {a} |-> IF b = a THEN senders ELSE registry.connections[b]]

\* Mutant: the connection takes the place of earlier ones of its address.
RegisterAlone(s) ==
  [connections |-> PutSenders(address[s], {[id |-> registry.next_id, tx |-> s]}),
   next_id     |-> registry.next_id + 1]

\* Mutant: the next connection gets the same id.
RegisterSameId(s) ==
  [registry EXCEPT !.connections =
     PutSenders(address[s], Senders(address[s]) \cup {[id |-> registry.next_id, tx |-> s]})]

Registered(s) ==
  [connections |-> PutSenders(address[s], Senders(address[s]) \cup {[id |-> registry.next_id, tx |-> s]}),
   next_id     |-> registry.next_id + 1]

\* Mutant: the address goes with its connection.
RemovedAddress(s) == [registry EXCEPT !.connections = PutSenders(address[s], {})]

Removed(s) ==
  [registry EXCEPT !.connections =
     PutSenders(address[s], {x \in Senders(address[s]) : x.id # sender_id[s]})]

\* Mutant: only the oldest connection of an address is served.
FirstReceiver(a) == {x.tx : x \in {y \in Senders(a) : \A z \in Senders(a) : y.id <= z.id}}

\* send_to serves all connections of an address. None of them is dead: a task
\* removes its sender before it drops its receiver.
Receivers(a) == {x.tx : x \in Senders(a)}

IsSender(s) == \E a \in Connected : s \in Receivers(a)

-----------------------------------------------------------------------------
(* The lock of the registry: tokio's RwLock, of which only write is used,  *)
(* serves those who ask in their order.                                    *)

Ask(w) == queue' = Append(queue, w)

\* Mutant: the guard of a registration lives on through the loop of its task.
GuardKept(w) ==
  /\ queue # <<>> /\ Head(queue) = w
  /\ queue' = IF w \in Sockets /\ phase[w] = "register" THEN queue ELSE Tail(queue)

\* w has the lock, and lets go of it with this step.
UnderLock(w) ==
  /\ queue # <<>> /\ Head(queue) = w
  /\ queue' = Tail(queue)

\* w is dropped, waiting for the lock or about to go on with it.
Abandon(w) == \E i \in DOMAIN queue : queue[i] = w /\ queue' = RemoveAt(queue, i)

-----------------------------------------------------------------------------
(* The handlers                                                            *)

\* Every fill is told to its maker and then to the taker, a cancel to the maker.
Dispatches(r) ==
  IF "taker" \in DOMAIN r
    THEN [k \in 1..(2 * Len(r.makers)) |->
           LET fill == (k + 1) \div 2
           IN  IF k % 2 = 1 THEN [address |-> r.makers[fill], message |-> <<r.id, fill, "maker">>]
                            ELSE [address |-> r.taker, message |-> <<r.id, fill, "taker">>]]
    ELSE <<[address |-> r.maker, message |-> <<r.id, 0, "cancel">>]>>

\* The submission or the cancel itself has been done under the state's mutex; in
\* which order is not seen here, only in which order the handlers go on.
HandleRequest(r) ==
  /\ handler[r] = "waiting"
  /\ Ask(r)
  /\ handler' = [handler EXCEPT ![r] = "dispatch"]
  /\ UNCHANGED <<registry, socket_vars, channel, closed, dispatched, since>>

\* The messages for an address among those sent, in order.
MessagesFor(a, dispatches) ==
  LET upto[i \in 0..Len(dispatches)] ==
        IF i = 0 THEN <<>>
        ELSE IF dispatches[i].address = a THEN Append(upto[i - 1], dispatches[i].message)
        ELSE upto[i - 1]
  IN  upto[Len(dispatches)]

\* All messages of a request are sent under the registry's lock. The channels are
\* unbounded: sending does not wait.
Dispatch(r) ==
  /\ handler[r] = "dispatch"
  /\ UnderLock(r)
  /\ channel' = [s \in Sockets |->
       IF IsSender(s) THEN channel[s] \o MessagesFor(address[s], Dispatches(r)) ELSE channel[s]]
  /\ dispatched' = dispatched \o Dispatches(r)
  /\ handler' = [handler EXCEPT ![r] = "answered"]
  /\ UNCHANGED <<registry, socket_vars, closed, since>>

\* The client of a request goes away while its handler waits for the registry, and
\* the server drops the handler: what it did stays done and nobody is told.
DropHandler(r) ==
  /\ handler[r] = "dispatch"
  /\ Abandon(r)
  /\ handler' = [handler EXCEPT ![r] = "dropped"]
  /\ UNCHANGED <<registry, socket_vars, channel, closed, dispatched, since>>

-----------------------------------------------------------------------------
(* The task of a connection                                                *)

Goto(s, from, to) == phase[s] = from /\ phase' = [phase EXCEPT ![s] = to]

\* The challenge is sent.
Connect(s) ==
  /\ Goto(s, "new", "authenticate")
  /\ UNCHANGED <<registry, queue, address, sender_id, sending, received, channel, closed, handler,
                 dispatched, since>>

\* A message signed for the address it names, and the answer that it is accepted;
\* then the task asks for the lock to be registered.
Authenticate(s) ==
  /\ Goto(s, "authenticate", "register")
  /\ Ask(s)
  /\ address' = [address EXCEPT ![s] = Signer[s]]
  /\ UNCHANGED <<registry, sender_id, sending, received, channel, closed, handler,
                 dispatched, since>>

\* Five seconds without a message, a close, a message that is not that, or an answer
\* that cannot be sent.
RejectAuth(s) ==
  /\ Goto(s, "authenticate", "gone")
  /\ UNCHANGED <<registry, queue, address, sender_id, sending, received, channel, closed, handler,
                 dispatched, since>>

Register(s) ==
  /\ Goto(s, "register", "open")
  /\ UnderLock(s)
  /\ registry' = Registered(s)
  /\ sender_id' = [sender_id EXCEPT ![s] = registry.next_id]
  /\ since' = [since EXCEPT ![s] = Len(dispatched)]
  /\ UNCHANGED <<address, sending, received, channel, closed, handler, dispatched>>

\* rx.recv yields a message, and the task is in socket.send with it.
TakeMessage(s) ==
  /\ phase[s] = "open" /\ sending[s] = <<>> /\ channel[s] # <<>>
  /\ sending' = [sending EXCEPT ![s] = <<Head(channel[s])>>]
  /\ channel' = [channel EXCEPT ![s] = Tail(@)]
  /\ UNCHANGED <<registry, queue, phase, address, sender_id, received, closed, handler,
                 dispatched, since>>

\* A client that does not read keeps the task waiting.
SendMessage(s) ==
  /\ phase[s] = "open" /\ sending[s] # <<>> /\ s \notin Stalled
  /\ received' = [received EXCEPT ![s] = @ \o sending[s]]
  /\ sending' = [sending EXCEPT ![s] = <<>>]
  /\ UNCHANGED <<registry, queue, phase, address, sender_id, channel, closed, handler,
                 dispatched, since>>

\* socket.recv yields a close, socket.send fails, or rx.recv yields None; then the
\* task asks for the lock to be removed.
LoopEnds(s) ==
  /\ s \in closed \/ (~IsSender(s) /\ channel[s] = <<>> /\ sending[s] = <<>>)
  /\ Goto(s, "open", "closing")
  /\ Ask(s)
  /\ UNCHANGED <<registry, address, sender_id, sending, received, channel, closed, handler,
                 dispatched, since>>

Unregister(s) ==
  /\ Goto(s, "closing", "gone")
  /\ UnderLock(s)
  /\ registry' = Removed(s)
  /\ channel' = [channel EXCEPT ![s] = <<>>] /\ sending' = [sending EXCEPT ![s] = <<>>]
  /\ UNCHANGED <<address, sender_id, received, closed, handler, dispatched, since>>

\* The connection is closed, and not only a close sent on it: also a task that is
\* in socket.send hears of it.
ClientCloses(s) ==
  /\ s \notin closed /\ phase[s] \in {"register", "open"}
  /\ closed' = closed \cup {s}
  /\ UNCHANGED <<registry, queue, socket_vars, channel, handler, dispatched, since>>

\* What the task does by itself.
Task(s) ==
  \/ RejectAuth(s) \/ Register(s) \/ TakeMessage(s) \/ SendMessage(s) \/ LoopEnds(s)
  \/ Unregister(s)

Next ==
  \/ \E r \in Requests : HandleRequest(r)
  \/ \E r \in Requests : Dispatch(r)
  \/ \E r \in Requests : DropHandler(r)
  \/ \E s \in Sockets : Connect(s)
  \/ \E s \in Sockets : Authenticate(s)
  \/ \E s \in Sockets : Task(s)
  \/ \E s \in Sockets : ClientCloses(s)

\* The runtime polls every task that can go on.
Fairness ==
  /\ \A r \in Requests : WF_vars(Dispatch(r))
  /\ \A s \in Sockets : WF_vars(Task(s))

Spec == Init /\ [][Next]_vars /\ Fairness

-----------------------------------------------------------------------------
(* Properties                                                              *)

Phases == {"new", "authenticate", "register", "open", "closing", "gone"}

\* The variables stay in their types; an id is given to one connection only.
TypeOK ==
  /\ queue \in Seq(Sockets \cup Requests)
  /\ \A s \in Sockets :
       /\ phase[s] \in Phases /\ address[s] \in Addresses \cup {Nobody}
       /\ Len(sending[s]) <= 1 /\ since[s] \in 0..Len(dispatched)
  /\ closed \subseteq Sockets
  /\ \A r \in Requests : handler[r] \in {"waiting", "dispatch", "answered", "dropped"}
  /\ Connected \subseteq Addresses
  /\ \A s, t \in Sockets :
       s # t /\ {phase[s], phase[t]} \subseteq {"open", "closing"} => sender_id[s] # sender_id[t]

\* The registry names exactly the connections that were registered and not removed,
\* each once and under its address; an address without one has no entry. A sender
\* left behind would collect messages for ever, a lost one end a connection.
RegistryExact ==
  /\ \A a \in Addresses :
       Receivers(a) = {s \in Sockets : address[s] = a /\ phase[s] \in {"open", "closing"}}
  /\ \A a \in Connected :
       Senders(a) # {} /\ \A x, y \in Senders(a) : x.tx = y.tx => x = y

\* The messages for a connection since it was registered.
Feed(s) == MessagesFor(address[s], SubSeq(dispatched, since[s] + 1, Len(dispatched)))

\* A connection gets the messages for its address from the moment it is registered,
\* all of them, in the order they were sent, and nobody else's; when it ends, a
\* first part of them. Other connections of the address come and go meanwhile.
FeedExact ==
  \A s \in Sockets :
    /\ phase[s] = "open" => received[s] \o sending[s] \o channel[s] = Feed(s)
    /\ IsPrefix(received[s], Feed(s))

\* A message sent to an open connection is written to it in the end, unless the
\* connection ends or its client does not read.
Delivered ==
  \A s \in Sockets \ Stalled :
    (phase[s] = "open" /\ received[s] # Feed(s)) ~> (received[s] = Feed(s) \/ phase[s] = "gone")

AwaitsLock(w) ==
  IF w \in Requests THEN handler[w] = "dispatch" ELSE phase[w] \in {"register", "closing"}

\* Who asks for the registry's lock gets it: handlers answer, unless they are dropped,
\* new connections are registered, and those that ended removed, while clients that
\* do not read keep their tasks in socket.send and others never close.
LockPasses == \A w \in Sockets \cup Requests : AwaitsLock(w) ~> ~AwaitsLock(w)
=============================================================================
