------------------------- MODULE ReliableWebSocket -------------------------
(***************************************************************************)
(* The reliable websocket of one user's client on one node:                *)
(*   - the hub goroutine (web_hub.go): connection index, registration,     *)
(*     broadcast, reconnect lookup, reaping of inactive connections;       *)
(*   - a WebConn per handshake (web_conn.go, api4/websocket.go): the HTTP  *)
(*     handler, then the write pump and the read pump;                     *)
(*   - the browser's client (webapp/platform/client/src/websocket.ts).     *)
(*                                                                         *)
(* WebConns are numbered in the order of their handshakes. A send channel  *)
(* and its dead queue have the number of the WebConn that made them: a     *)
(* reconnect may hand them to a later WebConn, and queue[c] is the pair c  *)
(* works on. Published events are numbered too; the number is what the     *)
(* properties look at, the code does not see it.                           *)
(***************************************************************************)
EXTENDS DeadQueue, FiniteSets

CONSTANTS
  sendQueueSize,  \* capacity of a send channel (256 in the code)
  MaxConns,       \* bound: handshakes in a behaviour
  MaxEvents,      \* bound: events published
  MaxFaults,      \* bound: disturbances that happen, of the kinds in FaultKinds
  FaultKinds

ASSUME SendQueueSizeAssumption == sendQueueSize \in Nat \ {0}
ASSUME MaxConnsAssumption == MaxConns \in Nat \ {0}
ASSUME MaxEventsAssumption == MaxEvents \in Nat
ASSUME MaxFaultsAssumption == MaxFaults \in Nat
ASSUME FaultKindsAssumption ==
  FaultKinds \subseteq {"break", "panic", "restart", "encode", "register"}

Conns == 1 .. MaxConns
NoConn == 0
NoId == 0        \* the client's connection ID before its first hello

VARIABLES
  (* the hub and the WebConns *)
  pc,             \* where the handler goroutine of each WebConn is
  request,        \* connection_id and sequence_number of the handshake URL
  index,          \* WebConns in the hub's connection index
  active,         \* WebConn.Active
  connectionID,   \* WebConn.connectionID
  Sequence,       \* WebConn.Sequence
  reused,         \* WebConn.reuseCount # 0
  queue,          \* which send channel and dead queue a WebConn works on
  deadQueuePointer,
  send,           \* contents of each send channel
  closed,         \* the send channel was closed
  deadQueue,
  lastId,         \* connection IDs made so far by model.NewId
  (* the network *)
  wire,           \* messages written to a socket and not yet read
  linked,         \* the socket is intact
  (* the client *)
  conn,           \* the WebConn at the other end of its socket, or NoConn
  connectionId,
  serverSequence,
  (* history *)
  published,      \* events published so far
  view,           \* what the client knows: events 1 .. view, up to gaps
  lastEvent,      \* last event delivered under the current connection ID
  gaps,           \* events the client was led past without a resync
  missed,         \* events each queue never got although its client was to
  written,        \* messages each dead queue got before a number was left out
  faults

serverVars == <<pc, request, index, active, connectionID, Sequence, reused,
                queue, deadQueuePointer, send, closed, deadQueue, lastId>>
networkVars == <<wire, linked>>
clientVars == <<conn, connectionId, serverSequence, view, lastEvent, gaps>>
historyVars == <<published, missed, written, faults>>
vars == <<serverVars, networkVars, clientVars, historyVars>>

\* The places in connectWebSocket and Pump where other goroutines can step in.
PCs == {"unused", "handshake", "checked", "registered", "pump", "ended", "gone"}

\* What travels: an event (id = NoId), or the hello message (pub = 0) with the
\* connection ID it carries. Messages in a send channel have no number yet.
EventMsg(n) == [pub |-> n, id |-> NoId]
HelloMsg(i) == [pub |-> 0, id |-> i]
SetSequence(m, s) == [seq |-> s, pub |-> m.pub, id |-> m.id]

Message == [pub : 0 .. MaxEvents, id : Nat]
SentMessage == [seq : Nat, pub : 0 .. MaxEvents, id : Nat]

ASSUME NilAssumption == Nil \notin SentMessage

TypeOK ==
  /\ pc \in [Conns -> PCs]
  /\ request \in [Conns -> [id : Nat, seq : Nat]]
  /\ index \subseteq Conns
  /\ active \in [Conns -> BOOLEAN]
  /\ connectionID \in [Conns -> Nat]
  /\ Sequence \in [Conns -> Nat]
  /\ reused \in [Conns -> BOOLEAN]
  /\ queue \in [Conns -> Conns]
  /\ deadQueuePointer \in [Conns -> Slots]
  /\ send \in [Conns -> Seq(Message)]
  /\ closed \in [Conns -> BOOLEAN]
  /\ deadQueue \in [Conns -> [Slots -> SentMessage \cup {Nil}]]
  /\ lastId \in Nat
  /\ wire \in [Conns -> Seq(SentMessage)]
  /\ linked \in [Conns -> BOOLEAN]
  /\ conn \in Conns \cup {NoConn}
  /\ connectionId \in Nat
  /\ serverSequence \in Nat
  /\ published \in 0 .. MaxEvents
  /\ view \in 0 .. MaxEvents
  /\ lastEvent \in 0 .. MaxEvents
  /\ gaps \subseteq 1 .. MaxEvents
  /\ missed \in [Conns -> SUBSET (1 .. MaxEvents)]
  /\ written \in [Conns -> Nat]
  /\ faults \in 0 .. MaxFaults

Init ==
  /\ pc = [c \in Conns |-> "unused"]
  /\ request = [c \in Conns |-> [id |-> NoId, seq |-> 0]]
  /\ index = {}
  /\ active = [c \in Conns |-> FALSE]
  /\ connectionID = [c \in Conns |-> NoId]
  /\ Sequence = [c \in Conns |-> 0]
  /\ reused = [c \in Conns |-> FALSE]
  /\ queue = [c \in Conns |-> c]
  /\ deadQueuePointer = [c \in Conns |-> 0]
  /\ send = [c \in Conns |-> <<>>]
  /\ closed = [c \in Conns |-> FALSE]
  /\ deadQueue = [c \in Conns |-> EmptyDeadQueue]
  /\ lastId = 0
  /\ wire = [c \in Conns |-> <<>>]
  /\ linked = [c \in Conns |-> FALSE]
  /\ conn = NoConn
  /\ connectionId = NoId
  /\ serverSequence = 0
  /\ published = 0
  /\ view = 0
  /\ lastEvent = 0
  /\ gaps = {}
  /\ missed = [c \in Conns |-> {}]
  /\ written = [c \in Conns |-> 0]
  /\ faults = 0

Fault(kind) ==
  /\ kind \in FaultKinds
  /\ faults < MaxFaults
  /\ faults' = faults + 1

----------------------------------------------------------------------------
(* The handshake: connectWebSocket, one step per call to the hub. *)

\* A slip: the connection is handed over although its pumps still run.
ResumableActive(id) == {d \in index : connectionID[d] = id}

\* A slip: connections that left the index are still found.
ResumableRemoved(id) ==
  {d \in Conns : connectionID[d] = id /\ ~ active[d] /\ pc[d] = "gone"}

\* The index entries CheckConn may hand over: inactive, of that connection ID.
Resumable(id) == {d \in index : connectionID[d] = id /\ ~ active[d]}

\* No connection_id in the URL, or the hub has nothing under it: a new
\* connection ID, new queues, sequence number 0.
FreshConn(c) ==
  /\ pc[c] = "handshake"
  /\ request[c].id = NoId \/ Resumable(request[c].id) = {}
  /\ lastId' = lastId + 1
  /\ connectionID' = [connectionID EXCEPT ![c] = lastId + 1]
  /\ active' = [active EXCEPT ![c] = TRUE]
  /\ pc' = [pc EXCEPT ![c] = "checked"]
  /\ UNCHANGED <<request, index, Sequence, reused, queue, deadQueuePointer,
                 send, closed, deadQueue, networkVars, clientVars, historyVars>>

\* The hub has an inactive connection under that ID: it leaves the index and
\* its channel, dead queue and pointer go to the new one.
ResumeConn(c) ==
  /\ pc[c] = "handshake"
  /\ request[c].id # NoId
  /\ \E d \in Resumable(request[c].id) :
       /\ index' = index \ {d}
       /\ queue' = [queue EXCEPT ![c] = queue[d]]
       /\ deadQueuePointer' = [deadQueuePointer EXCEPT ![c] = deadQueuePointer[d]]
  /\ connectionID' = [connectionID EXCEPT ![c] = request[c].id]
  /\ Sequence' = [Sequence EXCEPT ![c] = request[c].seq]
  /\ reused' = [reused EXCEPT ![c] = TRUE]
  /\ active' = [active EXCEPT ![c] = FALSE]
  /\ pc' = [pc EXCEPT ![c] = "checked"]
  /\ UNCHANGED <<request, send, closed, deadQueue, lastId, networkVars,
                 clientVars, historyVars>>

\* The hub's register case. A fresh connection gets the hello message first;
\* the hub blocks until there is room for it.
Register(c) ==
  /\ pc[c] = "checked"
  /\ active' = [active EXCEPT ![c] = TRUE]
  /\ index' = index \cup {c}
  /\ IF reused[c]
       THEN UNCHANGED send
       ELSE /\ Len(send[queue[c]]) < sendQueueSize
            /\ send' = [send EXCEPT ![queue[c]] =
                          Append(@, HelloMsg(connectionID[c]))]
  /\ pc' = [pc EXCEPT ![c] = "registered"]
  /\ UNCHANGED <<request, connectionID, Sequence, reused, queue,
                 deadQueuePointer, closed, deadQueue, lastId, networkVars,
                 clientVars, historyVars>>

\* connIndex.Add fails when the store does not return the user's channels: the
\* handler closes the socket and returns. A queue it took over is lost.
RegisterFails(c) ==
  /\ pc[c] = "checked"
  /\ Fault("register")
  /\ active' = [active EXCEPT ![c] = TRUE]
  /\ pc' = [pc EXCEPT ![c] = "gone"]
  /\ linked' = [linked EXCEPT ![c] = FALSE]
  /\ UNCHANGED <<request, index, connectionID, Sequence, reused, queue,
                 deadQueuePointer, send, closed, deadQueue, lastId, wire,
                 clientVars, published, missed, written>>

----------------------------------------------------------------------------
(* The pumps. *)

\* Writing the messages ms to the socket of c: they are on their way, or the
\* socket is broken, and then the write fails or goes unnoticed.
WriteOk(c, ms) ==
  /\ wire' = IF linked[c] THEN [wire EXCEPT ![c] = @ \o ms] ELSE wire
  /\ UNCHANGED linked
WriteError(c) == ~ linked[c] /\ UNCHANGED networkVars

\* writePump up to its loop. An error ends it.
StartPump(c) ==
  /\ pc[c] = "registered"
  /\ LET q == queue[c]
         r == IF Sequence[c] = 0
                THEN [queue |-> deadQueue[q], pointer |-> deadQueuePointer[c],
                      sequence |-> 0, sent |-> <<>>, outcome |-> "fresh"]
                ELSE Prologue(deadQueue[q], deadQueuePointer[c], Sequence[c],
                              SetSequence(HelloMsg(lastId + 1), 0))
     IN  /\ deadQueue' = [deadQueue EXCEPT ![q] = r.queue]
         /\ deadQueuePointer' = [deadQueuePointer EXCEPT ![c] = r.pointer]
         /\ Sequence' = [Sequence EXCEPT ![c] = r.sequence]
         /\ IF r.outcome = "notFound"
              THEN /\ lastId' = lastId + 1
                   /\ connectionID' = [connectionID EXCEPT ![c] = lastId + 1]
              ELSE UNCHANGED <<lastId, connectionID>>
         /\ written' = [written EXCEPT ![q] = IF r.outcome = "notFound" THEN 1 ELSE @]
         /\ \/ WriteOk(c, r.sent) /\ pc' = [pc EXCEPT ![c] = "pump"]
            \/ r.sent # <<>> /\ WriteError(c) /\ pc' = [pc EXCEPT ![c] = "ended"]
  /\ UNCHANGED <<request, index, active, reused, queue, send, closed,
                 clientVars, published, missed, faults>>

\* A slip: a message that could not be written goes back to the channel, though
\* the dead queue has it.
PumpMessageRequeued(c) ==
  /\ pc[c] = "pump"
  /\ send[queue[c]] # <<>>
  /\ LET q == queue[c]
         evt == SetSequence(Head(send[q]), Sequence[c])
     IN  /\ Sequence' = [Sequence EXCEPT ![c] = @ + 1]
         /\ deadQueue' = [deadQueue EXCEPT ![q] =
                            AddToDeadQueue(@, deadQueuePointer[c], evt)]
         /\ deadQueuePointer' = [deadQueuePointer EXCEPT ![c] = NextSlot(@)]
         /\ written' = [written EXCEPT ![q] = IF Sequence[c] = @ THEN @ + 1 ELSE @]
         /\ \/ WriteOk(c, <<evt>>) /\ UNCHANGED pc
               /\ send' = [send EXCEPT ![q] = Tail(@)]
            \/ WriteError(c) /\ pc' = [pc EXCEPT ![c] = "ended"] /\ UNCHANGED send
  /\ UNCHANGED <<request, index, active, connectionID, reused, queue, closed,
                 lastId, clientVars, published, missed, faults>>

\* writePump takes a message from the channel, numbers it, remembers it in the
\* dead queue and writes it.
PumpMessage(c) ==
  /\ pc[c] = "pump"
  /\ send[queue[c]] # <<>>
  /\ LET q == queue[c]
         evt == SetSequence(Head(send[q]), Sequence[c])
     IN  /\ send' = [send EXCEPT ![q] = Tail(@)]
         /\ Sequence' = [Sequence EXCEPT ![c] = @ + 1]
         /\ deadQueue' = [deadQueue EXCEPT ![q] =
                            AddToDeadQueue(@, deadQueuePointer[c], evt)]
         /\ deadQueuePointer' = [deadQueuePointer EXCEPT ![c] = NextSlot(@)]
         /\ written' = [written EXCEPT ![q] = IF Sequence[c] = @ THEN @ + 1 ELSE @]
         /\ \/ WriteOk(c, <<evt>>) /\ UNCHANGED pc
            \/ WriteError(c) /\ pc' = [pc EXCEPT ![c] = "ended"]
  /\ UNCHANGED <<request, index, active, connectionID, reused, queue, closed,
                 lastId, clientVars, published, missed, faults>>

\* The event cannot be encoded: it is dropped, its number is used up. (A hello
\* message is made of three strings, which always can.)
PumpEncodeError(c) ==
  /\ pc[c] = "pump"
  /\ send[queue[c]] # <<>> /\ Head(send[queue[c]]).id = NoId
  /\ Fault("encode")
  /\ LET q == queue[c]
     IN  /\ send' = [send EXCEPT ![q] = Tail(@)]
         /\ missed' = [missed EXCEPT ![q] = @ \cup {Head(send[q]).pub}]
  /\ Sequence' = [Sequence EXCEPT ![c] = @ + 1]
  /\ UNCHANGED <<pc, request, index, active, connectionID, reused, queue,
                 deadQueuePointer, closed, deadQueue, lastId, networkVars,
                 clientVars, published, written>>

\* The channel was closed and is used up: writePump closes the socket.
PumpClosed(c) ==
  /\ pc[c] = "pump"
  /\ closed[queue[c]] /\ send[queue[c]] = <<>>
  /\ linked' = [linked EXCEPT ![c] = FALSE]
  /\ pc' = [pc EXCEPT ![c] = "ended"]
  /\ UNCHANGED <<request, index, active, connectionID, Sequence, reused, queue,
                 deadQueuePointer, send, closed, deadQueue, lastId, wire,
                 clientVars, historyVars>>

\* The read pump finds the socket broken and ends the write pump with it.
PumpEnd(c) ==
  /\ pc[c] = "pump"
  /\ ~ linked[c]
  /\ pc' = [pc EXCEPT ![c] = "ended"]
  /\ UNCHANGED <<request, index, active, connectionID, Sequence, reused, queue,
                 deadQueuePointer, send, closed, deadQueue, lastId, networkVars,
                 clientVars, historyVars>>

\* Both pumps are done. The hub marks the connection inactive, and it stays in
\* the index (if it is still there) with its queues for a reconnect.
Unregister(c) ==
  /\ pc[c] = "ended"
  /\ active' = [active EXCEPT ![c] = FALSE]
  /\ pc' = [pc EXCEPT ![c] = "gone"]
  /\ UNCHANGED <<request, index, connectionID, Sequence, reused, queue,
                 deadQueuePointer, send, closed, deadQueue, lastId, networkVars,
                 clientVars, historyVars>>

----------------------------------------------------------------------------
(* Other steps of the hub. *)

HasRoom(c) == Len(send[queue[c]]) < sendQueueSize

\* Handed over by CheckConn and not yet registered: no broadcast reaches it.
InHandover(c) == pc[c] = "checked" /\ reused[c]

\* The hub broadcasts an event to the user's connections, the inactive ones
\* included. One whose channel is full has it closed and leaves the index.
Broadcast ==
  /\ published < MaxEvents
  /\ published' = published + 1
  /\ LET reached == {queue[c] : c \in {d \in index : HasRoom(d)}}
         full == {d \in index : ~ HasRoom(d)}
         passed == {queue[c] : c \in {d \in Conns : InHandover(d)}}
     IN  /\ send' = [q \in Conns |->
                       IF q \in reached THEN Append(send[q], EventMsg(published + 1))
                                        ELSE send[q]]
         /\ closed' = [q \in Conns |-> closed[q] \/ \E d \in full : queue[d] = q]
         /\ index' = index \ full
         /\ missed' = [q \in Conns |->
                         IF q \in passed THEN missed[q] \cup {published + 1}
                                         ELSE missed[q]]
  /\ UNCHANGED <<pc, request, active, connectionID, Sequence, reused, queue,
                 deadQueuePointer, deadQueue, lastId, networkVars, clientVars,
                 written, faults>>

\* RemoveInactiveConnections: every inactive connection whose user was last
\* active long enough ago leaves the index.
Reap ==
  /\ \E stale \in SUBSET {c \in index : ~ active[c]} :
       /\ stale # {}
       /\ index' = index \ stale
  /\ UNCHANGED <<pc, request, active, connectionID, Sequence, reused, queue,
                 deadQueuePointer, send, closed, deadQueue, lastId, networkVars,
                 clientVars, published, missed, written, faults>>

\* The hub goroutine panics and is started again, with an empty index.
HubPanic ==
  /\ index # {}
  /\ Fault("panic")
  /\ index' = {}
  /\ UNCHANGED <<pc, request, active, connectionID, Sequence, reused, queue,
                 deadQueuePointer, send, closed, deadQueue, lastId, networkVars,
                 clientVars, published, missed, written>>

\* The server process is killed and started again.
ServerRestart ==
  /\ Fault("restart")
  /\ pc' = [c \in Conns |-> IF pc[c] = "unused" THEN "unused" ELSE "gone"]
  /\ linked' = [c \in Conns |-> FALSE]
  /\ index' = {}
  /\ UNCHANGED <<request, active, connectionID, Sequence, reused, queue,
                 deadQueuePointer, send, closed, deadQueue, lastId, wire,
                 clientVars, published, missed, written>>

----------------------------------------------------------------------------
(* The network and the client. *)

Break ==
  /\ conn # NoConn
  /\ linked[conn]
  /\ Fault("break")
  /\ linked' = [linked EXCEPT ![conn] = FALSE]
  /\ UNCHANGED <<serverVars, wire, clientVars, published, missed, written>>

\* initialize(): a new socket, with the last connection ID and the next
\* sequence number expected in its URL.
Connect ==
  /\ conn = NoConn
  /\ \E c \in Conns :
       /\ pc[c] = "unused" /\ \A d \in 1 .. c - 1 : pc[d] # "unused"
       /\ conn' = c
       /\ pc' = [pc EXCEPT ![c] = "handshake"]
       /\ request' = [request EXCEPT ![c] = [id |-> connectionId,
                                             seq |-> serverSequence]]
       /\ linked' = [linked EXCEPT ![c] = TRUE]
  /\ UNCHANGED <<index, active, connectionID, Sequence, reused, queue,
                 deadQueuePointer, send, closed, deadQueue, lastId, wire,
                 connectionId, serverSequence, view, lastEvent, gaps, historyVars>>

\* The client drops its socket; what was still on it is lost.
Disconnect ==
  /\ conn' = NoConn
  /\ linked' = [linked EXCEPT ![conn] = FALSE]
  /\ wire' = [wire EXCEPT ![conn] = <<>>]

\* onclose, once the browser notices, whatever it had read until then.
OnClose ==
  /\ conn # NoConn
  /\ ~ linked[conn]
  /\ Disconnect
  /\ UNCHANGED <<serverVars, connectionId, serverSequence, view, lastEvent, gaps,
                 historyVars>>

\* A slip: only a socket that is seen to be broken is given up.
PingTimeoutBroken ==
  /\ conn # NoConn
  /\ ~ linked[conn]
  /\ Disconnect
  /\ UNCHANGED <<serverVars, connectionId, serverSequence, view, lastEvent, gaps,
                 historyVars>>

\* The ping interval ends without an answer: the hub drops answers to a
\* connection that is not in its index.
PingTimeout ==
  /\ conn # NoConn
  /\ linked[conn]
  /\ pc[conn] = "pump" /\ conn \notin index
  /\ Disconnect
  /\ UNCHANGED <<serverVars, connectionId, serverSequence, view, lastEvent, gaps,
                 historyVars>>

\* The number the client compares with the one of message m: a hello under a
\* new connection ID starts the numbering again.
NewStream(m) == m.id \notin {NoId, connectionId}
Expected(m) == IF NewStream(m) /\ connectionId # NoId THEN 0 ELSE serverSequence

\* A slip: the sync calls are left out.
RefetchedNothing == view

\* What the client knows after the sync calls of missedEventCallback.
Refetched == published

\* onmessage on a hello. Under a new connection ID the client fetches
\* everything again (missedEventCallback; on the first one, it just loaded).
OnHello ==
  /\ conn # NoConn
  /\ wire[conn] # <<>>
  /\ Head(wire[conn]).id # NoId
  /\ LET m == Head(wire[conn])
     IN  /\ connectionId' = m.id
         /\ IF NewStream(m) THEN view' = Refetched /\ lastEvent' = 0
                            ELSE UNCHANGED <<view, lastEvent>>
         /\ IF m.seq # Expected(m)
              THEN Disconnect /\ serverSequence' = Expected(m)
              ELSE /\ serverSequence' = m.seq + 1
                   /\ wire' = [wire EXCEPT ![conn] = Tail(@)]
                   /\ UNCHANGED <<linked, conn>>
  /\ UNCHANGED <<serverVars, gaps, historyVars>>

\* onmessage on another event with the expected number: it is delivered.
OnEvent ==
  /\ conn # NoConn
  /\ wire[conn] # <<>>
  /\ LET m == Head(wire[conn])
     IN  /\ m.id = NoId
         /\ m.seq = serverSequence
         /\ serverSequence' = m.seq + 1
         /\ lastEvent' = m.pub
         /\ view' = IF m.pub > view THEN m.pub ELSE view
         /\ gaps' = gaps \cup (view + 1 .. m.pub - 1)
         /\ wire' = [wire EXCEPT ![conn] = Tail(@)]
  /\ UNCHANGED <<serverVars, linked, conn, connectionId, historyVars>>

\* onmessage on an event with another number: the client reconnects.
OnWrongSequence ==
  /\ conn # NoConn
  /\ wire[conn] # <<>>
  /\ Head(wire[conn]).id = NoId
  /\ Head(wire[conn]).seq # serverSequence
  /\ Disconnect
  /\ UNCHANGED <<serverVars, connectionId, serverSequence, view, lastEvent, gaps,
                 historyVars>>

----------------------------------------------------------------------------
(* The steps the program takes of its own accord, and the whole. *)

Handler(c) == \/ FreshConn(c) \/ ResumeConn(c) \/ Register(c)
              \/ StartPump(c) \/ PumpMessage(c) \/ PumpClosed(c) \/ PumpEnd(c)
              \/ Unregister(c)

Client == Connect \/ OnClose \/ PingTimeout \/ OnHello \/ OnEvent \/ OnWrongSequence

Failures == \/ \E c \in Conns : RegisterFails(c) \/ PumpEncodeError(c)
            \/ Reap \/ HubPanic \/ ServerRestart \/ Break

Next == \/ \E c \in Conns : Handler(c)
        \/ Client \/ Broadcast \/ Failures

Spec == Init /\ [][Next]_vars

\* Goroutines and the browser's event loop are scheduled; nothing obliges
\* anybody to publish, the reaper to find stale connections or faults to happen.
Fairness == /\ \A c \in Conns : WF_vars(Handler(c))
            /\ WF_vars(Client)

FairSpec == Spec /\ Fairness

----------------------------------------------------------------------------
(* Properties. *)

\* A WebConn has a claim on its queues from the moment CheckConn or NewWebConn
\* gave them to it until it is neither running nor in the index.
Running(c) == pc[c] \in {"registered", "pump", "ended"}
Holds(c) == Running(c) \/ pc[c] = "checked" \/ c \in index

\* A send channel and its dead queue belong to one WebConn at a time, over any
\* number of reconnects: two write pumps on one channel would split its events
\* between two sockets, and race on the dead queue, which has no lock.
SingleOwner ==
  \A c, d \in Conns : Holds(c) /\ Holds(d) /\ queue[c] = queue[d] => c = d

\* The hub never sends on, closes again, or hands over a closed channel: either
\* of the first two would panic and lose the whole index (web_hub.go:800).
NoSendOnClosed ==
  \A c \in Conns : c \in index \/ pc[c] = "checked" => ~ closed[queue[c]]

\* A client is never ahead of the queues kept for its connection ID: if it were,
\* hasMsgLoss or isInDeadQueue would answer about numbers not given out yet.
NeverAhead ==
  \A d \in index :
    connectionID[d] = connectionId /\ ~ active[d] =>
      LET dq == deadQueue[queue[d]]
      IN  \E i \in Slots : dq[i] # Nil /\ serverSequence <= dq[i].seq + 1

\* Under one connection ID the client is given the events in the order they
\* were published and none of them twice, however often it reconnects, whatever
\* was replayed, and whatever was read late from a broken socket.
InOrderOnce ==
  [][OnEvent => lastEvent' > lastEvent]_vars

\* An event can only be passed over, without the client noticing, if it was
\* published while the client's queue was between CheckConn and Register, or
\* could not be encoded. Anything else is replayed or leads to a resync.
NoSilentLoss ==
  [][OnEvent => (view + 1 .. view' - 1) \subseteq missed[queue[conn]]]_vars

\* hasMsgLoss "indicates whether the next wanted sequence is right after the
\* latest element in the dead queue, which would mean there is no message loss"
\* (web_conn.go:666): a client is never led past an event it did not get.
NoMessageLoss == gaps = {}

\* The application sees an event stream: in order and gapless, or resynced.
Stream == INSTANCE EventStream WITH lost <- UNION {missed[q] : q \in Conns}
ImplementsEventStream == Stream!Spec

\* Every event gets to the client, directly, by replay or by a resync, unless it
\* fell into the handover of its queue (or could not be encoded).
EventuallySeen ==
  \A n \in 1 .. MaxEvents :
    published >= n ~> view >= n \/ (conn # NoConn /\ n \in missed[queue[conn]])
=============================================================================
