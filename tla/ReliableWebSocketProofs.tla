---------------------- MODULE ReliableWebSocketProofs ----------------------
(***************************************************************************)
(* Proofs about ReliableWebSocket, for any number of handshakes, events    *)
(* and faults of any kind and any queue sizes. A send channel has one      *)
(* owner at a time, and the hub never uses a closed one. The dead queue of *)
(* a WebConn is a ring of numbers that begin with the hello message's 0    *)
(* and are consecutive up to the first event that could not be encoded,    *)
(* which leaves a gap: on this rest the types, and that the client is      *)
(* never ahead of the queues kept for it.                                  *)
(***************************************************************************)
EXTENDS ReliableWebSocket, DeadQueueRing, TLAPS

----------------------------------------------------------------------------
(* Who owns a queue. *)

\* The part of the types the argument needs.
OwnerTypes ==
  /\ pc \in [Conns -> PCs]
  /\ index \subseteq Conns
  /\ active \in [Conns -> BOOLEAN]
  /\ queue \in [Conns -> Conns]
  /\ closed \in [Conns -> BOOLEAN]

\* What CheckConn relies on when it looks at Active alone: a running WebConn is
\* active. And a WebConn gets into the index by Register only.
ActiveWhileRunning == \A c \in Conns : Running(c) => active[c] = TRUE
IndexedIsStarted == \A c \in index : Running(c) \/ pc[c] = "gone"

\* Before CheckConn a WebConn has queues nobody else has, and they are open.
Waiting(c) == pc[c] \in {"unused", "handshake"}
WaitingHasOwnQueue ==
  \A c \in Conns : Waiting(c) =>
    /\ queue[c] = c
    /\ closed[c] = FALSE
    /\ \A d \in Conns : queue[d] = c => d = c

OwnersHaveOpenQueues ==
  \A c \in Conns : c \in index \/ pc[c] = "checked" => closed[queue[c]] = FALSE

OwnerInv ==
  /\ OwnerTypes
  /\ ActiveWhileRunning
  /\ IndexedIsStarted
  /\ WaitingHasOwnQueue
  /\ SingleOwner
  /\ OwnersHaveOpenQueues

LEMMA InitOwnerInv == Init => OwnerInv
  BY DEF Init, OwnerInv, OwnerTypes, ActiveWhileRunning, IndexedIsStarted,
         WaitingHasOwnQueue, Waiting, SingleOwner, Holds, Running,
         OwnersHaveOpenQueues, PCs

\* Steps that leave the five variables of the invariant alone keep it.
LEMMA StutterOwnerInv ==
  ASSUME OwnerInv, UNCHANGED <<pc, index, active, queue, closed>>
  PROVE  OwnerInv'
  BY DEF OwnerInv, OwnerTypes, ActiveWhileRunning, IndexedIsStarted,
         WaitingHasOwnQueue, Waiting, SingleOwner, Holds, Running,
         OwnersHaveOpenQueues

\* The index may lose entries at any time.
LEMMA ShrinkOwnerInv ==
  ASSUME OwnerInv, index' \subseteq index, UNCHANGED <<pc, active, queue, closed>>
  PROVE  OwnerInv'
  BY DEF OwnerInv, OwnerTypes, ActiveWhileRunning, IndexedIsStarted,
         WaitingHasOwnQueue, Waiting, SingleOwner, Holds, Running,
         OwnersHaveOpenQueues

LEMMA NextOwnerInv == OwnerInv /\ [Next]_vars => OwnerInv'
<1> SUFFICES ASSUME OwnerInv, [Next]_vars PROVE OwnerInv'
  OBVIOUS
<1> USE DEF OwnerInv, OwnerTypes, ActiveWhileRunning, IndexedIsStarted,
            WaitingHasOwnQueue, Waiting, SingleOwner, Holds, Running,
            OwnersHaveOpenQueues, PCs
<1>1. ASSUME NEW c \in Conns, FreshConn(c) PROVE OwnerInv'
  BY <1>1 DEF FreshConn
<1>2. ASSUME NEW c \in Conns, ResumeConn(c) PROVE OwnerInv'
  <2>1. PICK d \in Resumable(request[c].id) :
          /\ index' = index \ {d}
          /\ queue' = [queue EXCEPT ![c] = queue[d]]
    BY <1>2 DEF ResumeConn
  <2>2. d \in index /\ ~ active[d] /\ d \in Conns
    BY <2>1 DEF Resumable
  <2>3. pc[d] = "gone" /\ pc[c] = "handshake" /\ c # d /\ c \notin index
    BY <1>2, <2>2 DEF ResumeConn
  <2>4. /\ pc' = [pc EXCEPT ![c] = "checked"]
        /\ active' = [active EXCEPT ![c] = FALSE]
        /\ closed' = closed
    BY <1>2 DEF ResumeConn
  <2>5. OwnerTypes' /\ ActiveWhileRunning' /\ IndexedIsStarted'
    BY <2>1, <2>2, <2>3, <2>4
  <2>6. WaitingHasOwnQueue'
    BY <2>1, <2>2, <2>3, <2>4
  <2>7. SingleOwner'
    BY <2>1, <2>2, <2>3, <2>4
  <2>8. OwnersHaveOpenQueues'
    BY <2>1, <2>2, <2>3, <2>4
  <2> QED BY <2>5, <2>6, <2>7, <2>8
<1>3. ASSUME NEW c \in Conns, Register(c) PROVE OwnerInv'
  BY <1>3 DEF Register
<1>4. ASSUME NEW c \in Conns, RegisterFails(c) PROVE OwnerInv'
  BY <1>4 DEF RegisterFails
<1>5. ASSUME NEW c \in Conns, StartPump(c) PROVE OwnerInv'
  <2>1. UNCHANGED <<index, active, queue, closed>> /\ pc[c] = "registered"
    BY <1>5 DEF StartPump
  <2>2. pc' = [pc EXCEPT ![c] = "pump"] \/ pc' = [pc EXCEPT ![c] = "ended"]
    BY <1>5 DEF StartPump
  <2> QED BY <2>1, <2>2
<1>6. ASSUME NEW c \in Conns, PumpMessage(c) PROVE OwnerInv'
  <2>1. UNCHANGED <<index, active, queue, closed>> /\ pc[c] = "pump"
    BY <1>6 DEF PumpMessage
  <2>2. pc' = pc \/ pc' = [pc EXCEPT ![c] = "ended"]
    BY <1>6 DEF PumpMessage
  <2> QED BY <2>1, <2>2
<1>7. ASSUME NEW c \in Conns, PumpEncodeError(c) PROVE OwnerInv'
  BY <1>7, StutterOwnerInv DEF PumpEncodeError
<1>8. ASSUME NEW c \in Conns, PumpClosed(c) PROVE OwnerInv'
  BY <1>8 DEF PumpClosed
<1>9. ASSUME NEW c \in Conns, PumpEnd(c) PROVE OwnerInv'
  BY <1>9 DEF PumpEnd
<1>10. ASSUME NEW c \in Conns, Unregister(c) PROVE OwnerInv'
  BY <1>10 DEF Unregister
<1>11. CASE Broadcast
  <2> DEFINE full == {d \in index : ~ HasRoom(d)}
  <2>1. /\ index' = index \ full
        /\ closed' = [q \in Conns |-> closed[q] \/ \E d \in full : queue[d] = q]
        /\ UNCHANGED <<pc, active, queue>>
    BY <1>11 DEF Broadcast
  <2>2. full \subseteq index
    OBVIOUS
  <2> HIDE DEF full
  <2>3. OwnerTypes' /\ ActiveWhileRunning' /\ IndexedIsStarted' /\ SingleOwner'
    BY <2>1, <2>2
  <2>4. WaitingHasOwnQueue'
    BY <2>1, <2>2
  <2>5. OwnersHaveOpenQueues'
    BY <2>1, <2>2
  <2> QED BY <2>3, <2>4, <2>5
<1>12. CASE Reap
  BY <1>12, ShrinkOwnerInv DEF Reap
<1>13. CASE HubPanic
  BY <1>13, ShrinkOwnerInv DEF HubPanic
<1>14. CASE ServerRestart
  BY <1>14 DEF ServerRestart
<1>15. CASE Break
  BY <1>15, StutterOwnerInv DEF Break, serverVars
<1>16. CASE Connect
  BY <1>16 DEF Connect
<1>17. CASE OnClose \/ PingTimeout \/ OnHello \/ OnEvent \/ OnWrongSequence
  BY <1>17, StutterOwnerInv
     DEF OnClose, PingTimeout, OnHello, OnEvent, OnWrongSequence, serverVars
<1>18. CASE UNCHANGED vars
  BY <1>18, StutterOwnerInv DEF vars, serverVars
<1> QED
  BY <1>1, <1>2, <1>3, <1>4, <1>5, <1>6, <1>7, <1>8, <1>9, <1>10, <1>11, <1>12,
     <1>13, <1>14, <1>15, <1>16, <1>17, <1>18
     DEF Next, Handler, Client, Failures

\* A send channel and its dead queue have one owner: CheckConn hands them over
\* only when the WebConn that had them has ended both its pumps.
THEOREM SingleOwnerTheorem == Spec => []SingleOwner
<1>1. OwnerInv => SingleOwner
  BY DEF OwnerInv
<1> QED BY InitOwnerInv, NextOwnerInv, <1>1, PTL DEF Spec

\* The hub never sends on a closed channel, closes one twice or hands one over.
THEOREM NoSendOnClosedTheorem == Spec => []NoSendOnClosed
<1>1. OwnerInv => NoSendOnClosed
  BY DEF OwnerInv, OwnersHaveOpenQueues, NoSendOnClosed
<1> QED BY InitOwnerInv, NextOwnerInv, <1>1, PTL DEF Spec

----------------------------------------------------------------------------
(* The numbers. *)

Queues == [Slots -> SentMessage \cup {Nil}]

----------------------------------------------------------------------------
(* One dead queue and one socket. *)

\* An event that cannot be encoded leaves a gap in the numbers of its queue. A
\* dead queue that got g messages before the first gap, and one that got more.
KeptRing(dq, ptr, g) == \E n \in Nat : FrayedRing(dq, ptr, n, g)
Frayed(dq, g) == \E i \in Slots : Taken(dq, i) /\ NumberAt(dq, i) > g

\* Message 0 of a queue, or of a socket, is a hello message, and no other is.
HelloIsZero(dq) == \A i \in Slots : Taken(dq, i) => (dq[i].id # NoId <=> dq[i].seq = 0)
HelloFirst(w) == \A k \in DOMAIN w : /\ w[k].id # NoId => k = 1
                                     /\ w[k].id # NoId <=> w[k].seq = 0

\* The messages of a socket a client that expects number s will read.
InStep(w, s) == {k \in DOMAIN w : \A j \in 1 .. k : w[j].seq = s + j - 1}

\* A socket has messages s .. n - 1, and if it has more, they are past a gap.
HasAll(w, s, n) ==
  /\ s <= n /\ n - s <= Len(w)
  /\ \A k \in 1 .. n - s : w[k].seq = s + k - 1
  /\ Len(w) > n - s => w[n - s + 1].seq > n

\* Messages not numbered yet: a hello message is the first of the connection.
HelloUnnumbered(ch, n, id) ==
  \A k \in DOMAIN ch : IF ch[k].id # NoId THEN k = 1 /\ n = 0 /\ ch[k].id = id
                                         ELSE ch[k].pub # 0
HelloNext(ch) == ch # <<>> /\ Head(ch).id # NoId

\* The connection ID the messages of a socket belong to.
StreamOf(w, id) == IF w # <<>> /\ Head(w).id # NoId THEN Head(w).id ELSE id

LEMMA FunctionSequence ==
  ASSUME NEW S, NEW n \in Nat, NEW f \in [1 .. n -> S]
  PROVE  f \in Seq(S) /\ Len(f) = n /\ DOMAIN f = 1 .. n
  OBVIOUS

\* Which messages a ring was given is to be seen in it.
LEMMA FrayedIsPast ==
  ASSUME NEW dq, NEW ptr, NEW n, NEW g, FrayedRing(dq, ptr, n, g)
  PROVE  Frayed(dq, g) <=> g < n
<1>1. n \in Nat /\ g \in Nat /\ g <= n
  BY DEF FrayedRing
<1>2. g < n => Frayed(dq, g)
  BY FrayedLast DEF Frayed
<1>3. ASSUME NEW i \in Slots, Taken(dq, i), NumberAt(dq, i) > g
      PROVE  g < n
  BY <1>1, <1>3, FrayedSlots
<1> QED BY <1>2, <1>3 DEF Frayed

LEMMA RingIsKept ==
  ASSUME NEW dq, NEW ptr, NEW g
  PROVE  Ring(dq, ptr, g, 0) <=> KeptRing(dq, ptr, g) /\ ~ Frayed(dq, g)
<1>1. ASSUME Ring(dq, ptr, g, 0)
      PROVE  KeptRing(dq, ptr, g) /\ ~ Frayed(dq, g)
  <2>1. FrayedRing(dq, ptr, g, g) /\ g \in Nat
    BY <1>1, UnfrayedRing DEF Ring
  <2>2. ~ (g < g)
    BY <2>1
  <2> QED BY <2>1, <2>2, FrayedIsPast DEF KeptRing
<1>2. ASSUME KeptRing(dq, ptr, g), ~ Frayed(dq, g)
      PROVE  Ring(dq, ptr, g, 0)
  <2>1. PICK n \in Nat : FrayedRing(dq, ptr, n, g)
    BY <1>2 DEF KeptRing
  <2>2. ~ (g < n)
    BY <1>2, <2>1, FrayedIsPast
  <2>3. g \in Nat /\ g <= n
    BY <2>1 DEF FrayedRing
  <2>4. n = g
    BY <2>2, <2>3
  <2> QED BY <2>1, <2>4, UnfrayedRing
<1> QED BY <1>1, <1>2

LEMMA KeptRingTypes ==
  ASSUME NEW dq, NEW ptr, NEW g, KeptRing(dq, ptr, g)
  PROVE  ptr \in Slots /\ g \in Nat
  BY DEF KeptRing, FrayedRing

\* A message goes to a ring: the next one, or one past a gap.
LEMMA AddKeeps ==
  ASSUME NEW dq, NEW ptr, NEW g, KeptRing(dq, ptr, g), NEW msg, msg # Nil, msg.seq \in Nat,
         NEW dq2, dq2 = AddToDeadQueue(dq, ptr, msg), NEW ptr2, ptr2 = NextSlot(ptr)
  PROVE  /\ msg.seq = g /\ ~ Frayed(dq, g) =>
              KeptRing(dq2, ptr2, g + 1) /\ ~ Frayed(dq2, g + 1)
         /\ msg.seq > g => KeptRing(dq2, ptr2, g) /\ Frayed(dq2, g)
<1>1. ASSUME msg.seq = g, ~ Frayed(dq, g)
      PROVE  KeptRing(dq2, ptr2, g + 1) /\ ~ Frayed(dq2, g + 1)
  <2>1. Ring(dq, ptr, g, 0)
    BY <1>1, RingIsKept
  <2>2. Ring(dq2, ptr2, g + 1, 0)
    BY <1>1, <2>1, AddKeepsRing
  <2> QED BY <2>2, RingIsKept
<1>2. ASSUME msg.seq > g
      PROVE  KeptRing(dq2, ptr2, g) /\ Frayed(dq2, g)
  <2>1. PICK n \in Nat : FrayedRing(dq, ptr, n, g)
    BY DEF KeptRing
  <2>2. FrayedRing(dq2, ptr2, n + 1, g)
    BY <1>2, <2>1, AddFrays
  <2>3. g < n + 1
    BY <2>1 DEF FrayedRing
  <2>4. Frayed(dq2, g)
    BY <2>2, <2>3, FrayedIsPast
  <2>5. n + 1 \in Nat
    OBVIOUS
  <2> QED BY <2>2, <2>4, <2>5 DEF KeptRing
<1> QED BY <1>1, <1>2

\* What is replayed from a ring: the messages from s on, in the order of the
\* ring, up to the newest or, past a gap, to where the numbers first fall.
LEMMA DrainsKept ==
  ASSUME NEW dq, NEW ptr, NEW n, NEW g, FrayedRing(dq, ptr, n, g),
         NEW s \in Nat, s <= g, IsInDeadQueue(dq, s)
  PROVE  /\ s < g /\ s >= n - deadQueueSize
         /\ \E m \in Nat :
              /\ m >= g - s /\ m <= n - s
              /\ g < n => m > g - s
              /\ DrainDeadQueue(dq, ptr, IndexOf(dq, s)) = RingPart(dq, ptr, n, s, m)
<1>1. /\ s < g /\ s >= n - deadQueueSize
      /\ IndexOf(dq, s) = SlotOf(ptr, n, s)
  BY FindsFrayed
<1>2. n \in Nat /\ g \in Nat /\ g <= n
  BY DEF FrayedRing
<1>3. CASE g < n
  <2>1. PICK m \in Nat :
          /\ m > g - s /\ m <= n - s
          /\ DrainDeadQueue(dq, ptr, SlotOf(ptr, n, s)) = RingPart(dq, ptr, n, s, m)
    BY <1>1, <1>3, DrainsFrayed DEF RingPart
  <2>2. m >= g - s
    BY <1>2, <2>1
  <2> QED BY <1>1, <2>1, <2>2
<1>4. CASE g = n
  <2>1. Ring(dq, ptr, n, 0)
    BY <1>4, UnfrayedRing
  <2>2. DrainDeadQueue(dq, ptr, IndexOf(dq, s)) = RingTail(dq, ptr, n, s)
    BY <2>1, DrainsTail
  <2> DEFINE m == n - s
  <2>3. /\ m \in Nat /\ m >= g - s /\ m <= n - s /\ ~ (g < n)
        /\ DrainDeadQueue(dq, ptr, IndexOf(dq, s)) = RingPart(dq, ptr, n, s, m)
    BY <1>1, <1>2, <1>4, <2>2 DEF RingTail, RingPart
  <2> HIDE DEF m
  <2> QED BY <1>1, <2>3
<1> QED BY <1>2, <1>3, <1>4

\* A message of a replay is one of the ring, with its number up to the gap.
LEMMA DrainedMessage ==
  ASSUME NEW dq \in Queues, NEW ptr, NEW n, NEW g, FrayedRing(dq, ptr, n, g), HelloIsZero(dq),
         NEW t \in Nat, t # 0, t < n, t >= n - deadQueueSize
  PROVE  \E i \in Slots :
           /\ Taken(dq, i)
           /\ dq[SlotOf(ptr, n, t)] = dq[i]
           /\ dq[i] \in SentMessage /\ dq[i].id = NoId
           /\ t < g => dq[i].seq = t
           /\ t >= g => dq[i].seq > g
<1>1. n \in Nat /\ g \in Nat
  BY DEF FrayedRing
<1> DEFINE i == SlotOf(ptr, n, t)
<1>2. /\ i \in Slots /\ Taken(dq, i) /\ NumberAt(dq, i) \in Nat
      /\ t < g => NumberAt(dq, i) = t
      /\ t >= g => NumberAt(dq, i) > g
  BY FrayedPlaces
<1> HIDE DEF i
<1>3. NumberAt(dq, i) # 0
  BY <1>1, <1>2
<1>4. /\ dq[i] \in SentMessage /\ dq[i].id = NoId
      /\ t < g => dq[i].seq = t
      /\ t >= g => dq[i].seq > g
  BY <1>2, <1>3 DEF Taken, NumberAt, Queues, HelloIsZero
<1> QED BY <1>2, <1>4 DEF i

\* What the prologue of writePump does on a ring for a client that expects
\* message s. Either the ring stays and the rest of it is sent; or the
\* numbering starts over with a hello message.
LEMMA PrologueOnRing ==
  ASSUME NEW dq \in Queues, NEW ptr \in Slots, NEW g \in Nat, KeptRing(dq, ptr, g),
         HelloIsZero(dq), NEW s \in Nat, s # 0, s <= g,
         NEW hello \in SentMessage, hello.seq = 0, hello.id # NoId,
         NEW r, r = Prologue(dq, ptr, s, hello)
  PROVE  /\ r.queue \in Queues /\ r.pointer \in Slots /\ r.sequence \in Nat
         /\ r.sent \in Seq(SentMessage)
         /\ HelloIsZero(r.queue)
         /\ HelloFirst(r.sent)
         /\ r.outcome = "notFound" =>
              /\ r.sequence = 1 /\ r.sent = <<hello>>
              /\ KeptRing(r.queue, r.pointer, 1) /\ ~ Frayed(r.queue, 1)
         /\ r.outcome # "notFound" =>
              /\ r.queue = dq /\ r.pointer = ptr
              /\ r.sequence >= g /\ (Frayed(dq, g) => r.sequence > g)
              /\ \A k \in DOMAIN r.sent : r.sent[k].id = NoId
              /\ HasAll(r.sent, s, g)
<1>0. PICK n \in Nat : FrayedRing(dq, ptr, n, g)
  BY DEF KeptRing
<1>00. /\ g <= n
       /\ Frayed(dq, g) <=> g < n
  BY <1>0, FrayedIsPast DEF FrayedRing
<1>1. CASE IsInDeadQueue(dq, s)
  <2>1. /\ s < g /\ s >= n - deadQueueSize
        /\ \E m \in Nat :
             /\ m >= g - s /\ m <= n - s
             /\ g < n => m > g - s
             /\ DrainDeadQueue(dq, ptr, IndexOf(dq, s)) = RingPart(dq, ptr, n, s, m)
    BY <1>0, <1>1, DrainsKept
  <2>2. PICK m \in Nat :
          /\ m >= g - s /\ m <= n - s
          /\ g < n => m > g - s
          /\ DrainDeadQueue(dq, ptr, IndexOf(dq, s)) = RingPart(dq, ptr, n, s, m)
    BY <2>1
  <2> DEFINE tail == [k \in 1 .. m |-> dq[SlotOf(ptr, n, s + k - 1)]]
  <2>3. ASSUME NEW k \in 1 .. m
        PROVE  /\ tail[k] \in SentMessage
               /\ tail[k].id = NoId /\ tail[k].seq # 0
               /\ s + k - 1 < g => tail[k].seq = s + k - 1
               /\ s + k - 1 >= g => tail[k].seq > g
    <3>1. PICK i \in Slots : /\ dq[SlotOf(ptr, n, s + k - 1)] = dq[i]
                             /\ dq[i] \in SentMessage /\ dq[i].id = NoId
                             /\ s + k - 1 < g => dq[i].seq = s + k - 1
                             /\ s + k - 1 >= g => dq[i].seq > g
      <4> DEFINE t == s + k - 1
      <4>1. n \in Nat /\ s \in Nat /\ deadQueueSize \in Nat
        BY <1>0, DeadQueueSizeAssumption DEF FrayedRing
      <4>2. t \in Nat /\ t # 0 /\ t < n /\ t >= n - deadQueueSize
        BY <2>1, <2>2, <4>1
      <4> HIDE DEF t
      <4>3. \E i \in Slots : /\ dq[SlotOf(ptr, n, t)] = dq[i]
                             /\ dq[i] \in SentMessage /\ dq[i].id = NoId
                             /\ t < g => dq[i].seq = t
                             /\ t >= g => dq[i].seq > g
        BY <1>0, <4>2, DrainedMessage
      <4> QED BY <4>3 DEF t
    <3>2. tail[k] = dq[i]
      BY <3>1
    <3>3. s + k - 1 \in Nat /\ s + k - 1 # 0
      OBVIOUS
    <3> HIDE DEF tail
    <3> QED BY <3>1, <3>2, <3>3
  <2>4. Len(tail) = m /\ DOMAIN tail = 1 .. m /\ tail \in Seq(SentMessage)
    <3>1. tail = [k \in 1 .. m |-> tail[k]]
      OBVIOUS
    <3> HIDE DEF tail
    <3>2. tail \in [1 .. m -> SentMessage]
      BY <2>3, <3>1
    <3> QED BY <3>2, FunctionSequence
  <2>5. r = [queue |-> dq, pointer |-> ptr, sequence |-> s + Len(tail),
             sent |-> tail, outcome |-> "found"]
    BY <1>1, <2>2 DEF Prologue, RingPart
  <2> HIDE DEF tail
  <2>6. s + Len(tail) \in Nat /\ s + Len(tail) >= g /\ (g < n => s + Len(tail) > g)
    BY <2>1, <2>2, <2>4
  <2>7. HasAll(tail, s, g)
    <3>1. g - s <= Len(tail) /\ s <= g
      BY <2>1, <2>2, <2>4
    <3>2. ASSUME NEW k \in 1 .. g - s PROVE tail[k].seq = s + k - 1
      <4>1. k \in 1 .. m /\ s + k - 1 < g
        BY <2>1, <2>2
      <4> QED BY <2>3, <4>1
    <3>3. Len(tail) > g - s => tail[g - s + 1].seq > g
      <4> SUFFICES ASSUME Len(tail) > g - s PROVE tail[g - s + 1].seq > g
        OBVIOUS
      <4> DEFINE k == g - s + 1
      <4>1. k \in 1 .. m /\ s + k - 1 >= g
        BY <2>1, <2>2, <2>4
      <4> HIDE DEF k
      <4>2. tail[k].seq > g
        BY <2>3, <4>1
      <4> QED BY <4>2 DEF k
    <3> QED BY <3>1, <3>2, <3>3 DEF HasAll
  <2>8. HelloFirst(tail)
    BY <2>3, <2>4 DEF HelloFirst
  <2> QED BY <1>00, <2>3, <2>4, <2>5, <2>6, <2>7, <2>8
<1>2. CASE ~ IsInDeadQueue(dq, s) /\ HasMsgLoss(dq, ptr, s)
  <2> DEFINE dq2 == AddToDeadQueue(EmptyDeadQueue, 0, hello)
             ptr2 == NextSlot(0)
  <2>1. r = [queue |-> dq2, pointer |-> ptr2, sequence |-> 1,
             sent |-> <<hello>>, outcome |-> "notFound"]
    BY <1>0, <1>2, ClearsFrayed DEF Prologue
  <2>2. hello # Nil /\ 0 \in Slots
    BY NilAssumption, DeadQueueSizeAssumption DEF Slots
  <2>3. Ring(EmptyDeadQueue, 0, 0, 0)
    BY EmptyRing
  <2>4. Ring(dq2, ptr2, 0 + 1, 0)
    BY <2>2, <2>3, AddKeepsRing
  <2>5. dq2 = [i \in Slots |-> IF i = 0 THEN hello ELSE Nil]
    BY DEF AddToDeadQueue, EmptyDeadQueue
  <2>6. dq2 \in Queues
    BY <2>5 DEF Queues
  <2>7. HelloIsZero(dq2)
    BY <2>5 DEF HelloIsZero, Taken
  <2>8. ptr2 \in Slots /\ KeptRing(dq2, ptr2, 1) /\ ~ Frayed(dq2, 1)
    BY <2>4, RingIsKept DEF Ring
  <2> HIDE DEF dq2, ptr2
  <2> QED BY <2>1, <2>6, <2>7, <2>8 DEF HelloFirst
<1>3. CASE ~ IsInDeadQueue(dq, s) /\ ~ HasMsgLoss(dq, ptr, s)
  <2>1. n = g
    BY <1>0, <1>00, <1>3, FrayedLast
  <2>2. s = g
    <3>1. Ring(dq, ptr, n, 0)
      BY <1>0, <2>1, UnfrayedRing
    <3> QED BY <1>3, <2>1, <3>1, SeesLast
  <2>3. r = [queue |-> dq, pointer |-> ptr, sequence |-> s,
             sent |-> <<>>, outcome |-> "lossless"]
    BY <1>3 DEF Prologue
  <2>4. \A k \in DOMAIN r.sent : FALSE
    BY <2>3
  <2>5. r.sent \in Seq(SentMessage)
    BY <2>3
  <2>6. HasAll(r.sent, s, g)
    BY <2>2, <2>3 DEF HasAll
  <2> QED BY <1>00, <2>1, <2>2, <2>3, <2>4, <2>5, <2>6 DEF HelloFirst
<1> QED BY <1>1, <1>2, <1>3

\* Every message that is sent again counts.
LEMMA PrologueCounts ==
  ASSUME NEW dq, NEW ptr, NEW s \in Nat, NEW hello,
         NEW r, r = Prologue(dq, ptr, s, hello), r.outcome # "notFound"
  PROVE  r.sequence = s + Len(r.sent)
<1>1. CASE IsInDeadQueue(dq, s)
  <2> DEFINE drained == DrainDeadQueue(dq, ptr, IndexOf(dq, s))
  <2>1. r = [queue |-> dq, pointer |-> ptr, sequence |-> s + Len(drained),
             sent |-> drained, outcome |-> "found"]
    BY <1>1 DEF Prologue
  <2> HIDE DEF drained
  <2> QED BY <2>1
<1>2. CASE ~ IsInDeadQueue(dq, s)
  <2>1. ~ HasMsgLoss(dq, ptr, s)
    BY <1>2 DEF Prologue
  <2>2. r.sequence = s /\ r.sent = <<>>
    BY <1>2, <2>1 DEF Prologue
  <2> QED BY <2>2
<1> QED BY <1>1, <1>2

----------------------------------------------------------------------------
(* The inductive invariant. *)

\* The WebConns with a claim on their queues, the number of messages the dead
\* queue of each got before the first gap, the connection ID the client is, or
\* will be once it has read a hello message that is on the way, under, and the
\* number it expects on its socket.
Holders == {c \in Conns : Holds(c)}
Written == [c \in Conns |-> written[queue[c]]]
WireId == IF conn = NoConn THEN connectionId ELSE StreamOf(wire[conn], connectionId)
Start == IF WireId = connectionId THEN serverSequence ELSE 0

\* Before its pumps start, a WebConn has written nothing and, unless it took
\* queues over, has nothing to write but the hello message.
FreshInv ==
  \A c \in Conns :
    /\ Waiting(c) =>
         /\ reused[c] = FALSE /\ Sequence[c] = 0 /\ deadQueuePointer[c] = 0
         /\ deadQueue[c] = EmptyDeadQueue /\ send[c] = <<>> /\ written[c] = 0
    /\ pc[c] \in {"checked", "registered"} /\ ~ reused[c] =>
         /\ Sequence[c] = 0 /\ Written[c] = 0
         /\ ~ Frayed(deadQueue[queue[c]], 0)
    /\ pc[c] = "checked" /\ ~ reused[c] => send[queue[c]] = <<>>
    /\ Waiting(c) \/ pc[c] \in {"checked", "registered"} => wire[c] = <<>>

\* Only the client's socket is intact or has anything on it; the request of the
\* handshake under way is what the client asked for last.
LinkInv ==
  /\ \A c \in Conns : linked[c] \/ wire[c] # <<>> => c = conn
  /\ conn # NoConn => pc[conn] # "unused"
  /\ conn # NoConn /\ pc[conn] \in {"handshake", "checked", "registered"} =>
       request[conn].id = connectionId /\ request[conn].seq = serverSequence

\* Connection IDs were given out, each to one WebConn at a time. A number goes
\* with a connection ID, and a WebConn that took queues over begins at it.
IdInv ==
  /\ connectionId <= lastId /\ WireId <= lastId
  /\ connectionId # NoId => serverSequence # 0
  /\ connectionId = NoId => serverSequence = 0
  /\ \A c \in Conns : /\ request[c].id <= lastId
                      /\ request[c].id # NoId => request[c].seq # 0
  /\ \A c \in Holders : connectionID[c] # NoId /\ connectionID[c] <= lastId
  /\ \A c, d \in Holders : connectionID[c] = connectionID[d] => c = d
  /\ \A c \in Conns : pc[c] \in {"checked", "registered"} /\ reused[c] =>
       /\ connectionID[c] = request[c].id /\ request[c].id # NoId
       /\ Sequence[c] = request[c].seq

\* The dead queues are rings, and the number of writePump's next message is new.
RingsInv ==
  \A c \in Holders :
    /\ KeptRing(deadQueue[queue[c]], deadQueuePointer[c], Written[c])
    /\ HelloIsZero(deadQueue[queue[c]])
    /\ pc[c] = "pump" =>
         /\ Sequence[c] >= Written[c]
         /\ Frayed(deadQueue[queue[c]], Written[c]) => Sequence[c] > Written[c]

\* What is to be written first is the hello message.
ChanInv ==
  \A c \in Holders :
    /\ HelloUnnumbered(send[queue[c]], Written[c], connectionID[c])
    /\ Written[c] = 0 /\ pc[c] # "checked" => HelloNext(send[queue[c]])
    /\ Written[c] = 0 /\ pc[c] = "pump" => Sequence[c] = 0

\* Nobody expects, or asked for, a number past the gap.
AheadInv ==
  \A d \in Holders :
    /\ connectionID[d] = connectionId => serverSequence <= Written[d]
    /\ \A c \in Conns : connectionID[d] = request[c].id => request[c].seq <= Written[d]

\* What is on the client's socket was written under one connection ID, and once
\* the WebConn at its other end wrote anything, under its own. What the client
\* will read of it has no gap; and an intact socket has all of that.
WireInv ==
  conn # NoConn =>
    /\ HelloFirst(wire[conn])
    /\ \A d \in Holders : connectionID[d] = WireId =>
         \A k \in InStep(wire[conn], Start) : wire[conn][k].seq < Written[d]
    /\ linked[conn] /\ pc[conn] = "pump" =>
         IF Written[conn] = 0
           THEN wire[conn] = <<>>
           ELSE /\ WireId = connectionID[conn] /\ HasAll(wire[conn], Start, Written[conn])
                /\ Sequence[conn] = Written[conn] => Len(wire[conn]) = Written[conn] - Start

NumberInv ==
  FreshInv /\ LinkInv /\ IdInv /\ RingsInv /\ ChanInv /\ AheadInv /\ WireInv

LEMMA InitTypeOK == Init => TypeOK
  BY MaxConnsAssumption, MaxEventsAssumption, MaxFaultsAssumption, DeadQueueSizeAssumption
     DEF Init, TypeOK, PCs, EmptyDeadQueue, Slots, Conns, NoId, NoConn

LEMMA InitNumberInv == Init => NumberInv
<1> SUFFICES ASSUME Init PROVE NumberInv
  OBVIOUS
<1>1. Holders = {}
  BY DEF Init, Holders, Holds, Running
<1>2. FreshInv /\ LinkInv
  BY DEF Init, FreshInv, Waiting, LinkInv
<1>3. IdInv
  BY <1>1 DEF Init, IdInv, WireId, NoId
<1>4. RingsInv /\ ChanInv /\ AheadInv /\ WireInv
  BY <1>1 DEF Init, RingsInv, ChanInv, AheadInv, WireInv
<1> QED BY <1>2, <1>3, <1>4 DEF NumberInv

\* A WebConn that gives its claim up, or a socket that breaks, disturbs nothing.
LEMMA WeakerKeepsNumberInv ==
  ASSUME NumberInv, TypeOK, TypeOK',
         \A c \in Holders' : c \in Holders,
         \A c \in Conns :
           pc'[c] = pc[c] \/ (pc'[c] \in {"ended", "gone"} /\ pc[c] # "unused"),
         \A c \in Holders' : pc'[c] = "checked" => pc[c] = "checked",
         \A c \in Holders' : pc[c] = "checked" => pc'[c] = "checked",
         \A c \in Conns : linked'[c] => linked[c],
         UNCHANGED <<request, connectionID, Sequence, reused, queue,
                     deadQueuePointer, send, deadQueue, lastId, wire, conn,
                     connectionId, serverSequence, written>>
  PROVE  NumberInv'
<1>1. Written' = Written /\ WireId' = WireId /\ Start' = Start
  BY DEF Written, WireId, Start
<1> USE DEF NumberInv
<1>2. FreshInv'
  <2>1. \A c \in Conns : /\ Waiting(c)' => Waiting(c)
                         /\ pc'[c] \in {"checked", "registered"} => pc'[c] = pc[c]
    BY DEF Waiting
  <2> QED BY <1>1, <2>1 DEF FreshInv
<1>3. LinkInv'
  BY DEF LinkInv, TypeOK
<1>4. IdInv'
  BY <1>1 DEF IdInv, TypeOK
<1>5. RingsInv'
  BY <1>1 DEF RingsInv, TypeOK, Holders
<1>6. ChanInv'
  <2>1. \A c \in Holders' : /\ c \in Conns /\ c \in Holders
                            /\ pc'[c] = "pump" => pc[c] = "pump"
                            /\ pc'[c] # "checked" => pc[c] # "checked"
    BY DEF Holders
  <2>2. UNCHANGED <<send, queue, connectionID, Sequence>>
    OBVIOUS
  <2> QED BY <1>1, <2>1, <2>2 DEF ChanInv
<1>7. AheadInv'
  BY <1>1 DEF AheadInv, TypeOK
<1>8. WireInv'
  BY <1>1 DEF WireInv, TypeOK
<1> QED BY <1>2, <1>3, <1>4, <1>5, <1>6, <1>7, <1>8

\* Nor does a client that drops its socket.
LEMMA DisconnectKeepsNumberInv ==
  ASSUME NumberInv, TypeOK, TypeOK', conn # NoConn, Disconnect,
         UNCHANGED <<serverVars, connectionId, serverSequence, written>>
  PROVE  NumberInv'
<1>1. Written' = Written /\ Holders' = Holders /\ conn' = NoConn
  BY DEF Written, Holders, Holds, Running, serverVars, Disconnect
<1>2. WireId' = connectionId
  BY <1>1 DEF WireId
<1> USE DEF NumberInv, serverVars
<1>3. ASSUME NEW c \in Conns PROVE linked'[c] = FALSE /\ wire'[c] = <<>>
  BY DEF Disconnect, LinkInv, TypeOK
<1>4. FreshInv'
  BY <1>1, <1>3 DEF FreshInv, Waiting
<1>5. LinkInv'
  BY <1>1, <1>3 DEF LinkInv
<1>6. IdInv'
  BY <1>1, <1>2 DEF IdInv
<1>7. RingsInv' /\ ChanInv' /\ AheadInv'
  BY <1>1 DEF RingsInv, ChanInv, AheadInv
<1>8. WireInv'
  BY <1>1 DEF WireInv
<1> QED BY <1>4, <1>5, <1>6, <1>7, <1>8

----------------------------------------------------------------------------
(* The types. *)

\* A message that is not an event of its own (a hello message) or is one, with a
\* number, is one that travels.
LEMMA NumberedMessage ==
  ASSUME NEW m \in Message, NEW s \in Nat
  PROVE  /\ SetSequence(m, s) \in SentMessage
         /\ SetSequence(m, s).seq = s
         /\ SetSequence(m, s).id = m.id
  BY DEF SetSequence, Message, SentMessage

\* What StartPump does to the queues of its WebConn.
StartOutcome(c) ==
  IF Sequence[c] = 0
    THEN [queue |-> deadQueue[queue[c]], pointer |-> deadQueuePointer[c],
          sequence |-> 0, sent |-> <<>>, outcome |-> "fresh"]
    ELSE Prologue(deadQueue[queue[c]], deadQueuePointer[c], Sequence[c],
                  SetSequence(HelloMsg(lastId + 1), 0))

LEMMA StartOutcomeOnRing ==
  ASSUME TypeOK, NumberInv, NEW c \in Conns, pc[c] = "registered",
         NEW r, r = StartOutcome(c)
  PROVE  /\ r.queue \in Queues /\ r.pointer \in Slots /\ r.sequence \in Nat
         /\ r.sent \in Seq(SentMessage)
         /\ HelloIsZero(r.queue)
         /\ HelloFirst(r.sent)
         /\ r.outcome = "notFound" =>
              /\ reused[c] /\ Written[c] # 0
              /\ r.sequence = 1 /\ Len(r.sent) = 1
              /\ Head(r.sent).id = lastId + 1 /\ Head(r.sent).seq = 0
              /\ KeptRing(r.queue, r.pointer, 1) /\ ~ Frayed(r.queue, 1)
         /\ r.outcome # "notFound" =>
              /\ r.queue = deadQueue[queue[c]] /\ r.pointer = deadQueuePointer[c]
              /\ r.sequence >= Written[c]
              /\ Frayed(deadQueue[queue[c]], Written[c]) => r.sequence > Written[c]
              /\ \A k \in DOMAIN r.sent : r.sent[k].id = NoId
              /\ Written[c] = 0 => r.sequence = 0 /\ r.sent = <<>>
              /\ Written[c] # 0 =>
                   /\ HasAll(r.sent, Sequence[c], Written[c])
                   /\ r.sequence = Written[c] => Len(r.sent) = Written[c] - Sequence[c]
<1>1. c \in Holders /\ queue[c] \in Conns
  BY DEF Holders, Holds, Running, TypeOK
<1>2. /\ deadQueue[queue[c]] \in Queues /\ deadQueuePointer[c] \in Slots
      /\ Sequence[c] \in Nat /\ lastId \in Nat
  BY <1>1 DEF TypeOK, Queues
<1>3. /\ KeptRing(deadQueue[queue[c]], deadQueuePointer[c], Written[c])
      /\ HelloIsZero(deadQueue[queue[c]])
  BY <1>1 DEF NumberInv, RingsInv
<1>4. Written[c] \in Nat
  BY <1>3, KeptRingTypes
<1>5. CASE Sequence[c] = 0
  <2>1. Written[c] = 0
    BY <1>5 DEF NumberInv, FreshInv, IdInv, TypeOK
  <2>2. r = [queue |-> deadQueue[queue[c]], pointer |-> deadQueuePointer[c],
             sequence |-> 0, sent |-> <<>>, outcome |-> "fresh"]
    BY <1>5 DEF StartOutcome
  <2>3. \A k \in DOMAIN r.sent : FALSE
    BY <2>2
  <2>4. r.sent \in Seq(SentMessage)
    BY <2>2
  <2>5. ~ Frayed(deadQueue[queue[c]], 0)
    <3>1. ~ reused[c]
      BY <1>5 DEF NumberInv, IdInv, TypeOK
    <3> QED BY <2>1, <3>1 DEF NumberInv, FreshInv
  <2> QED BY <1>2, <1>3, <2>1, <2>2, <2>3, <2>4, <2>5 DEF HelloFirst
<1>6. CASE Sequence[c] # 0
  <2> DEFINE hello == SetSequence(HelloMsg(lastId + 1), 0)
  <2>1. /\ hello \in SentMessage /\ hello.seq = 0 /\ hello.id = lastId + 1
        /\ hello.id # NoId
    BY <1>2, MaxEventsAssumption DEF SetSequence, HelloMsg, SentMessage, NoId
  <2>2. r = Prologue(deadQueue[queue[c]], deadQueuePointer[c], Sequence[c], hello)
    BY <1>6 DEF StartOutcome
  <2> HIDE DEF hello
  <2>3. reused[c] /\ Sequence[c] <= Written[c]
    BY <1>1, <1>6 DEF NumberInv, FreshInv, IdInv, AheadInv
  <2>4. /\ r.queue \in Queues /\ r.pointer \in Slots /\ r.sequence \in Nat
        /\ r.sent \in Seq(SentMessage)
        /\ HelloIsZero(r.queue)
        /\ HelloFirst(r.sent)
        /\ r.outcome = "notFound" =>
             /\ r.sequence = 1 /\ r.sent = <<hello>>
             /\ KeptRing(r.queue, r.pointer, 1) /\ ~ Frayed(r.queue, 1)
        /\ r.outcome # "notFound" =>
             /\ r.queue = deadQueue[queue[c]] /\ r.pointer = deadQueuePointer[c]
             /\ r.sequence >= Written[c]
             /\ Frayed(deadQueue[queue[c]], Written[c]) => r.sequence > Written[c]
             /\ \A k \in DOMAIN r.sent : r.sent[k].id = NoId
             /\ HasAll(r.sent, Sequence[c], Written[c])
             /\ r.sequence = Written[c] => Len(r.sent) = Written[c] - Sequence[c]
    <3> DEFINE dq == deadQueue[queue[c]]
               ptr == deadQueuePointer[c]
               g == Written[c]
               q == Sequence[c]
    <3>1. /\ dq \in Queues /\ ptr \in Slots /\ g \in Nat /\ KeptRing(dq, ptr, g)
          /\ HelloIsZero(dq) /\ q \in Nat /\ q # 0 /\ q <= g
          /\ r = Prologue(dq, ptr, q, hello)
      BY <1>2, <1>3, <1>4, <1>6, <2>2, <2>3
    <3> HIDE DEF dq, ptr, g, q
    <3>2. /\ r.queue \in Queues /\ r.pointer \in Slots /\ r.sequence \in Nat
          /\ r.sent \in Seq(SentMessage)
          /\ HelloIsZero(r.queue)
          /\ HelloFirst(r.sent)
          /\ r.outcome = "notFound" =>
               /\ r.sequence = 1 /\ r.sent = <<hello>>
               /\ KeptRing(r.queue, r.pointer, 1) /\ ~ Frayed(r.queue, 1)
          /\ r.outcome # "notFound" =>
               /\ r.queue = dq /\ r.pointer = ptr
               /\ r.sequence >= g /\ (Frayed(dq, g) => r.sequence > g)
               /\ \A k \in DOMAIN r.sent : r.sent[k].id = NoId
               /\ HasAll(r.sent, q, g)
      BY <2>1, <3>1, PrologueOnRing
    <3>4. r.outcome # "notFound" => r.sequence = q + Len(r.sent)
      BY <3>1, PrologueCounts
    <3>3. r.outcome # "notFound" /\ r.sequence = Written[c] =>
            Len(r.sent) = Written[c] - Sequence[c]
      <4>1. Len(r.sent) \in Nat
        BY <3>2
      <4> QED BY <3>1, <3>4, <4>1 DEF g, q
    <3> QED BY <3>2, <3>3 DEF dq, ptr, g, q
  <2>5. Written[c] # 0
    BY <1>2, <1>4, <1>6, <2>3
  <2>6. r.outcome = "notFound" =>
          Len(r.sent) = 1 /\ Head(r.sent).id = lastId + 1 /\ Head(r.sent).seq = 0
    <3>1. Len(<<hello>>) = 1 /\ Head(<<hello>>) = hello
      OBVIOUS
    <3> QED BY <2>1, <2>4, <3>1
  <2> QED BY <2>3, <2>4, <2>5, <2>6
<1> QED BY <1>5, <1>6

LEMMA EmptyIsSequence == <<>> \in Seq(SentMessage)
  OBVIOUS

LEMMA NextTypeOK ==
  ASSUME TypeOK, NumberInv, [Next]_vars
  PROVE  TypeOK'
<1> USE DEF TypeOK, PCs, NoId, NoConn
<1>1. ASSUME NEW c \in Conns, FreshConn(c) PROVE TypeOK'
  BY <1>1, SMTT(40) DEF FreshConn, networkVars, clientVars, historyVars
<1>2. ASSUME NEW c \in Conns, ResumeConn(c) PROVE TypeOK'
  <2>1. PICK d \in Conns :
          /\ index' = index \ {d}
          /\ queue' = [queue EXCEPT ![c] = queue[d]]
          /\ deadQueuePointer' = [deadQueuePointer EXCEPT ![c] = deadQueuePointer[d]]
    BY <1>2 DEF ResumeConn, Resumable
  <2>2. queue' \in [Conns -> Conns] /\ deadQueuePointer' \in [Conns -> Slots]
    BY <2>1
  <2>3. request[c].id \in Nat /\ request[c].seq \in Nat
    OBVIOUS
  <2>4. connectionID' \in [Conns -> Nat] /\ Sequence' \in [Conns -> Nat]
    BY <1>2, <2>3 DEF ResumeConn
  <2> QED BY <1>2, <2>1, <2>2, <2>4 DEF ResumeConn, networkVars, clientVars, historyVars
<1>3. ASSUME NEW c \in Conns, Register(c) PROVE TypeOK'
  <2>1. HelloMsg(connectionID[c]) \in Message /\ queue[c] \in Conns
    BY MaxEventsAssumption DEF HelloMsg, Message
  <2>2. send' \in [Conns -> Seq(Message)]
    <3>1. send[queue[c]] \in Seq(Message)
      BY <2>1
    <3>2. Append(send[queue[c]], HelloMsg(connectionID[c])) \in Seq(Message)
      BY <2>1, <3>1
    <3> QED BY <1>3, <2>1, <3>2 DEF Register
  <2> QED BY <1>3, <2>2 DEF Register, networkVars, clientVars, historyVars
<1>4. ASSUME NEW c \in Conns, RegisterFails(c) PROVE TypeOK'
  BY <1>4, MaxFaultsAssumption, SMTT(40) DEF RegisterFails, Fault, clientVars
<1>5. ASSUME NEW c \in Conns, StartPump(c) PROVE TypeOK'
  <2> DEFINE q == queue[c]
  <2>1. PICK r : /\ r = StartOutcome(c)
                 /\ deadQueue' = [deadQueue EXCEPT ![q] = r.queue]
                 /\ deadQueuePointer' = [deadQueuePointer EXCEPT ![c] = r.pointer]
                 /\ Sequence' = [Sequence EXCEPT ![c] = r.sequence]
                 /\ IF r.outcome = "notFound"
                      THEN /\ lastId' = lastId + 1
                           /\ connectionID' = [connectionID EXCEPT ![c] = lastId + 1]
                      ELSE UNCHANGED <<lastId, connectionID>>
                 /\ written' = [written EXCEPT ![q] = IF r.outcome = "notFound" THEN 1 ELSE @]
                 /\ \/ WriteOk(c, r.sent) /\ pc' = [pc EXCEPT ![c] = "pump"]
                    \/ r.sent # <<>> /\ WriteError(c) /\ pc' = [pc EXCEPT ![c] = "ended"]
    <3> HIDE DEF TypeOK, PCs
    <3> QED BY <1>5 DEF StartPump, StartOutcome
  <2>2. pc[c] = "registered"
    BY <1>5 DEF StartPump
  <2>3. /\ r.queue \in Queues /\ r.pointer \in Slots /\ r.sequence \in Nat
        /\ r.sent \in Seq(SentMessage)
    BY <2>1, <2>2, StartOutcomeOnRing
  <2>4. deadQueue' \in [Conns -> [Slots -> SentMessage \cup {Nil}]]
    BY <2>1, <2>3 DEF Queues
  <2>5. wire' \in [Conns -> Seq(SentMessage)] /\ linked' = linked
    <3>1. wire[c] \o r.sent \in Seq(SentMessage)
      BY <2>3
    <3>2. wire \in [Conns -> Seq(SentMessage)]
      OBVIOUS
    <3> HIDE DEF TypeOK, PCs
    <3> QED BY <2>1, <3>1, <3>2 DEF WriteOk, WriteError, networkVars
  <2>6. lastId' \in Nat /\ connectionID' \in [Conns -> Nat]
    <3>1. lastId \in Nat /\ lastId + 1 \in Nat /\ connectionID \in [Conns -> Nat]
      OBVIOUS
    <3> HIDE DEF TypeOK, PCs
    <3>2. \/ lastId' = lastId + 1 /\ connectionID' = [connectionID EXCEPT ![c] = lastId + 1]
          \/ UNCHANGED <<lastId, connectionID>>
      BY <2>1
    <3> QED BY <3>1, <3>2
  <2>7. UNCHANGED <<request, index, active, reused, queue, send, closed,
                    clientVars, published, missed, faults>>
    <3> HIDE DEF TypeOK, PCs
    <3> QED BY <1>5 DEF StartPump
  <2>8. pc' \in [Conns -> PCs]
    BY <2>1
  <2>9. written' \in [Conns -> Nat]
    <3>1. written \in [Conns -> Nat]
      OBVIOUS
    <3> HIDE DEF TypeOK, PCs
    <3> QED BY <2>1, <3>1
  <2> QED BY <2>1, <2>3, <2>4, <2>5, <2>6, <2>7, <2>8, <2>9 DEF clientVars
<1>6. ASSUME NEW c \in Conns, PumpMessage(c) PROVE TypeOK'
  <2> DEFINE q == queue[c]
             evt == SetSequence(Head(send[q]), Sequence[c])
  <2>1. q \in Conns /\ Head(send[q]) \in Message /\ Tail(send[q]) \in Seq(Message)
    <3>1. q \in Conns /\ send \in [Conns -> Seq(Message)]
      OBVIOUS
    <3> HIDE DEF TypeOK, PCs
    <3>2. send[q] # <<>>
      BY <1>6 DEF PumpMessage
    <3>3. send[q] \in Seq(Message)
      BY <3>1
    <3> HIDE DEF q
    <3> QED BY <3>1, <3>2, <3>3
  <2>2. evt \in SentMessage
    BY <2>1, NumberedMessage
  <2>3. /\ send' = [send EXCEPT ![q] = Tail(@)]
        /\ Sequence' = [Sequence EXCEPT ![c] = @ + 1]
        /\ deadQueue' = [deadQueue EXCEPT ![q] = AddToDeadQueue(@, deadQueuePointer[c], evt)]
        /\ deadQueuePointer' = [deadQueuePointer EXCEPT ![c] = NextSlot(@)]
        /\ \/ WriteOk(c, <<evt>>) /\ UNCHANGED pc
           \/ WriteError(c) /\ pc' = [pc EXCEPT ![c] = "ended"]
        /\ written' = [written EXCEPT ![q] = IF Sequence[c] = @ THEN @ + 1 ELSE @]
        /\ UNCHANGED <<request, index, active, connectionID, reused, queue, closed,
                       lastId, clientVars, published, missed, faults>>
    <3> HIDE DEF TypeOK, PCs
    <3> QED BY <1>6 DEF PumpMessage
  <2> HIDE DEF evt
  <2>4. send' \in [Conns -> Seq(Message)]
    BY <2>1, <2>3
  <2>5. wire' \in [Conns -> Seq(SentMessage)] /\ linked' = linked
    <3>1. wire[c] \o <<evt>> \in Seq(SentMessage)
      BY <2>2
    <3> QED BY <2>3, <3>1 DEF WriteOk, WriteError, networkVars
  <2>6. deadQueue' \in [Conns -> [Slots -> SentMessage \cup {Nil}]]
    BY <2>1, <2>2, <2>3 DEF AddToDeadQueue
  <2>7. deadQueuePointer' \in [Conns -> Slots]
    <3>1. deadQueuePointer \in [Conns -> Slots] /\ deadQueuePointer[c] \in Slots
      OBVIOUS
    <3> HIDE DEF TypeOK, PCs
    <3>2. NextSlot(deadQueuePointer[c]) \in Slots
      BY <3>1, NextSlotValue, DeadQueueSizeAssumption DEF Slots
    <3> QED BY <2>3, <3>1, <3>2
  <2>8. Sequence' \in [Conns -> Nat] /\ pc' \in [Conns -> PCs]
    <3>1. Sequence \in [Conns -> Nat] /\ pc \in [Conns -> PCs] /\ "ended" \in PCs
      OBVIOUS
    <3> HIDE DEF TypeOK, PCs
    <3> QED BY <2>3, <3>1
  <2>9. written' \in [Conns -> Nat]
    <3>1. written \in [Conns -> Nat]
      OBVIOUS
    <3> HIDE DEF TypeOK, PCs, q
    <3>2. written[q] \in Nat /\ written[q] + 1 \in Nat
      BY <2>1, <3>1
    <3> QED BY <2>3, <3>1, <3>2
  <2> QED BY <2>3, <2>4, <2>5, <2>6, <2>7, <2>8, <2>9 DEF clientVars
<1>7. ASSUME NEW c \in Conns, PumpEncodeError(c) PROVE TypeOK'
  <2> DEFINE q == queue[c]
  <2>1. /\ q \in Conns /\ send \in [Conns -> Seq(Message)] /\ Sequence \in [Conns -> Nat]
        /\ missed \in [Conns -> SUBSET (1 .. MaxEvents)] /\ faults \in 0 .. MaxFaults
    OBVIOUS
  <2>2. /\ send[q] # <<>>
        /\ faults' = faults + 1 /\ faults < MaxFaults
        /\ send' = [send EXCEPT ![q] = Tail(@)]
        /\ missed' = [missed EXCEPT ![q] = @ \cup {Head(send[q]).pub}]
        /\ Sequence' = [Sequence EXCEPT ![c] = @ + 1]
        /\ UNCHANGED <<pc, request, index, active, connectionID, reused, queue,
                       deadQueuePointer, closed, deadQueue, lastId, networkVars,
                       clientVars, published, written>>
    <3> HIDE DEF TypeOK, PCs
    <3> QED BY <1>7 DEF PumpEncodeError, Fault
  <2>3. Head(send[q]) \in Message /\ Tail(send[q]) \in Seq(Message)
    <3> HIDE DEF TypeOK, PCs, q
    <3>1. send[q] \in Seq(Message) /\ send[q] # <<>>
      BY <2>1, <2>2
    <3> QED BY <3>1
  <2>4. send' \in [Conns -> Seq(Message)] /\ Sequence' \in [Conns -> Nat]
    <3> HIDE DEF TypeOK, PCs, q
    <3> QED BY <2>1, <2>2, <2>3
  <2>5. missed' \in [Conns -> SUBSET (1 .. MaxEvents)]
    <3>1. Head(send[q]).pub \in 0 .. MaxEvents
      BY <2>3 DEF Message
    <3>2. Head(send[q]).pub # 0
      <4>1. c \in Holders /\ Head(send[q]).id = NoId
        <5> HIDE DEF TypeOK, PCs
        <5> QED BY <1>7 DEF PumpEncodeError, Holders, Holds, Running
      <4>2. HelloUnnumbered(send[q], Written[c], connectionID[c])
        BY <4>1 DEF NumberInv, ChanInv
      <4> HIDE DEF TypeOK, PCs, q
      <4>3. 1 \in DOMAIN send[q] /\ Head(send[q]) = send[q][1]
        <5>1. send[q] \in Seq(Message) /\ send[q] # <<>>
          BY <2>1, <2>2
        <5> QED BY <5>1
      <4> QED BY <4>1, <4>2, <4>3 DEF HelloUnnumbered
    <3> HIDE DEF TypeOK, PCs, q
    <3>3. Head(send[q]).pub \in 1 .. MaxEvents
      BY <3>1, <3>2, MaxEventsAssumption
    <3>4. missed[q] \cup {Head(send[q]).pub} \in SUBSET (1 .. MaxEvents)
      BY <2>1, <3>3
    <3> QED BY <2>1, <2>2, <3>4
  <2>6. faults' \in 0 .. MaxFaults
    <3> HIDE DEF TypeOK, PCs, q
    <3> QED BY <2>1, <2>2, MaxFaultsAssumption
  <2> QED BY <2>2, <2>4, <2>5, <2>6 DEF networkVars, clientVars
<1>8. ASSUME NEW c \in Conns, PumpClosed(c) PROVE TypeOK'
  <2>1. /\ linked' = [linked EXCEPT ![c] = FALSE]
        /\ pc' = [pc EXCEPT ![c] = "ended"]
        /\ UNCHANGED <<request, index, active, connectionID, Sequence, reused, queue,
                       deadQueuePointer, send, closed, deadQueue, lastId, wire,
                       clientVars, historyVars>>
    <3> HIDE DEF TypeOK, PCs
    <3> QED BY <1>8 DEF PumpClosed
  <2> QED BY <2>1, SMTT(40) DEF clientVars, historyVars
<1>9. ASSUME NEW c \in Conns, PumpEnd(c) PROVE TypeOK'
  BY <1>9, SMTT(40) DEF PumpEnd, networkVars, clientVars, historyVars
<1>10. ASSUME NEW c \in Conns, Unregister(c) PROVE TypeOK'
  BY <1>10, SMTT(40) DEF Unregister, networkVars, clientVars, historyVars
<1>11. CASE Broadcast
  <2>1. EventMsg(published + 1) \in Message /\ published' \in 0 .. MaxEvents
    <3>1. published \in 0 .. MaxEvents
      OBVIOUS
    <3> HIDE DEF TypeOK, PCs
    <3>2. published < MaxEvents /\ published' = published + 1
      BY <1>11 DEF Broadcast
    <3> QED BY <3>1, <3>2, MaxEventsAssumption DEF EventMsg, Message
  <2>2. send' \in [Conns -> Seq(Message)]
    <3>1. \A q \in Conns : /\ send[q] \in Seq(Message)
                           /\ Append(send[q], EventMsg(published + 1)) \in Seq(Message)
      BY <2>1
    <3> HIDE DEF TypeOK, PCs
    <3> QED BY <1>11, <3>1 DEF Broadcast
  <2>3. missed' \in [Conns -> SUBSET (1 .. MaxEvents)]
    <3>1. published + 1 \in 1 .. MaxEvents /\ missed \in [Conns -> SUBSET (1 .. MaxEvents)]
      <4>1. published < MaxEvents
        BY <1>11 DEF Broadcast
      <4>2. published \in 0 .. MaxEvents /\ missed \in [Conns -> SUBSET (1 .. MaxEvents)]
        OBVIOUS
      <4> QED BY <4>1, <4>2, MaxEventsAssumption
    <3> HIDE DEF TypeOK, PCs
    <3> DEFINE passed == {queue[c] : c \in {d \in Conns : InHandover(d)}}
    <3>2. missed' = [q \in Conns |-> IF q \in passed THEN missed[q] \cup {published + 1}
                                                    ELSE missed[q]]
      BY <1>11 DEF Broadcast
    <3> HIDE DEF passed
    <3> QED BY <3>1, <3>2
  <2> QED BY <1>11, <2>1, <2>2, <2>3 DEF Broadcast, networkVars, clientVars
<1>12. CASE Reap
  <2>1. /\ index' \subseteq index
        /\ UNCHANGED <<pc, request, active, connectionID, Sequence, reused, queue,
                       deadQueuePointer, send, closed, deadQueue, lastId, networkVars,
                       clientVars, historyVars>>
    <3> HIDE DEF TypeOK, PCs
    <3> QED BY <1>12 DEF Reap, historyVars
  <2> QED BY <2>1, SMTT(40) DEF networkVars, clientVars, historyVars
<1>13. CASE HubPanic
  <2>1. faults' \in 0 .. MaxFaults /\ index' \subseteq Conns
    BY <1>13, MaxFaultsAssumption DEF HubPanic, Fault
  <2> QED BY <1>13, <2>1 DEF HubPanic, networkVars, clientVars
<1>14. CASE ServerRestart
  BY <1>14, MaxFaultsAssumption, SMTT(40) DEF ServerRestart, Fault, clientVars
<1>15. CASE Break
  BY <1>15, MaxFaultsAssumption, SMTT(40) DEF Break, Fault, serverVars, clientVars
<1>16. CASE Connect
  <2>1. PICK c \in Conns :
          /\ conn' = c
          /\ pc' = [pc EXCEPT ![c] = "handshake"]
          /\ request' = [request EXCEPT ![c] = [id |-> connectionId, seq |-> serverSequence]]
          /\ linked' = [linked EXCEPT ![c] = TRUE]
    BY <1>16 DEF Connect
  <2>2. request' \in [Conns -> [id : Nat, seq : Nat]]
    BY <2>1
  <2> QED BY <1>16, <2>1, <2>2 DEF Connect, historyVars
<1>17. CASE OnClose \/ PingTimeout \/ OnWrongSequence
  <2>1. /\ Disconnect
        /\ UNCHANGED <<serverVars, connectionId, serverSequence, view, lastEvent, gaps,
                       historyVars>>
    BY <1>17 DEF OnClose, PingTimeout, OnWrongSequence
  <2>2. /\ wire' \in [Conns -> Seq(SentMessage)] /\ linked' \in [Conns -> BOOLEAN]
        /\ conn' \in Conns \cup {NoConn}
    BY <2>1, EmptyIsSequence DEF Disconnect
  <2> QED BY <2>1, <2>2 DEF serverVars, historyVars
<1>18. CASE OnHello
  <2>1. /\ conn \in Conns /\ Head(wire[conn]) \in SentMessage
        /\ Tail(wire[conn]) \in Seq(SentMessage)
    BY <1>18 DEF OnHello
  <2> DEFINE m == Head(wire[conn])
  <2>2. m.id \in Nat /\ m.seq \in Nat /\ Expected(m) \in Nat
    BY <2>1 DEF SentMessage, Expected
  <2>3. view' \in 0 .. MaxEvents /\ lastEvent' \in 0 .. MaxEvents
    <3>1. published \in 0 .. MaxEvents /\ view \in 0 .. MaxEvents /\ lastEvent \in 0 .. MaxEvents
      OBVIOUS
    <3> HIDE DEF TypeOK, PCs
    <3>2. \/ view' = published /\ lastEvent' = 0
          \/ view' = view /\ lastEvent' = lastEvent
      BY <1>18 DEF OnHello, Refetched
    <3> QED BY <3>1, <3>2, MaxEventsAssumption
  <2>4. /\ wire' \in [Conns -> Seq(SentMessage)] /\ linked' \in [Conns -> BOOLEAN]
        /\ conn' \in Conns \cup {NoConn} /\ serverSequence' \in Nat /\ connectionId' \in Nat
    <3>1. \/ Disconnect /\ serverSequence' = Expected(m)
          \/ /\ serverSequence' = m.seq + 1
             /\ wire' = [wire EXCEPT ![conn] = Tail(@)]
             /\ UNCHANGED <<linked, conn>>
      BY <1>18 DEF OnHello
    <3>2. connectionId' = m.id
      BY <1>18 DEF OnHello
    <3>3. /\ wire \in [Conns -> Seq(SentMessage)] /\ linked \in [Conns -> BOOLEAN]
          /\ conn \in Conns \cup {NoConn}
      OBVIOUS
    <3> HIDE DEF m, TypeOK, PCs
    <3>4. CASE Disconnect /\ serverSequence' = Expected(m)
      BY <2>2, <3>2, <3>3, <3>4, EmptyIsSequence DEF Disconnect
    <3>5. CASE /\ serverSequence' = m.seq + 1
               /\ wire' = [wire EXCEPT ![conn] = Tail(@)]
               /\ UNCHANGED <<linked, conn>>
      BY <2>1, <2>2, <3>2, <3>3, <3>5
    <3> QED BY <3>1, <3>4, <3>5
  <2> QED BY <1>18, <2>3, <2>4 DEF OnHello, serverVars, historyVars
<1>19. CASE OnEvent
  <2>1. /\ conn \in Conns /\ Head(wire[conn]) \in SentMessage
        /\ Tail(wire[conn]) \in Seq(SentMessage)
    BY <1>19 DEF OnEvent
  <2> DEFINE m == Head(wire[conn])
  <2>2. m.pub \in 0 .. MaxEvents /\ m.seq \in Nat
    BY <2>1 DEF SentMessage
  <2>3. /\ serverSequence' = m.seq + 1 /\ lastEvent' = m.pub
        /\ view' = IF m.pub > view THEN m.pub ELSE view
        /\ gaps' = gaps \cup (view + 1 .. m.pub - 1)
        /\ wire' = [wire EXCEPT ![conn] = Tail(@)]
        /\ UNCHANGED <<serverVars, linked, conn, connectionId, historyVars>>
    BY <1>19 DEF OnEvent
  <2>4. wire' \in [Conns -> Seq(SentMessage)]
    BY <2>1, <2>3
  <2> HIDE DEF m
  <2>5. view' \in 0 .. MaxEvents /\ lastEvent' \in 0 .. MaxEvents
    BY <2>2, <2>3, MaxEventsAssumption
  <2>6. gaps' \subseteq 1 .. MaxEvents
    <3>1. view \in 0 .. MaxEvents
      OBVIOUS
    <3>2. view + 1 .. m.pub - 1 \subseteq 1 .. MaxEvents
      BY <2>2, <3>1, MaxEventsAssumption
    <3> QED BY <2>3, <3>2
  <2>7. serverSequence' \in Nat
    BY <2>2, <2>3
  <2> QED BY <2>3, <2>4, <2>5, <2>6, <2>7 DEF serverVars, historyVars
<1>20. CASE UNCHANGED vars
  BY <1>20 DEF vars, serverVars, networkVars, clientVars, historyVars
<1> QED
  BY <1>1, <1>2, <1>3, <1>4, <1>5, <1>6, <1>7, <1>8, <1>9, <1>10, <1>11, <1>12,
     <1>13, <1>14, <1>15, <1>16, <1>17, <1>18, <1>19, <1>20
     DEF Next, Handler, Client, Failures

----------------------------------------------------------------------------
(* The numbers: lemmas on sockets and channels. *)

LEMMA SocketNumbers ==
  ASSUME NEW w \in Seq(SentMessage)
  PROVE  \A k \in DOMAIN w : w[k].seq \in Nat
<1>1. \A k \in DOMAIN w : w[k] \in SentMessage
  OBVIOUS
<1> QED BY <1>1 DEF SentMessage

\* What the client will read of a socket that it has read something of.
LEMMA SocketTail ==
  ASSUME NEW w \in Seq(SentMessage), w # <<>>, NEW s \in Nat
  PROVE  /\ HelloFirst(w) => /\ HelloFirst(Tail(w))
                             /\ \A id : StreamOf(Tail(w), id) = id
                             /\ Head(w).id # NoId <=> Head(w).seq = 0
         /\ 1 \in InStep(w, s) <=> Head(w).seq = s
         /\ Head(w).seq = s => \A k \in InStep(Tail(w), s + 1) :
              k + 1 \in InStep(w, s) /\ Tail(w)[k] = w[k + 1]
         /\ Head(w).seq = s => \A n \in Nat : s < n /\ HasAll(w, s, n) => HasAll(Tail(w), s + 1, n)
         /\ Head(w) = w[1]
<1> DEFINE t == Tail(w)
<1>1. /\ Len(w) \in Nat /\ Len(w) >= 1 /\ DOMAIN w = 1 .. Len(w)
      /\ Head(w) = w[1]
      /\ DOMAIN t = 1 .. Len(w) - 1 /\ Len(t) = Len(w) - 1
      /\ \A k \in 1 .. Len(w) - 1 : t[k] = w[k + 1]
      /\ t \in Seq(SentMessage)
  OBVIOUS
<1>2. ASSUME HelloFirst(w)
      PROVE  \A k \in DOMAIN t : t[k].id = NoId
  BY <1>1, <1>2 DEF HelloFirst
<1>3. t # <<>> => 1 \in DOMAIN t /\ Head(t) = t[1]
  BY <1>1
<1> HIDE DEF t
<1>4. 1 \in InStep(w, s) <=> Head(w).seq = s
  BY <1>1 DEF InStep
<1>5. ASSUME Head(w).seq = s, NEW k \in InStep(t, s + 1)
      PROVE  k + 1 \in InStep(w, s) /\ t[k] = w[k + 1]
  <2>1. k \in 1 .. Len(w) - 1 /\ t[k] = w[k + 1] /\ k + 1 \in DOMAIN w
    BY <1>1 DEF InStep
  <2>2. ASSUME NEW j \in 1 .. k + 1 PROVE w[j].seq = s + j - 1
    <3>1. CASE j = 1
      BY <1>1, <1>5, <3>1
    <3>2. CASE j # 1
      <4>1. j - 1 \in 1 .. k /\ t[j - 1] = w[(j - 1) + 1] /\ (j - 1) + 1 = j
        BY <1>1, <2>1, <3>2
      <4>2. t[j - 1].seq = s + 1 + (j - 1) - 1
        BY <1>5, <4>1 DEF InStep
      <4> QED BY <2>1, <4>1, <4>2
    <3> QED BY <3>1, <3>2
  <2> QED BY <2>1, <2>2 DEF InStep
<1>6. ASSUME NEW n \in Nat, s < n, HasAll(w, s, n)
      PROVE  HasAll(t, s + 1, n)
  <2>1. /\ n - s <= Len(w)
        /\ \A k \in 1 .. n - s : w[k].seq = s + k - 1
        /\ Len(w) > n - s => w[n - s + 1].seq > n
    BY <1>6 DEF HasAll
  <2>2. s + 1 <= n /\ n - (s + 1) <= Len(t)
    BY <1>1, <1>6, <2>1
  <2>3. ASSUME NEW k \in 1 .. n - (s + 1) PROVE t[k].seq = s + 1 + k - 1
    <3>1. k + 1 \in 1 .. n - s /\ t[k] = w[k + 1]
      BY <1>1, <2>1
    <3>2. w[k + 1].seq = s + (k + 1) - 1
      BY <2>1, <3>1
    <3>3. s + (k + 1) - 1 = s + 1 + k - 1
      OBVIOUS
    <3> QED BY <3>1, <3>2, <3>3
  <2>4. Len(t) > n - (s + 1) => t[n - (s + 1) + 1].seq > n
    <3> SUFFICES ASSUME Len(t) > n - (s + 1) PROVE t[n - (s + 1) + 1].seq > n
      OBVIOUS
    <3>1. n - (s + 1) + 1 = n - s /\ n - s \in 1 .. Len(w) - 1 /\ Len(w) > n - s
      BY <1>1, <1>6
    <3> QED BY <1>1, <2>1, <3>1
  <2> QED BY <2>2, <2>3, <2>4 DEF HasAll
<1>7. ASSUME HelloFirst(w)
      PROVE  /\ HelloFirst(t) /\ \A id : StreamOf(t, id) = id
             /\ Head(w).id # NoId <=> Head(w).seq = 0
  <2>1. \A k \in DOMAIN t : t[k].id = NoId /\ t[k].seq # 0
    BY <1>1, <1>2, <1>7 DEF HelloFirst
  <2> QED BY <1>1, <1>3, <1>7, <2>1 DEF HelloFirst, StreamOf
<1> QED BY <1>1, <1>4, <1>5, <1>6, <1>7 DEF t

\* A message written to a socket: the next one, or one past a gap, which the
\* client will not read.
LEMMA SocketAppend ==
  ASSUME NEW w \in Seq(SentMessage), NEW m \in SentMessage
  PROVE  /\ HelloFirst(w) /\ m.seq # 0 /\ m.id = NoId =>
              /\ HelloFirst(w \o <<m>>)
              /\ \A id : StreamOf(w \o <<m>>, id) = StreamOf(w, id)
         /\ w = <<>> /\ m.seq = 0 /\ m.id # NoId => HelloFirst(w \o <<m>>)
         /\ w = <<>> /\ m.id # NoId => \A id : StreamOf(w \o <<m>>, id) = m.id
         /\ \A s \in Nat, n \in Nat : HasAll(w, s, n) =>
              /\ m.seq > n => /\ HasAll(w \o <<m>>, s, n)
                              /\ InStep(w \o <<m>>, s) = InStep(w, s)
              /\ m.seq = n /\ Len(w) = n - s => HasAll(w \o <<m>>, s, n + 1)
         /\ \A k \in DOMAIN w : (w \o <<m>>)[k] = w[k]
         /\ \A s \in Nat : /\ InStep(w, s) \subseteq InStep(w \o <<m>>, s)
                           /\ InStep(w \o <<m>>, s) \subseteq InStep(w, s) \cup {Len(w) + 1}
         /\ (w \o <<m>>)[Len(w) + 1] = m
<1> DEFINE v == w \o <<m>>
<1>1. /\ Len(w) \in Nat /\ DOMAIN w = 1 .. Len(w)
      /\ Len(v) = Len(w) + 1 /\ DOMAIN v = 1 .. Len(w) + 1
      /\ v # <<>> /\ Head(v) = v[1]
      /\ \A k \in 1 .. Len(w) : v[k] = w[k]
      /\ v[Len(w) + 1] = m
  OBVIOUS
<1>2. w = <<>> <=> Len(w) = 0
  OBVIOUS
<1>3. w # <<>> => Head(w) = w[1]
  OBVIOUS
<1>4. m.seq \in Nat
  BY DEF SentMessage
<1> HIDE DEF v
<1>6. HelloFirst(w) /\ m.seq # 0 /\ m.id = NoId =>
        HelloFirst(v) /\ \A id : StreamOf(v, id) = StreamOf(w, id)
  BY <1>1, <1>2, <1>3 DEF HelloFirst, StreamOf
<1>7. /\ w = <<>> /\ m.seq = 0 /\ m.id # NoId => HelloFirst(v)
      /\ w = <<>> /\ m.id # NoId => \A id : StreamOf(v, id) = m.id
  BY <1>1, <1>2 DEF HelloFirst, StreamOf
<1>8. ASSUME NEW s \in Nat
      PROVE  /\ InStep(w, s) \subseteq InStep(v, s)
             /\ InStep(v, s) \subseteq InStep(w, s) \cup {Len(w) + 1}
  <2>1. ASSUME NEW k \in DOMAIN w, NEW j \in 1 .. k PROVE j \in 1 .. Len(w) /\ v[j] = w[j]
    BY <1>1
  <2> QED BY <1>1, <2>1 DEF InStep
<1>9. ASSUME NEW s \in Nat, NEW n \in Nat, HasAll(w, s, n), m.seq > n
      PROVE  HasAll(v, s, n) /\ InStep(v, s) = InStep(w, s)
  <2>1. /\ s <= n /\ n - s <= Len(w)
        /\ \A k \in 1 .. n - s : w[k].seq = s + k - 1
        /\ Len(w) > n - s => w[n - s + 1].seq > n
    BY <1>9 DEF HasAll
  <2>2. n - s + 1 \in 1 .. Len(w) + 1 /\ v[n - s + 1].seq > n
    BY <1>1, <1>9, <2>1
  <2>3. HasAll(v, s, n)
    <3>1. \A k \in 1 .. n - s : k \in 1 .. Len(w) /\ v[k] = w[k]
      BY <1>1, <2>1
    <3> QED BY <1>1, <2>1, <2>2, <3>1 DEF HasAll
  <2>4. Len(w) + 1 \notin InStep(v, s)
    <3> SUFFICES ASSUME Len(w) + 1 \in InStep(v, s) PROVE FALSE
      OBVIOUS
    <3>1. v[n - s + 1].seq = s + (n - s + 1) - 1
      BY <1>1, <2>2 DEF InStep
    <3> QED BY <2>2, <3>1
  <2> QED BY <1>8, <2>3, <2>4
<1>10. ASSUME NEW s \in Nat, NEW n \in Nat, HasAll(w, s, n), m.seq = n, Len(w) = n - s
       PROVE  HasAll(v, s, n + 1)
  <2>1. s <= n /\ \A k \in 1 .. n - s : w[k].seq = s + k - 1
    BY <1>10 DEF HasAll
  <2>2. ASSUME NEW k \in 1 .. n + 1 - s PROVE v[k].seq = s + k - 1
    <3>1. CASE k = Len(w) + 1
      BY <1>1, <1>10, <3>1
    <3>2. CASE k \in 1 .. n - s
      BY <1>1, <1>10, <2>1, <3>2
    <3> QED BY <1>10, <3>1, <3>2
  <2>3. s <= n + 1 /\ n + 1 - s <= Len(v) /\ ~ (Len(v) > n + 1 - s)
    <3>1. Len(v) = n - s + 1
      BY <1>1, <1>10
    <3> HIDE DEF HasAll
    <3> QED BY <2>1, <3>1
  <2> QED BY <2>2, <2>3 DEF HasAll
<1> QED BY <1>1, <1>6, <1>7, <1>8, <1>9, <1>10 DEF v

\* What the client will read is before the gap.
LEMMA InStepIsBelow ==
  ASSUME NEW w \in Seq(SentMessage), NEW s \in Nat, NEW n \in Nat, HasAll(w, s, n),
         NEW k \in InStep(w, s)
  PROVE  w[k].seq < n
<1>1. /\ s <= n
      /\ Len(w) > n - s => w[n - s + 1].seq > n
      /\ Len(w) \in Nat /\ DOMAIN w = 1 .. Len(w)
  BY DEF HasAll
<1>2. k \in 1 .. Len(w) /\ \A j \in 1 .. k : w[j].seq = s + j - 1
  BY <1>1 DEF InStep
<1>3. ~ (k > n - s)
  <2> SUFFICES ASSUME k > n - s PROVE FALSE
    OBVIOUS
  <2>1. n - s + 1 \in 1 .. k /\ Len(w) > n - s
    BY <1>1, <1>2
  <2>2. w[n - s + 1].seq = s + (n - s + 1) - 1
    BY <1>2, <2>1
  <2> QED BY <1>1, <2>1, <2>2
<1>4. w[k].seq = s + k - 1
  BY <1>2
<1> QED BY <1>1, <1>2, <1>3, <1>4

LEMMA EmptyInStep ==
  ASSUME NEW s
  PROVE  InStep(<<>>, s) = {}
  BY DEF InStep

LEMMA ChannelTail ==
  ASSUME NEW ch \in Seq(Message), ch # <<>>, NEW n \in Nat, NEW id, HelloUnnumbered(ch, n, id)
  PROVE  /\ \A i, m : HelloUnnumbered(Tail(ch), m, i)
         /\ Head(ch).id # NoId => n = 0 /\ Head(ch).id = id
         /\ Head(ch).id = NoId => Head(ch).pub # 0
<1>1. /\ Len(ch) \in Nat /\ Len(ch) >= 1 /\ DOMAIN ch = 1 .. Len(ch)
      /\ Head(ch) = ch[1]
      /\ DOMAIN Tail(ch) = 1 .. Len(ch) - 1
      /\ \A k \in 1 .. Len(ch) - 1 : Tail(ch)[k] = ch[k + 1]
  OBVIOUS
<1> QED BY <1>1 DEF HelloUnnumbered

LEMMA ChannelAppend ==
  ASSUME NEW ch \in Seq(Message), NEW m, m.id = NoId, m.pub # 0, NEW n, NEW id
  PROVE  /\ HelloUnnumbered(ch, n, id) => HelloUnnumbered(Append(ch, m), n, id)
         /\ HelloNext(ch) => HelloNext(Append(ch, m))
<1>1. /\ Len(ch) \in Nat /\ DOMAIN ch = 1 .. Len(ch)
      /\ Len(Append(ch, m)) = Len(ch) + 1 /\ DOMAIN Append(ch, m) = 1 .. Len(ch) + 1
      /\ Append(ch, m) # <<>>
      /\ \A k \in 1 .. Len(ch) : Append(ch, m)[k] = ch[k]
      /\ Append(ch, m)[Len(ch) + 1] = m
      /\ Head(Append(ch, m)) = Append(ch, m)[1]
  OBVIOUS
<1>2. ch # <<>> => Len(ch) >= 1 /\ Head(ch) = ch[1]
  OBVIOUS
<1> QED BY <1>1, <1>2 DEF HelloUnnumbered, HelloNext

----------------------------------------------------------------------------
(* The numbers: the steps. *)

Given == NumberInv /\ OwnerInv /\ TypeOK /\ TypeOK'

\* A WebConn in the handshake holds nothing yet.
LEMMA WaitingHoldsNothing ==
  ASSUME Given, NEW c \in Conns, Waiting(c)
  PROVE  /\ c \notin Holders /\ c \notin index /\ queue[c] = c
         /\ \A d \in Conns : queue[d] = c => d = c
  BY DEF Given, OwnerInv, OwnerTypes, Waiting, IndexedIsStarted, WaitingHasOwnQueue,
         Holders, Holds, Running

LEMMA WireIdIsNat ==
  ASSUME Given
  PROVE  WireId \in Nat
<1>1. ASSUME conn # NoConn, wire[conn] # <<>> PROVE Head(wire[conn]).id \in Nat
  <2>1. wire[conn] \in Seq(SentMessage)
    BY <1>1 DEF Given, TypeOK
  <2>2. Head(wire[conn]) \in SentMessage
    BY <1>1, <2>1
  <2> QED BY <2>2 DEF SentMessage
<1> QED BY <1>1 DEF WireId, StreamOf, Given, TypeOK

LEMMA HoldersAreConns == Holders \subseteq Conns /\ Holders' \subseteq Conns
  BY DEF Holders

LEMMA OneHolder ==
  ASSUME Given, NEW c \in Holders, NEW d \in Holders, queue[c] = queue[d]
  PROVE  c = d
  BY DEF Given, OwnerInv, SingleOwner, Holders

LEMMA FreshConnNumbers ==
  ASSUME Given, NEW c \in Conns, FreshConn(c)
  PROVE  NumberInv'
<1>1. /\ pc[c] = "handshake" /\ Waiting(c)
      /\ lastId' = lastId + 1
      /\ connectionID' = [connectionID EXCEPT ![c] = lastId + 1]
      /\ pc' = [pc EXCEPT ![c] = "checked"]
      /\ UNCHANGED <<request, index, Sequence, reused, queue, deadQueuePointer,
                     send, deadQueue, wire, linked, conn, connectionId, serverSequence, written>>
  BY DEF FreshConn, Waiting, networkVars, clientVars, historyVars
<1>2. c \notin Holders /\ queue[c] = c
  BY <1>1, WaitingHoldsNothing
<1>3. Written' = Written /\ WireId' = WireId /\ Start' = Start
  BY <1>1 DEF Written, WireId, Start
<1>4. \A e \in Conns : e \in Holders' <=> e = c \/ e \in Holders
  BY <1>1 DEF Holders, Holds, Running, Given, TypeOK
<1>5. /\ reused[c] = FALSE /\ Sequence[c] = 0 /\ deadQueuePointer[c] = 0
      /\ deadQueue[c] = EmptyDeadQueue /\ send[c] = <<>> /\ wire[c] = <<>>
      /\ Written[c] = 0
  BY <1>1, <1>2 DEF Given, NumberInv, FreshInv, Written
<1>6. /\ KeptRing(deadQueue[queue[c]], deadQueuePointer[c], 0)
      /\ ~ Frayed(deadQueue[queue[c]], 0)
      /\ HelloIsZero(deadQueue[queue[c]])
  BY <1>2, <1>5, EmptyRing, RingIsKept DEF HelloIsZero, Taken, EmptyDeadQueue
<1>8. /\ lastId \in Nat /\ connectionId \in Nat /\ WireId <= lastId /\ connectionId <= lastId
      /\ \A e \in Conns : request[e].id \in Nat /\ request[e].id <= lastId
      /\ \A e \in Holders : connectionID[e] \in Nat /\ connectionID[e] <= lastId
  BY DEF Given, NumberInv, IdInv, TypeOK, Holders
<1>9. WireId \in Nat
  BY WireIdIsNat
<1>10. \A e \in Conns : connectionID'[e] = IF e = c THEN lastId + 1 ELSE connectionID[e]
  BY <1>1 DEF Given, TypeOK
<1>11. \A e \in Conns : pc'[e] = IF e = c THEN "checked" ELSE pc[e]
  BY <1>1 DEF Given, TypeOK
<1>20. FreshInv'
  BY <1>1, <1>2, <1>3, <1>5, <1>6, <1>11 DEF Given, NumberInv, FreshInv, Waiting
<1>21. LinkInv'
  BY <1>1, <1>11 DEF Given, NumberInv, LinkInv
<1>22. IdInv'
  BY <1>1, <1>3, <1>4, <1>5, <1>8, <1>9, <1>10, <1>11, HoldersAreConns DEF Given, NumberInv, IdInv, NoId
<1>23. RingsInv'
  BY <1>1, <1>3, <1>4, <1>5, <1>6, <1>11, HoldersAreConns DEF Given, NumberInv, RingsInv
<1>24. ChanInv'
  <2> SUFFICES ASSUME NEW e \in Holders'
               PROVE  /\ HelloUnnumbered(send[queue[e]], Written[e], connectionID'[e])
                      /\ Written[e] = 0 /\ pc'[e] # "checked" => HelloNext(send[queue[e]])
                      /\ Written[e] = 0 /\ pc'[e] = "pump" => Sequence[e] = 0
    BY <1>1, <1>3 DEF ChanInv
  <2>1. CASE e = c
    <3>1. HelloUnnumbered(<<>>, Written[e], connectionID'[e])
      BY DEF HelloUnnumbered
    <3>2. send[queue[e]] = <<>> /\ pc'[e] = "checked" /\ Sequence[e] = 0
      BY <1>2, <1>5, <1>11, <2>1
    <3> QED BY <3>1, <3>2
  <2>2. CASE e # c
    <3>1. e \in Holders /\ connectionID'[e] = connectionID[e] /\ pc'[e] = pc[e]
      BY <1>4, <1>10, <1>11, <2>2, HoldersAreConns
    <3> QED BY <3>1 DEF Given, NumberInv, ChanInv
  <2> QED BY <2>1, <2>2
<1>25. AheadInv'
  BY <1>1, <1>3, <1>4, <1>8, <1>10, HoldersAreConns DEF Given, NumberInv, AheadInv
<1>26. WireInv'
  <2>1. conn \in Conns \cup {NoConn}
    BY DEF Given, TypeOK
  <2>2. \A e \in Holders' : connectionID'[e] = WireId => e \in Holders /\ connectionID[e] = WireId
    BY <1>4, <1>8, <1>9, <1>10, HoldersAreConns
  <2>3. conn # NoConn /\ pc'[conn] = "pump" =>
          pc[conn] = "pump" /\ connectionID'[conn] = connectionID[conn]
    BY <1>10, <1>11, <2>1
  <2> QED BY <1>1, <1>3, <2>2, <2>3 DEF Given, NumberInv, WireInv
<1> QED BY <1>20, <1>21, <1>22, <1>23, <1>24, <1>25, <1>26 DEF NumberInv

LEMMA ResumeConnNumbers ==
  ASSUME Given, NEW c \in Conns, ResumeConn(c)
  PROVE  NumberInv'
<1>1. PICK d \in Conns :
        /\ d \in index /\ connectionID[d] = request[c].id /\ ~ active[d]
        /\ index' = index \ {d}
        /\ queue' = [queue EXCEPT ![c] = queue[d]]
        /\ deadQueuePointer' = [deadQueuePointer EXCEPT ![c] = deadQueuePointer[d]]
  BY DEF ResumeConn, Resumable, Given, TypeOK
<1>2. /\ pc[c] = "handshake" /\ Waiting(c)
      /\ request[c].id # NoId
      /\ connectionID' = [connectionID EXCEPT ![c] = request[c].id]
      /\ Sequence' = [Sequence EXCEPT ![c] = request[c].seq]
      /\ reused' = [reused EXCEPT ![c] = TRUE]
      /\ pc' = [pc EXCEPT ![c] = "checked"]
      /\ UNCHANGED <<request, send, deadQueue, lastId, wire, linked, conn,
                     connectionId, serverSequence, written>>
  BY DEF ResumeConn, Waiting, networkVars, clientVars, historyVars
<1>3. /\ c \notin Holders /\ d \in Holders /\ c # d
      /\ pc[d] = "gone"
  <2>1. c \notin Holders /\ c \notin index
    BY <1>2, WaitingHoldsNothing
  <2>2. d \in Holders
    BY <1>1 DEF Holders, Holds
  <2>3. pc[d] = "gone"
    BY <1>1 DEF Given, OwnerInv, ActiveWhileRunning, IndexedIsStarted
  <2> QED BY <1>1, <2>1, <2>2, <2>3
<1>4. \A e \in Conns : /\ pc'[e] = IF e = c THEN "checked" ELSE pc[e]
                       /\ queue'[e] = IF e = c THEN queue[d] ELSE queue[e]
                       /\ deadQueuePointer'[e] = IF e = c THEN deadQueuePointer[d] ELSE deadQueuePointer[e]
                       /\ connectionID'[e] = IF e = c THEN request[c].id ELSE connectionID[e]
                       /\ Sequence'[e] = IF e = c THEN request[c].seq ELSE Sequence[e]
                       /\ reused'[e] = IF e = c THEN TRUE ELSE reused[e]
  BY <1>1, <1>2 DEF Given, TypeOK
<1>5. \A e \in Conns : e \in Holders' <=> e = c \/ (e \in Holders /\ e # d)
  BY <1>1, <1>2, <1>3, <1>4 DEF Holders, Holds, Running
<1>6. \A e \in Conns : Written'[e] = IF e = c THEN Written[d] ELSE Written[e]
  BY <1>2, <1>4 DEF Written
<1>7. WireId' = WireId /\ Start' = Start
  BY <1>2 DEF WireId, Start
<1>8. /\ request[c].seq # 0 /\ request[c].seq <= Written[d]
      /\ connectionID[d] <= lastId /\ wire[c] = <<>>
  BY <1>1, <1>2, <1>3 DEF Given, NumberInv, IdInv, AheadInv, FreshInv
<1>10. ASSUME NEW e \in Holders'
       PROVE  \E f \in Holders :
                /\ e \in Conns /\ f \in Conns
                /\ e = c => f = d
                /\ e # c => f = e /\ f # d
                /\ connectionID'[e] = connectionID[f]
                /\ Written'[e] = Written[f]
                /\ queue'[e] = queue[f]
                /\ deadQueuePointer'[e] = deadQueuePointer[f]
  <2>1. c \in Conns /\ d \in Conns /\ connectionID[d] = request[c].id
    BY <1>1, <1>3, HoldersAreConns
  <2>2. CASE e = c
    BY <1>3, <1>4, <1>6, <2>1, <2>2
  <2>3. CASE e # c
    <3>1. e \in Holders /\ e \in Conns /\ e # d
      BY <1>5, <2>3, HoldersAreConns
    <3> QED BY <1>4, <1>6, <2>3, <3>1
  <2> QED BY <2>2, <2>3
<1>20. FreshInv'
  <2> SUFFICES ASSUME NEW e \in Conns
               PROVE  /\ Waiting(e)' =>
                           /\ reused'[e] = FALSE /\ Sequence'[e] = 0 /\ deadQueuePointer'[e] = 0
                           /\ deadQueue'[e] = EmptyDeadQueue /\ send'[e] = <<>> /\ written'[e] = 0
                      /\ pc'[e] \in {"checked", "registered"} /\ ~ reused'[e] =>
                           /\ Sequence'[e] = 0 /\ Written'[e] = 0
                           /\ ~ Frayed(deadQueue[queue[e]], 0)'
                      /\ pc'[e] = "checked" /\ ~ reused'[e] => send'[queue'[e]] = <<>>
                      /\ Waiting(e)' \/ pc'[e] \in {"checked", "registered"} => wire'[e] = <<>>
    BY DEF FreshInv
  <2>1. CASE e = c
    <3>1. pc'[e] = "checked" /\ reused'[e] = TRUE /\ wire'[e] = <<>>
      BY <1>2, <1>4, <1>8, <2>1
    <3> QED BY <3>1 DEF Waiting
  <2>2. CASE e # c
    <3>1. /\ pc'[e] = pc[e] /\ queue'[e] = queue[e] /\ Sequence'[e] = Sequence[e]
          /\ deadQueuePointer'[e] = deadQueuePointer[e] /\ reused'[e] = reused[e]
          /\ Written'[e] = Written[e]
      BY <1>4, <1>6, <2>2
    <3>2. Waiting(e)' <=> Waiting(e)
      BY <3>1 DEF Waiting
    <3> QED BY <1>2, <3>1, <3>2 DEF Given, NumberInv, FreshInv
  <2> QED BY <2>1, <2>2
<1>21. LinkInv'
  BY <1>2, <1>4 DEF Given, NumberInv, LinkInv
<1>22. IdInv'
  <2>1. /\ connectionId <= lastId /\ WireId <= lastId
        /\ connectionId # NoId => serverSequence # 0
        /\ connectionId = NoId => serverSequence = 0
        /\ \A e \in Conns : /\ request[e].id <= lastId
                            /\ request[e].id # NoId => request[e].seq # 0
    BY DEF Given, NumberInv, IdInv
  <2>2. \A e \in Holders' : connectionID'[e] # NoId /\ connectionID'[e] <= lastId
    BY <1>10 DEF Given, NumberInv, IdInv
  <2>3. ASSUME NEW e1 \in Holders', NEW e2 \in Holders', connectionID'[e1] = connectionID'[e2]
        PROVE  e1 = e2
    <3>1. PICK f1 \in Holders : /\ e1 = c => f1 = d
                                /\ e1 # c => f1 = e1 /\ f1 # d
                                /\ connectionID'[e1] = connectionID[f1]
      BY <1>10
    <3>2. PICK f2 \in Holders : /\ e2 = c => f2 = d
                                /\ e2 # c => f2 = e2 /\ f2 # d
                                /\ connectionID'[e2] = connectionID[f2]
      BY <1>10
    <3>3. f1 = f2
      <4>1. connectionID[f1] = connectionID[f2]
        BY <2>3, <3>1, <3>2
      <4> QED BY <4>1 DEF Given, NumberInv, IdInv
    <3>4. CASE e1 = c
      BY <3>1, <3>2, <3>3, <3>4
    <3>5. CASE e1 # c
      BY <3>1, <3>2, <3>3, <3>5
    <3> QED BY <3>4, <3>5
  <2>4. \A e \in Conns : pc'[e] \in {"checked", "registered"} /\ reused'[e] =>
          /\ connectionID'[e] = request[e].id /\ request[e].id # NoId
          /\ Sequence'[e] = request[e].seq
    <3> SUFFICES ASSUME NEW e \in Conns, pc'[e] \in {"checked", "registered"} /\ reused'[e]
                 PROVE  /\ connectionID'[e] = request[e].id /\ request[e].id # NoId
                        /\ Sequence'[e] = request[e].seq
      OBVIOUS
    <3>1. CASE e = c
      BY <1>2, <1>4, <3>1
    <3>2. CASE e # c
      <4>1. pc[e] \in {"checked", "registered"} /\ reused[e]
        BY <1>4, <3>2
      <4> QED BY <1>4, <3>2, <4>1 DEF Given, NumberInv, IdInv
    <3> QED BY <3>1, <3>2
  <2> QED BY <1>2, <1>7, <2>1, <2>2, <2>3, <2>4 DEF IdInv
<1>23. RingsInv'
  <2> SUFFICES ASSUME NEW e \in Holders'
               PROVE  /\ KeptRing(deadQueue[queue[e]], deadQueuePointer[e], Written[e])'
                      /\ HelloIsZero(deadQueue[queue[e]])'
                      /\ pc'[e] = "pump" =>
                           /\ Sequence'[e] >= Written'[e]
                           /\ Frayed(deadQueue[queue[e]], Written[e])' => Sequence'[e] > Written'[e]
    BY DEF RingsInv
  <2>1. PICK f \in Holders : /\ e \in Conns
                             /\ e # c => f = e
                             /\ Written'[e] = Written[f]
                             /\ queue'[e] = queue[f]
                             /\ deadQueuePointer'[e] = deadQueuePointer[f]
    BY <1>10
  <2>2. /\ KeptRing(deadQueue[queue[f]], deadQueuePointer[f], Written[f])
        /\ HelloIsZero(deadQueue[queue[f]])
        /\ pc[f] = "pump" =>
             /\ Sequence[f] >= Written[f]
             /\ Frayed(deadQueue[queue[f]], Written[f]) => Sequence[f] > Written[f]
    BY DEF Given, NumberInv, RingsInv
  <2>3. pc'[e] = "pump" => e # c /\ pc[e] = "pump" /\ Sequence'[e] = Sequence[e]
    BY <1>4, <2>1
  <2> QED BY <1>2, <2>1, <2>2, <2>3
<1>24. ChanInv'
  <2> SUFFICES ASSUME NEW e \in Holders'
               PROVE  /\ HelloUnnumbered(send[queue[e]], Written[e], connectionID[e])'
                      /\ Written'[e] = 0 /\ pc'[e] # "checked" => HelloNext(send[queue[e]])'
                      /\ Written'[e] = 0 /\ pc'[e] = "pump" => Sequence'[e] = 0
    BY DEF ChanInv
  <2>1. PICK f \in Holders : /\ e \in Conns
                             /\ e # c => f = e
                             /\ connectionID'[e] = connectionID[f]
                             /\ Written'[e] = Written[f]
                             /\ queue'[e] = queue[f]
    BY <1>10
  <2>2. /\ HelloUnnumbered(send[queue[f]], Written[f], connectionID[f])
        /\ Written[f] = 0 /\ pc[f] # "checked" => HelloNext(send[queue[f]])
        /\ Written[f] = 0 /\ pc[f] = "pump" => Sequence[f] = 0
    BY DEF Given, NumberInv, ChanInv
  <2>3. pc'[e] # "checked" => e # c /\ pc[e] = pc'[e] /\ Sequence'[e] = Sequence[e]
    BY <1>4, <2>1
  <2> QED BY <1>2, <2>1, <2>2, <2>3
<1>25. AheadInv'
  BY <1>2, <1>10 DEF Given, NumberInv, AheadInv
<1>26. WireInv'
  <2>1. conn \in Conns \cup {NoConn}
    BY DEF Given, TypeOK
  <2>2. conn # NoConn => \A e \in Holders' : connectionID'[e] = WireId =>
          \A k \in InStep(wire[conn], Start) : wire[conn][k].seq < Written'[e]
    BY <1>10 DEF Given, NumberInv, WireInv
  <2>3. conn # NoConn /\ pc'[conn] = "pump" =>
          /\ pc[conn] = "pump" /\ connectionID'[conn] = connectionID[conn]
          /\ Written'[conn] = Written[conn]
    BY <1>4, <1>6, <2>1
  <2> QED BY <1>2, <1>7, <2>2, <2>3 DEF Given, NumberInv, WireInv
<1> QED BY <1>20, <1>21, <1>22, <1>23, <1>24, <1>25, <1>26 DEF NumberInv

LEMMA RegisterNumbers ==
  ASSUME Given, NEW c \in Conns, Register(c)
  PROVE  NumberInv'
<1>1. /\ pc[c] = "checked"
      /\ index' = index \cup {c}
      /\ IF reused[c] THEN send' = send
                      ELSE send' = [send EXCEPT ![queue[c]] = Append(@, HelloMsg(connectionID[c]))]
      /\ pc' = [pc EXCEPT ![c] = "registered"]
      /\ UNCHANGED <<request, connectionID, Sequence, reused, queue, deadQueuePointer,
                     deadQueue, lastId, wire, linked, conn, connectionId, serverSequence, written>>
  BY DEF Register, networkVars, clientVars, historyVars
<1>2. c \in Holders /\ queue[c] \in Conns
  BY <1>1 DEF Holders, Holds, Given, TypeOK
<1>3. Written' = Written /\ WireId' = WireId /\ Start' = Start
  BY <1>1 DEF Written, WireId, Start
<1>4. \A e \in Conns : pc'[e] = IF e = c THEN "registered" ELSE pc[e]
  BY <1>1 DEF Given, TypeOK
<1>5. \A e \in Conns : e \in Holders' <=> e \in Holders
  BY <1>1, <1>2, <1>4 DEF Holders, Holds, Running
<1>6. ~ reused[c] => /\ send[queue[c]] = <<>> /\ Written[c] = 0
                     /\ send'[queue[c]] = <<HelloMsg(connectionID[c])>>
  <2>1. ~ reused[c] => send[queue[c]] = <<>> /\ Written[c] = 0
    BY <1>1 DEF Given, NumberInv, FreshInv
  <2>2. Append(<<>>, HelloMsg(connectionID[c])) = <<HelloMsg(connectionID[c])>>
    OBVIOUS
  <2>3. ~ reused[c] => send' = [send EXCEPT ![queue[c]] = Append(send[queue[c]], HelloMsg(connectionID[c]))]
    BY <1>1
  <2>4. send \in [Conns -> Seq(Message)]
    BY DEF Given, TypeOK
  <2> QED BY <1>2, <2>1, <2>2, <2>3, <2>4
<1>7. \A q \in Conns : q # queue[c] => send'[q] = send[q]
  <2>1. send \in [Conns -> Seq(Message)]
    BY DEF Given, TypeOK
  <2> QED BY <1>1, <2>1
<1>8. \A e \in Holders : e # c => queue[e] # queue[c]
  BY <1>2, OneHolder
<1>9. \A e \in Conns : Waiting(e) => queue[c] # e
  BY <1>1, WaitingHoldsNothing DEF Waiting
<1>10. reused[c] => Written[c] # 0
  <2>1. reused[c] => request[c].seq # 0 /\ request[c].seq <= Written[c]
    BY <1>1, <1>2 DEF Given, NumberInv, IdInv, AheadInv
  <2>2. request[c].seq \in Nat
    BY DEF Given, TypeOK
  <2> QED BY <2>1, <2>2
<1>20. FreshInv'
  <2>1. \A e \in Conns : pc[e] = "checked" => e \in Holders
    BY DEF Holders, Holds
  <2>2. \A e \in Conns : queue[e] \in Conns
    BY DEF Given, TypeOK
  <2> QED BY <1>1, <1>3, <1>4, <1>7, <1>8, <1>9, <2>1, <2>2 DEF Given, NumberInv, FreshInv, Waiting
<1>21. LinkInv'
  BY <1>1, <1>4 DEF Given, NumberInv, LinkInv
<1>22. IdInv'
  BY <1>1, <1>3, <1>4, <1>5, HoldersAreConns DEF Given, NumberInv, IdInv
<1>23. RingsInv'
  BY <1>1, <1>3, <1>4, <1>5, HoldersAreConns DEF Given, NumberInv, RingsInv
<1>24. ChanInv'
  <2> SUFFICES ASSUME NEW e \in Holders'
               PROVE  /\ HelloUnnumbered(send[queue[e]], Written[e], connectionID[e])'
                      /\ Written'[e] = 0 /\ pc'[e] # "checked" => HelloNext(send[queue[e]])'
                      /\ Written'[e] = 0 /\ pc'[e] = "pump" => Sequence'[e] = 0
    BY DEF ChanInv
  <2>1. e \in Holders /\ e \in Conns /\ queue[e] \in Conns
    BY <1>5 DEF Holders, Given, TypeOK
  <2>2. /\ HelloUnnumbered(send[queue[e]], Written[e], connectionID[e])
        /\ Written[e] = 0 /\ pc[e] # "checked" => HelloNext(send[queue[e]])
        /\ Written[e] = 0 /\ pc[e] = "pump" => Sequence[e] = 0
    BY <2>1 DEF Given, NumberInv, ChanInv
  <2>3. CASE e # c
    <3>1. send'[queue[e]] = send[queue[e]]
      BY <1>7, <1>8, <2>1, <2>3
    <3> QED BY <1>1, <1>3, <1>4, <2>1, <2>2, <2>3, <3>1
  <2>4. CASE e = c /\ reused[c]
    BY <1>1, <1>3, <1>4, <1>10, <2>1, <2>2, <2>4
  <2>5. CASE e = c /\ ~ reused[c]
    <3> DEFINE m == HelloMsg(connectionID[c])
    <3>1. m.id = connectionID[c] /\ connectionID[c] # NoId
      BY <1>2 DEF HelloMsg, Given, NumberInv, IdInv
    <3> HIDE DEF m
    <3>2. send'[queue'[e]] = <<m>> /\ Written'[e] = 0 /\ connectionID'[e] = connectionID[c]
      BY <1>1, <1>3, <1>6, <2>5 DEF m
    <3>3. DOMAIN <<m>> = {1} /\ <<m>>[1] = m /\ <<m>> # <<>> /\ Head(<<m>>) = m
      OBVIOUS
    <3>4. pc'[e] = "registered"
      BY <1>4, <2>1, <2>5
    <3> QED BY <3>1, <3>2, <3>3, <3>4 DEF HelloUnnumbered, HelloNext
  <2> QED BY <2>3, <2>4, <2>5
<1>25. AheadInv'
  BY <1>1, <1>3, <1>5, HoldersAreConns DEF Given, NumberInv, AheadInv
<1>26. WireInv'
  BY <1>1, <1>3, <1>4, <1>5, HoldersAreConns DEF Given, NumberInv, WireInv
<1> QED BY <1>20, <1>21, <1>22, <1>23, <1>24, <1>25, <1>26 DEF NumberInv

LEMMA StartPumpNumbers ==
  ASSUME Given, NEW c \in Conns, StartPump(c)
  PROVE  NumberInv'
<1> DEFINE q == queue[c]
<1>1. PICK r : /\ r = StartOutcome(c)
               /\ deadQueue' = [deadQueue EXCEPT ![q] = r.queue]
               /\ deadQueuePointer' = [deadQueuePointer EXCEPT ![c] = r.pointer]
               /\ Sequence' = [Sequence EXCEPT ![c] = r.sequence]
               /\ IF r.outcome = "notFound"
                    THEN /\ lastId' = lastId + 1
                         /\ connectionID' = [connectionID EXCEPT ![c] = lastId + 1]
                    ELSE UNCHANGED <<lastId, connectionID>>
               /\ written' = [written EXCEPT ![q] = IF r.outcome = "notFound" THEN 1 ELSE @]
               /\ \/ WriteOk(c, r.sent) /\ pc' = [pc EXCEPT ![c] = "pump"]
                  \/ r.sent # <<>> /\ WriteError(c) /\ pc' = [pc EXCEPT ![c] = "ended"]
  BY DEF StartPump, StartOutcome
<1>2. /\ pc[c] = "registered"
      /\ UNCHANGED <<request, index, reused, queue, send, conn, connectionId, serverSequence>>
  BY DEF StartPump, clientVars
<1>3. /\ r.sequence \in Nat /\ r.sent \in Seq(SentMessage)
      /\ HelloIsZero(r.queue)
      /\ HelloFirst(r.sent)
      /\ r.outcome = "notFound" =>
           /\ reused[c] /\ Written[c] # 0
           /\ r.sequence = 1 /\ Len(r.sent) = 1
           /\ Head(r.sent).id = lastId + 1 /\ Head(r.sent).seq = 0
           /\ KeptRing(r.queue, r.pointer, 1) /\ ~ Frayed(r.queue, 1)
      /\ r.outcome # "notFound" =>
           /\ r.queue = deadQueue[q] /\ r.pointer = deadQueuePointer[c]
           /\ r.sequence >= Written[c]
           /\ Frayed(deadQueue[q], Written[c]) => r.sequence > Written[c]
           /\ \A k \in DOMAIN r.sent : r.sent[k].id = NoId
           /\ Written[c] = 0 => r.sequence = 0 /\ r.sent = <<>>
           /\ Written[c] # 0 =>
                /\ HasAll(r.sent, Sequence[c], Written[c])
                /\ r.sequence = Written[c] => Len(r.sent) = Written[c] - Sequence[c]
  BY <1>1, <1>2, StartOutcomeOnRing DEF Given
<1>4. c \in Holders /\ q \in Conns
  BY <1>2 DEF Holders, Holds, Running, Given, TypeOK
<1>5. pc'[c] \in {"pump", "ended"} /\ \A e \in Conns : e # c => pc'[e] = pc[e]
  <2>1. pc' = [pc EXCEPT ![c] = "pump"] \/ pc' = [pc EXCEPT ![c] = "ended"]
    BY <1>1
  <2>2. pc \in [Conns -> PCs]
    BY DEF Given, TypeOK
  <2> QED BY <2>1, <2>2
<1>6. \A e \in Conns : e \in Holders' <=> e \in Holders
  BY <1>2, <1>4, <1>5 DEF Holders, Holds, Running
<1>7. /\ deadQueue'[q] = r.queue /\ deadQueuePointer'[c] = r.pointer /\ Sequence'[c] = r.sequence
      /\ \A e \in Conns : e # q => deadQueue'[e] = deadQueue[e] /\ written'[e] = written[e]
      /\ written'[q] = IF r.outcome = "notFound" THEN 1 ELSE written[q]
      /\ \A e \in Conns : e # c => /\ deadQueuePointer'[e] = deadQueuePointer[e]
                                   /\ Sequence'[e] = Sequence[e]
                                   /\ connectionID'[e] = connectionID[e]
  <2>1. /\ deadQueue \in [Conns -> [Slots -> SentMessage \cup {Nil}]]
        /\ deadQueuePointer \in [Conns -> Slots]
        /\ Sequence \in [Conns -> Nat] /\ connectionID \in [Conns -> Nat]
        /\ written \in [Conns -> Nat]
    BY DEF Given, TypeOK
  <2>2. \A e \in Conns : e # c => connectionID'[e] = connectionID[e]
    BY <1>1, <2>1
  <2> QED BY <1>1, <1>4, <2>1, <2>2
<1>8. \A e \in Holders : e # c => e \in Conns /\ queue[e] \in Conns /\ queue[e] # q
  BY <1>4, OneHolder, HoldersAreConns DEF Given, TypeOK
<1>9. /\ Written'[c] = IF r.outcome = "notFound" THEN 1 ELSE Written[c]
      /\ \A e \in Holders : e # c => Written'[e] = Written[e]
  BY <1>2, <1>4, <1>7, <1>8 DEF Written
<1>16. /\ KeptRing(r.queue, r.pointer, Written'[c])
       /\ r.sequence >= Written'[c]
       /\ Frayed(r.queue, Written'[c]) => r.sequence > Written'[c]
  <2>1. KeptRing(deadQueue[q], deadQueuePointer[c], Written[c])
    BY <1>4 DEF Given, NumberInv, RingsInv
  <2> QED BY <1>3, <1>9, <2>1
<1>10. /\ wire[c] = <<>> /\ (linked[c] => c = conn)
       /\ c = conn => request[c].id = connectionId
       /\ reused[c] => connectionID[c] = request[c].id
  <2>1. c # NoConn
    BY DEF Conns, NoConn
  <2>2. wire[c] = <<>>
    BY <1>2 DEF Given, NumberInv, FreshInv
  <2>3. (linked[c] => c = conn) /\ (c = conn => request[c].id = connectionId)
    BY <1>2, <2>1 DEF Given, NumberInv, LinkInv
  <2>4. reused[c] => connectionID[c] = request[c].id
    BY <1>2 DEF Given, NumberInv, IdInv
  <2> QED BY <2>2, <2>3, <2>4
<1>11. /\ linked' = linked
       /\ \A e \in Conns : e # c => wire'[e] = wire[e]
       /\ wire'[c] = IF linked[c] THEN r.sent ELSE <<>>
  <2>1. /\ linked' = linked
        /\ wire' = IF linked[c] THEN [wire EXCEPT ![c] = @ \o r.sent] ELSE wire
    BY <1>1 DEF WriteOk, WriteError, networkVars
  <2>2. <<>> \o r.sent = r.sent
    BY <1>3
  <2> QED BY <1>10, <2>1, <2>2 DEF Given, TypeOK
<1>12. /\ lastId \in Nat /\ connectionId \in Nat /\ WireId \in Nat
       /\ connectionId <= lastId /\ WireId <= lastId
       /\ \A e \in Conns : request[e].id \in Nat /\ request[e].id <= lastId
       /\ \A e \in Holders : /\ connectionID[e] \in Nat /\ connectionID[e] # NoId
                             /\ connectionID[e] <= lastId
  BY WireIdIsNat, HoldersAreConns DEF Given, NumberInv, IdInv, TypeOK
<1>13. /\ r.outcome = "notFound" => lastId' = lastId + 1 /\ connectionID'[c] = lastId + 1
       /\ r.outcome # "notFound" => lastId' = lastId /\ connectionID'[c] = connectionID[c]
  <2>1. connectionID \in [Conns -> Nat]
    BY DEF Given, TypeOK
  <2> QED BY <1>1, <2>1
<1>14. /\ c = conn /\ linked[c] /\ r.outcome = "notFound" => WireId' = lastId + 1
       /\ ~ (c = conn /\ linked[c] /\ r.outcome = "notFound") => WireId' = WireId
  <2>1. CASE c # conn
    BY <1>2, <1>11, <2>1 DEF WireId, Given, TypeOK
  <2>2. CASE c = conn
    <3>1. conn # NoConn /\ WireId = connectionId
      BY <1>10, <2>2 DEF WireId, StreamOf, NoConn, Conns
    <3>2. WireId' = StreamOf(wire'[c], connectionId)
      BY <1>2, <2>2, <3>1 DEF WireId
    <3>3. linked[c] /\ r.outcome = "notFound" => StreamOf(r.sent, connectionId) = lastId + 1
      <4>1. r.outcome = "notFound" => r.sent # <<>>
        BY <1>3
      <4> QED BY <1>3, <1>12, <4>1 DEF StreamOf, NoId
    <3>4. r.outcome # "notFound" => StreamOf(r.sent, connectionId) = connectionId
      <4>1. r.sent # <<>> => 1 \in DOMAIN r.sent /\ Head(r.sent) = r.sent[1]
        BY <1>3
      <4> QED BY <1>3, <4>1 DEF StreamOf
    <3>5. StreamOf(<<>>, connectionId) = connectionId
      BY DEF StreamOf
    <3> QED BY <1>11, <2>2, <3>1, <3>2, <3>3, <3>4, <3>5
  <2> QED BY <2>1, <2>2
<1> HIDE DEF q
<1>15. \A d \in Holders' : d \in Holders /\ d \in Conns
  BY <1>6, HoldersAreConns
<1>20. FreshInv'
  <2> SUFFICES ASSUME NEW e \in Conns
               PROVE  /\ Waiting(e)' =>
                           /\ reused'[e] = FALSE /\ Sequence'[e] = 0 /\ deadQueuePointer'[e] = 0
                           /\ deadQueue'[e] = EmptyDeadQueue /\ send'[e] = <<>> /\ written'[e] = 0
                      /\ pc'[e] \in {"checked", "registered"} /\ ~ reused'[e] =>
                           /\ Sequence'[e] = 0 /\ Written'[e] = 0
                           /\ ~ Frayed(deadQueue[queue[e]], 0)'
                      /\ pc'[e] = "checked" /\ ~ reused'[e] => send'[queue'[e]] = <<>>
                      /\ Waiting(e)' \/ pc'[e] \in {"checked", "registered"} => wire'[e] = <<>>
    BY DEF FreshInv
  <2>1. CASE e = c
    BY <1>5, <2>1 DEF Waiting
  <2>2. CASE e # c
    <3>1. /\ pc'[e] = pc[e] /\ Sequence'[e] = Sequence[e] /\ wire'[e] = wire[e]
          /\ deadQueuePointer'[e] = deadQueuePointer[e]
      BY <1>5, <1>7, <1>11, <2>2
    <3>2. Waiting(e)' <=> Waiting(e)
      BY <3>1 DEF Waiting
    <3>3. Waiting(e) => deadQueue'[e] = deadQueue[e] /\ written'[e] = written[e]
      <4>1. Waiting(e) => q # e
        BY <2>2, WaitingHoldsNothing DEF q
      <4> QED BY <1>7, <4>1
    <3>4. pc[e] \in {"checked", "registered"} =>
            Written'[e] = Written[e] /\ deadQueue'[queue[e]] = deadQueue[queue[e]]
      <4>1. pc[e] \in {"checked", "registered"} => e \in Holders
        BY DEF Holders, Holds, Running
      <4> QED BY <1>7, <1>8, <1>9, <2>2, <4>1
    <3> QED BY <1>2, <3>1, <3>2, <3>3, <3>4 DEF Given, NumberInv, FreshInv
  <2> QED BY <2>1, <2>2
<1>21. LinkInv'
  <2>1. conn # NoConn => conn \in Conns
    BY DEF Given, TypeOK
  <2>2. conn # NoConn => pc'[conn] # "unused"
    BY <1>5, <2>1 DEF Given, NumberInv, LinkInv
  <2>3. conn # NoConn /\ pc'[conn] \in {"handshake", "checked", "registered"} =>
          request[conn].id = connectionId /\ request[conn].seq = serverSequence
    BY <1>5, <2>1 DEF Given, NumberInv, LinkInv
  <2>4. \A e \in Conns : linked'[e] \/ wire'[e] # <<>> => e = conn
    BY <1>10, <1>11 DEF Given, NumberInv, LinkInv
  <2> QED BY <1>2, <2>2, <2>3, <2>4 DEF LinkInv
<1>22. IdInv'
  <2>1. connectionId <= lastId' /\ WireId' <= lastId'
    BY <1>12, <1>13, <1>14
  <2>2. \A e \in Conns : /\ request[e].id <= lastId'
                         /\ request[e].id # NoId => request[e].seq # 0
    BY <1>12, <1>13 DEF Given, NumberInv, IdInv
  <2>3. \A e \in Holders' : connectionID'[e] # NoId /\ connectionID'[e] <= lastId'
    BY <1>4, <1>7, <1>12, <1>13, <1>15 DEF NoId
  <2>4. ASSUME NEW e \in Holders', NEW f \in Holders', connectionID'[e] = connectionID'[f]
        PROVE  e = f
    <3>1. CASE r.outcome = "notFound" /\ (e = c \/ f = c)
      BY <1>7, <1>12, <1>13, <1>15, <2>4, <3>1
    <3>2. CASE r.outcome # "notFound" \/ (e # c /\ f # c)
      <4>1. connectionID'[e] = connectionID[e] /\ connectionID'[f] = connectionID[f]
        BY <1>7, <1>13, <1>15, <3>2
      <4> QED BY <1>15, <2>4, <4>1 DEF Given, NumberInv, IdInv
    <3> QED BY <3>1, <3>2
  <2>5. \A e \in Conns : pc'[e] \in {"checked", "registered"} /\ reused[e] =>
          /\ connectionID'[e] = request[e].id /\ request[e].id # NoId
          /\ Sequence'[e] = request[e].seq
    <3> SUFFICES ASSUME NEW e \in Conns, pc'[e] \in {"checked", "registered"} /\ reused[e]
                 PROVE  /\ connectionID'[e] = request[e].id /\ request[e].id # NoId
                        /\ Sequence'[e] = request[e].seq
      OBVIOUS
    <3>1. e # c
      BY <1>5
    <3>2. pc[e] \in {"checked", "registered"}
      BY <1>5, <3>1
    <3> QED BY <1>7, <3>1, <3>2 DEF Given, NumberInv, IdInv
  <2> QED BY <1>2, <2>1, <2>2, <2>3, <2>4, <2>5 DEF Given, NumberInv, IdInv
<1>23. RingsInv'
  <2> SUFFICES ASSUME NEW e \in Holders'
               PROVE  /\ KeptRing(deadQueue[queue[e]], deadQueuePointer[e], Written[e])'
                      /\ HelloIsZero(deadQueue[queue[e]])'
                      /\ pc'[e] = "pump" =>
                           /\ Sequence'[e] >= Written'[e]
                           /\ Frayed(deadQueue[queue[e]], Written[e])' => Sequence'[e] > Written'[e]
    BY DEF RingsInv
  <2>1. CASE e = c
    <3>1. queue'[e] = q
      BY <1>2, <2>1 DEF q
    <3> QED BY <1>3, <1>7, <1>16, <2>1, <3>1
  <2>2. CASE e # c
    <3>1. /\ KeptRing(deadQueue[queue[e]], deadQueuePointer[e], Written[e])
          /\ HelloIsZero(deadQueue[queue[e]])
          /\ pc[e] = "pump" =>
               /\ Sequence[e] >= Written[e]
               /\ Frayed(deadQueue[queue[e]], Written[e]) => Sequence[e] > Written[e]
      BY <1>15 DEF Given, NumberInv, RingsInv
    <3>2. deadQueue'[queue'[e]] = deadQueue[queue[e]]
      BY <1>2, <1>7, <1>8, <1>15, <2>2
    <3> QED BY <1>5, <1>7, <1>9, <1>15, <2>2, <3>1, <3>2
  <2> QED BY <2>1, <2>2
<1>24. ChanInv'
  <2> SUFFICES ASSUME NEW e \in Holders'
               PROVE  /\ HelloUnnumbered(send[queue[e]], Written[e], connectionID[e])'
                      /\ Written'[e] = 0 /\ pc'[e] # "checked" => HelloNext(send[queue[e]])'
                      /\ Written'[e] = 0 /\ pc'[e] = "pump" => Sequence'[e] = 0
    BY DEF ChanInv
  <2>1. /\ HelloUnnumbered(send[queue[e]], Written[e], connectionID[e])
        /\ Written[e] = 0 /\ pc[e] # "checked" => HelloNext(send[queue[e]])
        /\ Written[e] = 0 /\ pc[e] = "pump" => Sequence[e] = 0
    BY <1>15 DEF Given, NumberInv, ChanInv
  <2>2. CASE e # c
    BY <1>2, <1>5, <1>7, <1>9, <1>15, <2>1, <2>2
  <2>3. CASE e = c /\ r.outcome # "notFound"
    <3>1. Written'[e] = Written[e] /\ connectionID'[e] = connectionID[e] /\ pc[e] # "checked"
      BY <1>2, <1>3, <1>9, <1>13, <2>3
    <3>2. Written'[e] = 0 => Sequence'[e] = 0
      BY <1>3, <1>7, <2>3, <3>1
    <3> QED BY <1>2, <2>1, <3>1, <3>2
  <2>4. CASE e = c /\ r.outcome = "notFound"
    <3>1. Written'[e] = 1 /\ Written[e] # 0
      BY <1>3, <1>9, <2>4
    <3> QED BY <1>2, <2>1, <3>1 DEF HelloUnnumbered
  <2> QED BY <2>2, <2>3, <2>4
<1>25. AheadInv'
  <2> SUFFICES ASSUME NEW d \in Holders'
               PROVE  /\ connectionID'[d] = connectionId => serverSequence <= Written'[d]
                      /\ \A e \in Conns : connectionID'[d] = request[e].id =>
                           request[e].seq <= Written'[d]
    BY <1>2 DEF AheadInv
  <2>1. /\ connectionID[d] = connectionId => serverSequence <= Written[d]
        /\ \A e \in Conns : connectionID[d] = request[e].id => request[e].seq <= Written[d]
    BY <1>15 DEF Given, NumberInv, AheadInv
  <2>2. CASE d = c /\ r.outcome = "notFound"
    BY <1>12, <1>13, <2>2
  <2>3. CASE d # c \/ r.outcome # "notFound"
    <3>1. Written'[d] = Written[d] /\ connectionID'[d] = connectionID[d]
      BY <1>3, <1>7, <1>9, <1>13, <1>15, <2>3
    <3> QED BY <2>1, <3>1
  <2> QED BY <2>2, <2>3
<1>26. WireInv'
  <2> SUFFICES ASSUME conn # NoConn
               PROVE  /\ HelloFirst(wire'[conn])
                      /\ \A d \in Holders' : connectionID'[d] = WireId' =>
                           \A k \in InStep(wire'[conn], Start') : wire'[conn][k].seq < Written'[d]
                      /\ linked'[conn] /\ pc'[conn] = "pump" =>
                           IF Written'[conn] = 0
                             THEN wire'[conn] = <<>>
                             ELSE /\ WireId' = connectionID'[conn]
                                  /\ HasAll(wire'[conn], Start', Written'[conn])
                                  /\ Sequence'[conn] = Written'[conn] =>
                                       Len(wire'[conn]) = Written'[conn] - Start'
    BY <1>2 DEF WireInv
  <2>1. conn \in Conns
    BY DEF Given, TypeOK
  <2>2. /\ HelloFirst(wire[conn])
        /\ \A d \in Holders : connectionID[d] = WireId =>
             \A k \in InStep(wire[conn], Start) : wire[conn][k].seq < Written[d]
        /\ linked[conn] /\ pc[conn] = "pump" =>
             IF Written[conn] = 0
               THEN wire[conn] = <<>>
               ELSE /\ WireId = connectionID[conn]
                    /\ HasAll(wire[conn], Start, Written[conn])
                    /\ Sequence[conn] = Written[conn] => Len(wire[conn]) = Written[conn] - Start
    BY DEF Given, NumberInv, WireInv
  <2>3. CASE conn # c
    <3>1. /\ wire'[conn] = wire[conn] /\ WireId' = WireId /\ pc'[conn] = pc[conn]
          /\ Start' = Start /\ Sequence'[conn] = Sequence[conn]
      BY <1>2, <1>5, <1>7, <1>11, <1>14, <2>1, <2>3 DEF Start
    <3>2. \A d \in Holders' : connectionID'[d] = WireId =>
            \A k \in InStep(wire[conn], Start) : wire[conn][k].seq < Written'[d]
      <4> SUFFICES ASSUME NEW d \in Holders', connectionID'[d] = WireId
                   PROVE  \A k \in InStep(wire[conn], Start) : wire[conn][k].seq < Written'[d]
        OBVIOUS
      <4>1. d # c \/ r.outcome # "notFound"
        BY <1>12, <1>13
      <4>2. Written'[d] = Written[d] /\ connectionID'[d] = connectionID[d]
        BY <1>3, <1>7, <1>9, <1>13, <1>15, <4>1
      <4> QED BY <1>15, <2>2, <4>2
    <3>3. pc[conn] = "pump" => Written'[conn] = Written[conn] /\ connectionID'[conn] = connectionID[conn]
      <4>1. pc[conn] = "pump" => conn \in Holders
        BY <2>1 DEF Holders, Holds, Running
      <4> QED BY <1>7, <1>9, <2>1, <2>3, <4>1
    <3> QED BY <1>11, <2>2, <3>1, <3>2, <3>3
  <2>4. CASE conn = c /\ ~ linked[c]
    BY <1>11, <2>4, EmptyInStep DEF HelloFirst
  <2>5. CASE conn = c /\ linked[c]
    <3>1. wire'[conn] = r.sent /\ HelloFirst(r.sent)
      BY <1>3, <1>11, <2>5
    <3>2. WireId = connectionId
      BY <1>10, <2>5 DEF WireId, StreamOf
    <3>3. Written[c] # 0 => WireId' = connectionID'[c]
      <4>1. Written[c] # 0 => reused[c]
        BY <1>2 DEF Given, NumberInv, FreshInv
      <4> QED BY <1>10, <1>13, <1>14, <2>5, <3>2, <4>1
    <3>4. Written[c] = 0 => r.outcome # "notFound" /\ r.sent = <<>> /\ Written'[c] = 0
      BY <1>3, <1>9
    <3>7. Written[c] # 0 => /\ HasAll(r.sent, Start', Written'[c])
                            /\ r.sequence = Written'[c] => Len(r.sent) = Written'[c] - Start'
      <4> SUFFICES ASSUME Written[c] # 0
                   PROVE  /\ HasAll(r.sent, Start', Written'[c])
                          /\ r.sequence = Written'[c] => Len(r.sent) = Written'[c] - Start'
        OBVIOUS
      <4>1. CASE r.outcome = "notFound"
        <5>1. WireId' # connectionId
          BY <1>12, <1>14, <2>5, <4>1
        <5>2. Start' = 0 /\ Written'[c] = 1
          BY <1>2, <1>9, <4>1, <5>1 DEF Start
        <5>3. Len(r.sent) = 1 /\ r.sent[1].seq = 0
          BY <1>3, <4>1
        <5> QED BY <5>2, <5>3 DEF HasAll
      <4>2. CASE r.outcome # "notFound"
        <5>1. reused[c]
          BY <1>2 DEF Given, NumberInv, FreshInv
        <5>2. Sequence[c] = serverSequence
          BY <1>2, <2>5, <5>1 DEF Given, NumberInv, IdInv, LinkInv
        <5>3. Start' = serverSequence
          BY <1>2, <1>14, <3>2, <4>2 DEF Start
        <5> QED BY <1>3, <1>9, <4>2, <5>2, <5>3
      <4> QED BY <4>1, <4>2
    <3>5. ASSUME NEW d \in Holders', connectionID'[d] = WireId', NEW k \in InStep(r.sent, Start')
          PROVE  r.sent[k].seq < Written'[d]
      <4>1. CASE Written[c] = 0
        BY <3>4, <3>5, <4>1, EmptyInStep
      <4>2. CASE Written[c] # 0
        <5>1. d = c
          BY <1>4, <1>6, <1>22, <3>3, <3>5, <4>2 DEF IdInv
        <5>2. Start' \in Nat
          BY DEF Given, TypeOK, Start
        <5>3. Written'[c] \in Nat
          BY <1>16, KeptRingTypes
        <5> QED BY <1>3, <3>5, <3>7, <4>2, <5>1, <5>2, <5>3, InStepIsBelow
      <4> QED BY <4>1, <4>2
    <3>6. IF Written'[c] = 0
            THEN r.sent = <<>>
            ELSE /\ WireId' = connectionID'[c]
                 /\ HasAll(r.sent, Start', Written'[c])
                 /\ r.sequence = Written'[c] => Len(r.sent) = Written'[c] - Start'
      <4>1. Written[c] # 0 => Written'[c] # 0
        BY <1>9
      <4> QED BY <3>3, <3>4, <3>7, <4>1
    <3> QED BY <1>7, <2>5, <3>1, <3>5, <3>6
  <2> QED BY <2>3, <2>4, <2>5
<1> QED BY <1>20, <1>21, <1>22, <1>23, <1>24, <1>25, <1>26 DEF NumberInv

LEMMA PumpMessageNumbers ==
  ASSUME Given, NEW c \in Conns, PumpMessage(c)
  PROVE  NumberInv'
<1> DEFINE q == queue[c]
           n == Written[c]
           s == Sequence[c]
           n2 == IF s = n THEN n + 1 ELSE n
           m == Head(send[q])
           evt == SetSequence(m, s)
<1>1. /\ pc[c] = "pump" /\ send[q] # <<>>
      /\ send' = [send EXCEPT ![q] = Tail(@)]
      /\ Sequence' = [Sequence EXCEPT ![c] = @ + 1]
      /\ deadQueue' = [deadQueue EXCEPT ![q] = AddToDeadQueue(@, deadQueuePointer[c], evt)]
      /\ deadQueuePointer' = [deadQueuePointer EXCEPT ![c] = NextSlot(@)]
      /\ written' = [written EXCEPT ![q] = IF s = @ THEN @ + 1 ELSE @]
      /\ \/ WriteOk(c, <<evt>>) /\ UNCHANGED pc
         \/ WriteError(c) /\ pc' = [pc EXCEPT ![c] = "ended"]
      /\ UNCHANGED <<request, index, connectionID, reused, queue, lastId, conn,
                     connectionId, serverSequence>>
  BY DEF PumpMessage, clientVars
<1>2. c \in Holders /\ q \in Conns /\ c # NoConn
  BY <1>1 DEF Holders, Holds, Running, Given, TypeOK, Conns, NoConn
<1>3. /\ KeptRing(deadQueue[q], deadQueuePointer[c], n) /\ n \in Nat
      /\ HelloIsZero(deadQueue[q])
      /\ s \in Nat /\ s >= n /\ (Frayed(deadQueue[q], n) => s > n)
  <2>1. /\ KeptRing(deadQueue[q], deadQueuePointer[c], n)
        /\ HelloIsZero(deadQueue[q])
        /\ s >= n /\ (Frayed(deadQueue[q], n) => s > n)
    BY <1>1, <1>2 DEF Given, NumberInv, RingsInv
  <2>2. s \in Nat
    BY DEF Given, TypeOK
  <2> QED BY <2>1, <2>2, KeptRingTypes
<1>4. send[q] \in Seq(Message) /\ m \in Message
  <2>1. send[q] \in Seq(Message)
    BY <1>2 DEF Given, TypeOK
  <2> QED BY <1>1, <2>1
<1>5. evt \in SentMessage /\ evt.seq = s /\ evt.id = m.id /\ evt # Nil
  BY <1>3, <1>4, NumberedMessage, NilAssumption
<1>6. /\ \A i, k : HelloUnnumbered(Tail(send[q]), k, i)
      /\ m.id # NoId <=> n = 0
      /\ s = 0 <=> n = 0
      /\ m.id # NoId => m.id = connectionID[c]
  <2>1. /\ HelloUnnumbered(send[q], n, connectionID[c])
        /\ n = 0 => HelloNext(send[q]) /\ s = 0
    BY <1>1, <1>2 DEF Given, NumberInv, ChanInv
  <2>2. n = 0 => m.id # NoId
    BY <2>1 DEF HelloNext
  <2> QED BY <1>1, <1>3, <1>4, <2>1, <2>2, ChannelTail
<1> HIDE DEF q, n, m, evt, s
<1>7. /\ deadQueue'[q] = AddToDeadQueue(deadQueue[q], deadQueuePointer[c], evt)
      /\ deadQueuePointer'[c] = NextSlot(deadQueuePointer[c])
      /\ send'[q] = Tail(send[q]) /\ Sequence'[c] = s + 1
      /\ \A e \in Conns : e # q => /\ deadQueue'[e] = deadQueue[e] /\ send'[e] = send[e]
                                   /\ written'[e] = written[e]
      /\ written'[q] = n2
      /\ \A e \in Conns : e # c => /\ deadQueuePointer'[e] = deadQueuePointer[e]
                                   /\ Sequence'[e] = Sequence[e]
  <2>1. /\ deadQueue \in [Conns -> [Slots -> SentMessage \cup {Nil}]]
        /\ deadQueuePointer \in [Conns -> Slots]
        /\ Sequence \in [Conns -> Nat] /\ send \in [Conns -> Seq(Message)]
        /\ written \in [Conns -> Nat]
    BY DEF Given, TypeOK
  <2>2. written[q] = n
    BY DEF Written, n, q
  <2>3. s = Sequence[c]
    BY DEF s
  <2> QED BY <1>1, <1>2, <1>3, <2>1, <2>2, <2>3
<1>8. /\ KeptRing(deadQueue'[q], deadQueuePointer'[c], n2)
      /\ Frayed(deadQueue'[q], n2) => s + 1 > n2
      /\ n2 \in Nat /\ n2 # 0 /\ n2 >= n /\ s + 1 >= n2
  <2>1. CASE s = n
    <3>1. evt.seq = n /\ evt.seq \in Nat /\ ~ Frayed(deadQueue[q], n)
      BY <1>3, <1>5, <2>1
    <3>2. KeptRing(deadQueue'[q], deadQueuePointer'[c], n + 1) /\ ~ Frayed(deadQueue'[q], n + 1)
      BY <1>3, <1>5, <1>7, <3>1, AddKeeps
    <3> QED BY <1>3, <2>1, <3>2
  <2>2. CASE s # n
    <3>1. evt.seq > n /\ evt.seq \in Nat
      BY <1>3, <1>5, <2>2
    <3>2. KeptRing(deadQueue'[q], deadQueuePointer'[c], n)
      BY <1>3, <1>5, <1>7, <3>1, AddKeeps
    <3> QED BY <1>3, <1>6, <2>2, <3>2
  <2> QED BY <2>1, <2>2
<1> HIDE DEF n2
<1>9. HelloIsZero(deadQueue'[q])
  <2>1. deadQueue[q] \in [Slots -> SentMessage \cup {Nil}] /\ deadQueuePointer[c] \in Slots
    BY <1>2 DEF Given, TypeOK
  <2>2. \A i \in Slots : deadQueue'[q][i] = IF i = deadQueuePointer[c] THEN evt ELSE deadQueue[q][i]
    BY <1>7, <2>1 DEF AddToDeadQueue
  <2> QED BY <1>3, <1>5, <1>6, <2>2 DEF HelloIsZero, Taken
<1>10. pc'[c] \in {"pump", "ended"} /\ \A e \in Conns : e # c => pc'[e] = pc[e]
  <2>1. pc \in [Conns -> PCs]
    BY DEF Given, TypeOK
  <2> QED BY <1>1, <2>1
<1>11. \A e \in Conns : e \in Holders' <=> e \in Holders
  BY <1>1, <1>2, <1>10 DEF Holders, Holds, Running
<1>12. \A d \in Holders' : d \in Holders /\ d \in Conns
  BY <1>11, HoldersAreConns
<1>13. \A e \in Holders : e # c => e \in Conns /\ queue[e] \in Conns /\ queue[e] # q
  BY <1>2, OneHolder, HoldersAreConns DEF Given, TypeOK, q
<1>14. /\ Written'[c] = n2
       /\ \A e \in Holders : e # c => Written'[e] = Written[e]
  <2>1. queue'[c] = q
    BY <1>1 DEF q
  <2> QED BY <1>1, <1>7, <1>13, <2>1 DEF Written
<1>15. linked[c] => c = conn
  BY DEF Given, NumberInv, LinkInv
<1>16. /\ linked' = linked
       /\ linked[c] => wire'[c] = wire[c] \o <<evt>>
       /\ \A e \in Conns : e # c \/ ~ linked[c] => wire'[e] = wire[e]
  <2>1. /\ linked' = linked
        /\ wire' = IF linked[c] THEN [wire EXCEPT ![c] = @ \o <<evt>>] ELSE wire
    BY <1>1 DEF WriteOk, WriteError, networkVars
  <2>2. wire \in [Conns -> Seq(SentMessage)]
    BY DEF Given, TypeOK
  <2> QED BY <2>1, <2>2
<1>17. ASSUME linked[c]
       PROVE  /\ HelloFirst(wire'[c])
              /\ WireId' = connectionID[c]
              /\ HasAll(wire'[c], Start', n2)
              /\ s + 1 = n2 => Len(wire'[c]) = n2 - Start'
  <2>1. c = conn
    BY <1>15, <1>17
  <2>2. /\ HelloFirst(wire[c])
        /\ IF n = 0 THEN wire[c] = <<>>
                    ELSE /\ WireId = connectionID[c]
                         /\ HasAll(wire[c], Start, n)
                         /\ s = n => Len(wire[c]) = n - Start
    BY <1>1, <1>2, <1>17, <2>1 DEF Given, NumberInv, WireInv, n, s
  <2>4. wire[c] \in Seq(SentMessage)
    BY DEF Given, TypeOK
  <2>5. /\ n # 0 => /\ HelloFirst(wire[c] \o <<evt>>)
                    /\ \A id : StreamOf(wire[c] \o <<evt>>, id) = StreamOf(wire[c], id)
        /\ n = 0 => /\ HelloFirst(wire[c] \o <<evt>>)
                    /\ \A id : StreamOf(wire[c] \o <<evt>>, id) = evt.id
    BY <1>3, <1>5, <1>6, <2>2, <2>4, SocketAppend
  <2>6. /\ WireId = StreamOf(wire[c], connectionId)
        /\ WireId' = StreamOf(wire'[c], connectionId)
    BY <1>1, <1>2, <2>1 DEF WireId
  <2>7. WireId' = connectionID[c]
    BY <1>5, <1>6, <1>16, <1>17, <2>2, <2>5, <2>6
  <2>8. n = 0 => Start' = 0
    <3>1. connectionID[c] = connectionId => serverSequence <= n /\ serverSequence # 0
      BY <1>2 DEF Given, NumberInv, AheadInv, IdInv, n
    <3>2. serverSequence \in Nat
      BY DEF Given, TypeOK
    <3> QED BY <1>1, <2>7, <3>1, <3>2 DEF Start
  <2>9. n # 0 => Start' = Start
    BY <1>1, <2>2, <2>7 DEF Start
  <2>10. Start \in Nat
    BY DEF Given, TypeOK, Start
  <2>11. Len(wire'[c]) = Len(wire[c]) + 1 /\ Len(wire[c]) \in Nat
    BY <1>16, <1>17, <2>4
  <2>12. CASE n = 0
    <3>1. wire[c] = <<>> /\ s = n /\ n2 = 1
      BY <1>6, <2>2, <2>12 DEF n2
    <3>2. HasAll(<<>>, 0, 0) /\ Len(<<>>) = 0 - 0
      BY DEF HasAll
    <3>3. HasAll(wire[c] \o <<evt>>, 0, 0 + 1)
      BY <1>5, <2>4, <2>12, <3>1, <3>2, SocketAppend
    <3>4. 0 + 1 = 1 /\ Len(wire[c]) = 0
      BY <3>1
    <3> QED BY <1>16, <1>17, <2>5, <2>7, <2>8, <2>11, <2>12, <3>1, <3>3, <3>4
  <2>13. CASE n # 0 /\ s = n
    <3>1. HasAll(wire[c] \o <<evt>>, Start, n + 1)
      BY <1>3, <1>5, <2>2, <2>4, <2>10, <2>13, SocketAppend
    <3>2. n2 = n + 1 /\ Len(wire'[c]) = n2 - Start
      BY <1>3, <2>2, <2>10, <2>11, <2>13 DEF n2
    <3> QED BY <1>16, <1>17, <2>5, <2>7, <2>9, <2>13, <3>1, <3>2
  <2>14. CASE n # 0 /\ s # n
    <3>1. evt.seq > n
      BY <1>3, <1>5, <2>14
    <3>2. HasAll(wire[c] \o <<evt>>, Start, n)
      BY <1>3, <1>5, <2>2, <2>4, <2>10, <2>14, <3>1, SocketAppend
    <3>3. n2 = n /\ s + 1 # n2
      BY <1>3, <2>14 DEF n2
    <3> QED BY <1>16, <1>17, <2>5, <2>7, <2>9, <2>14, <3>2, <3>3
  <2> QED BY <2>12, <2>13, <2>14
<1>18. ~ linked[c] => wire' = wire /\ WireId' = WireId /\ Start' = Start
  <2>1. ~ linked[c] => wire' = wire
    BY <1>1 DEF WriteOk, WriteError, networkVars
  <2> QED BY <1>1, <2>1 DEF WireId, Start
<1>19. /\ connectionId <= lastId /\ WireId <= lastId
       /\ connectionID[c] <= lastId
  BY <1>2 DEF Given, NumberInv, IdInv
<1>20. FreshInv'
  <2> SUFFICES ASSUME NEW e \in Conns
               PROVE  /\ Waiting(e)' =>
                           /\ reused'[e] = FALSE /\ Sequence'[e] = 0 /\ deadQueuePointer'[e] = 0
                           /\ deadQueue'[e] = EmptyDeadQueue /\ send'[e] = <<>> /\ written'[e] = 0
                      /\ pc'[e] \in {"checked", "registered"} /\ ~ reused'[e] =>
                           /\ Sequence'[e] = 0 /\ Written'[e] = 0
                           /\ ~ Frayed(deadQueue[queue[e]], 0)'
                      /\ pc'[e] = "checked" /\ ~ reused'[e] => send'[queue'[e]] = <<>>
                      /\ Waiting(e)' \/ pc'[e] \in {"checked", "registered"} => wire'[e] = <<>>
    BY DEF FreshInv
  <2>1. CASE e = c
    BY <1>10, <2>1 DEF Waiting
  <2>2. CASE e # c
    <3>1. /\ pc'[e] = pc[e] /\ Sequence'[e] = Sequence[e] /\ wire'[e] = wire[e]
          /\ deadQueuePointer'[e] = deadQueuePointer[e]
      BY <1>7, <1>10, <1>16, <2>2
    <3>2. Waiting(e)' <=> Waiting(e)
      BY <3>1 DEF Waiting
    <3>3. Waiting(e) => /\ deadQueue'[e] = deadQueue[e] /\ send'[e] = send[e]
                        /\ written'[e] = written[e]
      <4>1. Waiting(e) => q # e
        BY <2>2, WaitingHoldsNothing DEF q
      <4> QED BY <1>7, <4>1
    <3>4. pc[e] \in {"checked", "registered"} =>
            /\ Written'[e] = Written[e] /\ send'[queue[e]] = send[queue[e]]
            /\ deadQueue'[queue[e]] = deadQueue[queue[e]]
      <4>1. pc[e] \in {"checked", "registered"} => e \in Holders
        BY DEF Holders, Holds, Running
      <4> QED BY <1>7, <1>13, <1>14, <2>2, <4>1
    <3> QED BY <1>1, <3>1, <3>2, <3>3, <3>4 DEF Given, NumberInv, FreshInv
  <2> QED BY <2>1, <2>2
<1>21. LinkInv'
  <2>1. conn # NoConn => conn \in Conns
    BY DEF Given, TypeOK
  <2>2. conn # NoConn => pc'[conn] # "unused"
    BY <1>10, <2>1 DEF Given, NumberInv, LinkInv
  <2>3. conn # NoConn /\ pc'[conn] \in {"handshake", "checked", "registered"} =>
          request[conn].id = connectionId /\ request[conn].seq = serverSequence
    BY <1>10, <2>1 DEF Given, NumberInv, LinkInv
  <2>4. \A e \in Conns : linked'[e] \/ wire'[e] # <<>> => e = conn
    BY <1>15, <1>16 DEF Given, NumberInv, LinkInv
  <2> QED BY <1>1, <2>2, <2>3, <2>4 DEF LinkInv
<1>22. IdInv'
  <2>1. connectionId <= lastId /\ WireId' <= lastId
    BY <1>17, <1>18, <1>19
  <2>2. \A e \in Conns : pc'[e] \in {"checked", "registered"} /\ reused[e] =>
          /\ connectionID[e] = request[e].id /\ request[e].id # NoId
          /\ Sequence'[e] = request[e].seq
    <3> SUFFICES ASSUME NEW e \in Conns, pc'[e] \in {"checked", "registered"} /\ reused[e]
                 PROVE  /\ connectionID[e] = request[e].id /\ request[e].id # NoId
                        /\ Sequence'[e] = request[e].seq
      OBVIOUS
    <3>1. e # c
      BY <1>10
    <3>2. pc[e] \in {"checked", "registered"}
      BY <1>10, <3>1
    <3> QED BY <1>7, <3>1, <3>2 DEF Given, NumberInv, IdInv
  <2> QED BY <1>1, <1>12, <2>1, <2>2 DEF Given, NumberInv, IdInv
<1>23. RingsInv'
  <2> SUFFICES ASSUME NEW e \in Holders'
               PROVE  /\ KeptRing(deadQueue[queue[e]], deadQueuePointer[e], Written[e])'
                      /\ HelloIsZero(deadQueue[queue[e]])'
                      /\ pc'[e] = "pump" =>
                           /\ Sequence'[e] >= Written'[e]
                           /\ Frayed(deadQueue[queue[e]], Written[e])' => Sequence'[e] > Written'[e]
    BY DEF RingsInv
  <2>1. CASE e = c
    <3>1. queue'[e] = q
      BY <1>1, <2>1 DEF q
    <3> QED BY <1>7, <1>8, <1>9, <1>14, <2>1, <3>1
  <2>2. CASE e # c
    <3>1. /\ KeptRing(deadQueue[queue[e]], deadQueuePointer[e], Written[e])
          /\ HelloIsZero(deadQueue[queue[e]])
          /\ pc[e] = "pump" =>
               /\ Sequence[e] >= Written[e]
               /\ Frayed(deadQueue[queue[e]], Written[e]) => Sequence[e] > Written[e]
      BY <1>12 DEF Given, NumberInv, RingsInv
    <3>2. deadQueue'[queue'[e]] = deadQueue[queue[e]]
      BY <1>1, <1>7, <1>12, <1>13, <2>2
    <3> QED BY <1>7, <1>10, <1>12, <1>14, <2>2, <3>1, <3>2
  <2> QED BY <2>1, <2>2
<1>24. ChanInv'
  <2> SUFFICES ASSUME NEW e \in Holders'
               PROVE  /\ HelloUnnumbered(send[queue[e]], Written[e], connectionID[e])'
                      /\ Written'[e] = 0 /\ pc'[e] # "checked" => HelloNext(send[queue[e]])'
                      /\ Written'[e] = 0 /\ pc'[e] = "pump" => Sequence'[e] = 0
    BY DEF ChanInv
  <2>1. CASE e # c
    <3>1. /\ HelloUnnumbered(send[queue[e]], Written[e], connectionID[e])
          /\ Written[e] = 0 /\ pc[e] # "checked" => HelloNext(send[queue[e]])
          /\ Written[e] = 0 /\ pc[e] = "pump" => Sequence[e] = 0
      BY <1>12 DEF Given, NumberInv, ChanInv
    <3>2. send'[queue'[e]] = send[queue[e]]
      BY <1>1, <1>7, <1>12, <1>13, <2>1
    <3> QED BY <1>1, <1>7, <1>10, <1>12, <1>14, <2>1, <3>1, <3>2
  <2>2. CASE e = c
    <3>1. send'[queue'[e]] = Tail(send[q]) /\ Written'[e] # 0
      BY <1>1, <1>7, <1>8, <1>14, <2>2 DEF q
    <3> QED BY <1>6, <3>1
  <2> QED BY <2>1, <2>2
<1>25. AheadInv'
  <2> SUFFICES ASSUME NEW d \in Holders'
               PROVE  /\ connectionID[d] = connectionId => serverSequence <= Written'[d]
                      /\ \A e \in Conns : connectionID[d] = request[e].id =>
                           request[e].seq <= Written'[d]
    BY <1>1 DEF AheadInv
  <2>1. /\ connectionID[d] = connectionId => serverSequence <= Written[d]
        /\ \A e \in Conns : connectionID[d] = request[e].id => request[e].seq <= Written[d]
    BY <1>12 DEF Given, NumberInv, AheadInv
  <2>2. Written'[d] = Written[d] \/ d = c
    BY <1>12, <1>14
  <2>3. serverSequence \in Nat /\ \A e \in Conns : request[e].seq \in Nat
    BY DEF Given, TypeOK
  <2>4. CASE d = c
    <3>1. Written[d] = n /\ Written'[d] = n2
      BY <1>14, <2>4 DEF n
    <3> QED BY <1>3, <1>8, <2>1, <2>3, <3>1
  <2> QED BY <2>1, <2>2, <2>4
<1>26. WireInv'
  <2> SUFFICES ASSUME conn # NoConn
               PROVE  /\ HelloFirst(wire'[conn])
                      /\ \A d \in Holders' : connectionID[d] = WireId' =>
                           \A k \in InStep(wire'[conn], Start') : wire'[conn][k].seq < Written'[d]
                      /\ linked[conn] /\ pc'[conn] = "pump" =>
                           IF Written'[conn] = 0
                             THEN wire'[conn] = <<>>
                             ELSE /\ WireId' = connectionID[conn]
                                  /\ HasAll(wire'[conn], Start', Written'[conn])
                                  /\ Sequence'[conn] = Written'[conn] =>
                                       Len(wire'[conn]) = Written'[conn] - Start'
    BY <1>1, <1>16 DEF WireInv
  <2>1. conn \in Conns
    BY DEF Given, TypeOK
  <2>2. /\ HelloFirst(wire[conn])
        /\ \A d \in Holders : connectionID[d] = WireId =>
             \A k \in InStep(wire[conn], Start) : wire[conn][k].seq < Written[d]
        /\ linked[conn] /\ pc[conn] = "pump" =>
             IF Written[conn] = 0
               THEN wire[conn] = <<>>
               ELSE /\ WireId = connectionID[conn]
                    /\ HasAll(wire[conn], Start, Written[conn])
                    /\ Sequence[conn] = Written[conn] => Len(wire[conn]) = Written[conn] - Start
    BY DEF Given, NumberInv, WireInv
  <2>3. CASE linked[c]
    <3>1. conn = c
      BY <1>15, <2>3
    <3>2. \A d \in Holders' : connectionID[d] = WireId' => d = c
      BY <1>2, <1>12, <1>17, <2>3 DEF Given, NumberInv, IdInv
    <3>3. \A k \in InStep(wire'[c], Start') : wire'[c][k].seq < n2
      <4>1. wire'[c] \in Seq(SentMessage) /\ Start' \in Nat
        BY DEF Given, TypeOK, Start
      <4> QED BY <1>8, <1>17, <2>3, <4>1, InStepIsBelow
    <3> QED BY <1>7, <1>8, <1>14, <1>17, <2>3, <3>1, <3>2, <3>3
  <2>4. CASE ~ linked[c]
    <3>1. \A d \in Holders' : connectionID[d] = WireId =>
            \A k \in InStep(wire[conn], Start) : wire[conn][k].seq < Written'[d]
      <4> SUFFICES ASSUME NEW d \in Holders', connectionID[d] = WireId,
                          NEW k \in InStep(wire[conn], Start)
                   PROVE  wire[conn][k].seq < Written'[d]
        OBVIOUS
      <4>1. wire[conn][k].seq < Written[d]
        BY <1>12, <2>2
      <4>2. CASE d # c
        BY <1>12, <1>14, <4>1, <4>2
      <4>3. CASE d = c
        <5>1. wire[conn][k].seq \in Nat
          BY <2>1, SocketNumbers DEF Given, TypeOK, InStep
        <5>2. wire[conn][k].seq < n /\ Written'[d] = n2
          BY <1>14, <4>1, <4>3 DEF n
        <5> QED BY <1>3, <1>8, <5>1, <5>2
      <4> QED BY <4>2, <4>3
    <3>2. linked[conn] => pc'[conn] = pc[conn] /\ conn # c
      BY <1>10, <2>1, <2>4
    <3>3. linked[conn] /\ pc[conn] = "pump" => Written'[conn] = Written[conn]
      <4>1. pc[conn] = "pump" => conn \in Holders
        BY <2>1 DEF Holders, Holds, Running
      <4> QED BY <1>14, <3>2, <4>1
    <3>4. linked[conn] => Sequence'[conn] = Sequence[conn]
      BY <1>7, <2>1, <3>2
    <3> QED BY <1>18, <2>2, <2>4, <3>1, <3>2, <3>3, <3>4
  <2> QED BY <2>3, <2>4
<1> QED BY <1>20, <1>21, <1>22, <1>23, <1>24, <1>25, <1>26 DEF NumberInv

LEMMA PumpEncodeErrorNumbers ==
  ASSUME Given, NEW c \in Conns, PumpEncodeError(c)
  PROVE  NumberInv'
<1> DEFINE q == queue[c]
<1>1. /\ pc[c] = "pump" /\ send[q] # <<>> /\ Head(send[q]).id = NoId
      /\ send' = [send EXCEPT ![q] = Tail(@)]
      /\ Sequence' = [Sequence EXCEPT ![c] = @ + 1]
      /\ UNCHANGED <<pc, request, index, connectionID, reused, queue, deadQueuePointer, deadQueue,
                     lastId, wire, linked, conn, connectionId, serverSequence, written>>
  BY DEF PumpEncodeError, networkVars, clientVars
<1>2. c \in Holders /\ q \in Conns
  BY <1>1 DEF Holders, Holds, Running, Given, TypeOK
<1>3. /\ Written' = Written /\ WireId' = WireId /\ Start' = Start /\ Holders' = Holders
      /\ \A e \in Conns : Waiting(e)' <=> Waiting(e)
  BY <1>1 DEF Written, WireId, Start, Holders, Holds, Running, Waiting
<1>4. send[q] \in Seq(Message) /\ HelloUnnumbered(send[q], Written[c], connectionID[c])
  BY <1>2 DEF Given, TypeOK, NumberInv, ChanInv
<1>5. Written[c] \in Nat /\ Written[c] # 0
  <2>1. Written[c] \in Nat
    BY <1>2, KeptRingTypes DEF Given, NumberInv, RingsInv
  <2>2. Written[c] = 0 => Head(send[q]).id # NoId
    BY <1>1, <1>2 DEF Given, NumberInv, ChanInv, HelloNext
  <2> QED BY <1>1, <2>1, <2>2
<1>6. \A i, k : HelloUnnumbered(Tail(send[q]), k, i)
  BY <1>1, <1>4, <1>5, ChannelTail
<1>7. \A e \in Holders : e # c => e \in Conns /\ queue[e] \in Conns /\ queue[e] # q
  BY <1>2, OneHolder, HoldersAreConns DEF Given, TypeOK
<1> HIDE DEF q
<1>8. /\ send'[q] = Tail(send[q]) /\ Sequence'[c] = Sequence[c] + 1 /\ Sequence[c] \in Nat
      /\ \A e \in Conns : e # q => send'[e] = send[e]
      /\ \A e \in Conns : e # c => Sequence'[e] = Sequence[e]
  <2>1. Sequence \in [Conns -> Nat] /\ send \in [Conns -> Seq(Message)]
    BY DEF Given, TypeOK
  <2> QED BY <1>1, <1>2, <2>1
<1>9. Sequence[c] >= Written[c]
  BY <1>1, <1>2 DEF Given, NumberInv, RingsInv
<1>20. FreshInv'
  <2> SUFFICES ASSUME NEW e \in Conns
               PROVE  /\ Waiting(e) =>
                           /\ reused[e] = FALSE /\ Sequence'[e] = 0 /\ deadQueuePointer[e] = 0
                           /\ deadQueue[e] = EmptyDeadQueue /\ send'[e] = <<>> /\ written[e] = 0
                      /\ pc[e] \in {"checked", "registered"} /\ ~ reused[e] =>
                           /\ Sequence'[e] = 0 /\ Written[e] = 0
                           /\ ~ Frayed(deadQueue[queue[e]], 0)
                      /\ pc[e] = "checked" /\ ~ reused[e] => send'[queue[e]] = <<>>
                      /\ Waiting(e) \/ pc[e] \in {"checked", "registered"} => wire[e] = <<>>
    BY <1>1, <1>3 DEF FreshInv
  <2>1. Waiting(e) => e # c /\ e # q
    BY <1>1, WaitingHoldsNothing DEF Waiting, q
  <2>2. pc[e] \in {"checked", "registered"} => e # c /\ send'[queue[e]] = send[queue[e]]
    <3>1. pc[e] \in {"checked", "registered"} => e # c /\ e \in Holders
      BY <1>1 DEF Holders, Holds, Running
    <3> QED BY <1>7, <1>8, <3>1
  <2> QED BY <1>8, <2>1, <2>2 DEF Given, NumberInv, FreshInv
<1>21. LinkInv'
  BY <1>1 DEF Given, NumberInv, LinkInv
<1>22. IdInv'
  <2>1. \A e \in Conns : pc[e] \in {"checked", "registered"} => Sequence'[e] = Sequence[e]
    BY <1>1, <1>8
  <2> QED BY <1>1, <1>3, <2>1 DEF Given, NumberInv, IdInv
<1>23. RingsInv'
  <2> SUFFICES ASSUME NEW e \in Holders
               PROVE  /\ KeptRing(deadQueue[queue[e]], deadQueuePointer[e], Written[e])
                      /\ HelloIsZero(deadQueue[queue[e]])
                      /\ pc[e] = "pump" =>
                           /\ Sequence'[e] >= Written[e]
                           /\ Frayed(deadQueue[queue[e]], Written[e]) => Sequence'[e] > Written[e]
    BY <1>1, <1>3 DEF RingsInv
  <2>1. /\ KeptRing(deadQueue[queue[e]], deadQueuePointer[e], Written[e])
        /\ HelloIsZero(deadQueue[queue[e]])
        /\ pc[e] = "pump" =>
             /\ Sequence[e] >= Written[e]
             /\ Frayed(deadQueue[queue[e]], Written[e]) => Sequence[e] > Written[e]
    BY DEF Given, NumberInv, RingsInv
  <2>2. CASE e = c
    <3>1. Sequence'[e] >= Written[e] /\ Sequence'[e] > Written[e]
      BY <1>5, <1>8, <1>9, <2>2
    <3> QED BY <2>1, <3>1
  <2>3. CASE e # c
    BY <1>8, <2>1, <2>3, HoldersAreConns
  <2> QED BY <2>2, <2>3
<1>24. ChanInv'
  <2> SUFFICES ASSUME NEW e \in Holders
               PROVE  /\ HelloUnnumbered(send'[queue[e]], Written[e], connectionID[e])
                      /\ Written[e] = 0 /\ pc[e] # "checked" => HelloNext(send'[queue[e]])
                      /\ Written[e] = 0 /\ pc[e] = "pump" => Sequence'[e] = 0
    BY <1>1, <1>3 DEF ChanInv
  <2>1. /\ HelloUnnumbered(send[queue[e]], Written[e], connectionID[e])
        /\ Written[e] = 0 /\ pc[e] # "checked" => HelloNext(send[queue[e]])
        /\ Written[e] = 0 /\ pc[e] = "pump" => Sequence[e] = 0
    BY DEF Given, NumberInv, ChanInv
  <2>2. CASE e = c
    BY <1>5, <1>6, <1>8, <2>2 DEF q
  <2>3. CASE e # c
    BY <1>7, <1>8, <2>1, <2>3
  <2> QED BY <2>2, <2>3
<1>25. AheadInv'
  BY <1>1, <1>3 DEF Given, NumberInv, AheadInv
<1>26. WireInv'
  <2> SUFFICES ASSUME conn # NoConn
               PROVE  /\ HelloFirst(wire[conn])
                      /\ \A d \in Holders : connectionID[d] = WireId =>
                           \A k \in InStep(wire[conn], Start) : wire[conn][k].seq < Written[d]
                      /\ linked[conn] /\ pc[conn] = "pump" =>
                           IF Written[conn] = 0
                             THEN wire[conn] = <<>>
                             ELSE /\ WireId = connectionID[conn]
                                  /\ HasAll(wire[conn], Start, Written[conn])
                                  /\ Sequence'[conn] = Written[conn] =>
                                       Len(wire[conn]) = Written[conn] - Start
    BY <1>1, <1>3 DEF WireInv
  <2>1. conn \in Conns
    BY DEF Given, TypeOK
  <2>2. conn = c => Sequence'[conn] # Written[conn]
    BY <1>5, <1>8, <1>9
  <2>3. conn # c => Sequence'[conn] = Sequence[conn]
    BY <1>8, <2>1
  <2> QED BY <2>2, <2>3 DEF Given, NumberInv, WireInv
<1> QED BY <1>20, <1>21, <1>22, <1>23, <1>24, <1>25, <1>26 DEF NumberInv

LEMMA BroadcastNumbers ==
  ASSUME Given, Broadcast
  PROVE  NumberInv'
<1> DEFINE m == EventMsg(published + 1)
           full == {d \in index : ~ HasRoom(d)}
<1>1. /\ index' = index \ full
      /\ UNCHANGED <<pc, request, connectionID, Sequence, reused, queue, deadQueuePointer,
                     deadQueue, lastId, wire, linked, conn, connectionId, serverSequence, written>>
  BY DEF Broadcast, networkVars, clientVars
<1>2. PICK reached :
        /\ reached = {queue[c] : c \in {d \in index : HasRoom(d)}}
        /\ send' = [q \in Conns |-> IF q \in reached THEN Append(send[q], m) ELSE send[q]]
  BY DEF Broadcast
<1>3. m.id = NoId /\ m.pub # 0
  BY DEF EventMsg, Given, TypeOK
<1>4. Written' = Written /\ WireId' = WireId /\ Start' = Start
  BY <1>1 DEF Written, WireId, Start
<1> HIDE DEF m, full
<1>5. \A e \in Holders' : e \in Holders /\ e \in Conns
  BY <1>1 DEF Holders, Holds, Running
<1>6. \A q \in Conns : send'[q] = send[q] \/ send'[q] = Append(send[q], m)
  BY <1>2
<1>7. ASSUME NEW c \in Conns, Waiting(c) \/ pc[c] = "checked"
      PROVE  send'[queue[c]] = send[queue[c]]
  <2>1. ASSUME NEW d \in index PROVE queue[d] # queue[c]
    <3>1. d \in Holders /\ d \in Conns /\ d # c
      BY <1>7 DEF Holders, Holds, Waiting, Given, OwnerInv, OwnerTypes, IndexedIsStarted, Running
    <3>2. CASE Waiting(c)
      BY <3>1, <3>2, WaitingHoldsNothing
    <3>3. CASE pc[c] = "checked"
      <4>1. c \in Holders
        BY <3>3 DEF Holders, Holds
      <4> QED BY <3>1, <4>1, OneHolder
    <3> QED BY <1>7, <3>2, <3>3
  <2>2. queue[c] \in Conns
    BY DEF Given, TypeOK
  <2> QED BY <1>2, <2>1, <2>2
<1>20. FreshInv'
  <2>1. \A c \in Conns : Waiting(c) => queue[c] = c
    BY WaitingHoldsNothing
  <2> QED BY <1>1, <1>4, <1>7, <2>1 DEF Given, NumberInv, FreshInv, Waiting
<1>21. LinkInv'
  BY <1>1 DEF Given, NumberInv, LinkInv
<1>22. IdInv'
  BY <1>1, <1>4, <1>5 DEF Given, NumberInv, IdInv
<1>23. RingsInv'
  BY <1>1, <1>4, <1>5 DEF Given, NumberInv, RingsInv
<1>24. ChanInv'
  <2> SUFFICES ASSUME NEW e \in Holders'
               PROVE  /\ HelloUnnumbered(send[queue[e]], Written[e], connectionID[e])'
                      /\ Written'[e] = 0 /\ pc'[e] # "checked" => HelloNext(send[queue[e]])'
                      /\ Written'[e] = 0 /\ pc'[e] = "pump" => Sequence'[e] = 0
    BY DEF ChanInv
  <2>1. queue[e] \in Conns /\ send[queue[e]] \in Seq(Message)
    BY <1>5 DEF Given, TypeOK
  <2>2. /\ HelloUnnumbered(send[queue[e]], Written[e], connectionID[e])
        /\ Written[e] = 0 /\ pc[e] # "checked" => HelloNext(send[queue[e]])
        /\ Written[e] = 0 /\ pc[e] = "pump" => Sequence[e] = 0
    BY <1>5 DEF Given, NumberInv, ChanInv
  <2>3. CASE send'[queue[e]] = send[queue[e]]
    BY <1>1, <1>4, <2>2, <2>3
  <2>4. CASE send'[queue[e]] = Append(send[queue[e]], m)
    <3>1. /\ HelloUnnumbered(Append(send[queue[e]], m), Written[e], connectionID[e])
          /\ Written[e] = 0 /\ pc[e] # "checked" => HelloNext(Append(send[queue[e]], m))
      BY <1>3, <2>1, <2>2, ChannelAppend
    <3> QED BY <1>1, <1>4, <2>2, <2>4, <3>1
  <2> QED BY <1>6, <2>1, <2>3, <2>4
<1>25. AheadInv'
  BY <1>1, <1>4, <1>5 DEF Given, NumberInv, AheadInv
<1>26. WireInv'
  BY <1>1, <1>4, <1>5 DEF Given, NumberInv, WireInv
<1> QED BY <1>20, <1>21, <1>22, <1>23, <1>24, <1>25, <1>26 DEF NumberInv

LEMMA ConnectNumbers ==
  ASSUME Given, Connect
  PROVE  NumberInv'
<1>1. PICK c \in Conns :
        /\ pc[c] = "unused"
        /\ conn' = c
        /\ pc' = [pc EXCEPT ![c] = "handshake"]
        /\ request' = [request EXCEPT ![c] = [id |-> connectionId, seq |-> serverSequence]]
        /\ linked' = [linked EXCEPT ![c] = TRUE]
  BY DEF Connect
<1>2. /\ conn = NoConn
      /\ UNCHANGED <<index, connectionID, Sequence, reused, queue, deadQueuePointer,
                     send, deadQueue, lastId, wire, connectionId, serverSequence, written>>
  BY DEF Connect, historyVars
<1>3. /\ \A e \in Conns : pc'[e] = IF e = c THEN "handshake" ELSE pc[e]
      /\ \A e \in Conns : e # c => request'[e] = request[e] /\ linked'[e] = linked[e]
      /\ request'[c].id = connectionId /\ request'[c].seq = serverSequence
  BY <1>1 DEF Given, TypeOK
<1>4. \A e \in Conns : Waiting(e)' <=> Waiting(e)
  BY <1>1, <1>3 DEF Waiting
<1>5. \A e \in Conns : e \in Holders' <=> e \in Holders
  BY <1>1, <1>2, <1>3 DEF Holders, Holds, Running
<1>6. \A e \in Holders' : e \in Holders /\ e \in Conns
  BY <1>5, HoldersAreConns
<1>7. \A e \in Conns : wire[e] = <<>> /\ ~ linked[e]
  BY <1>2 DEF Given, NumberInv, LinkInv, NoConn, Conns
<1>8. Written' = Written /\ WireId' = WireId /\ Start' = Start
  <2>1. WireId = connectionId
    BY <1>2 DEF WireId
  <2>2. WireId' = connectionId
    BY <1>1, <1>2, <1>7 DEF WireId, StreamOf
  <2> QED BY <1>2, <2>1, <2>2 DEF Written, Start
<1>9. c # NoConn
  BY DEF Conns, NoConn
<1>20. FreshInv'
  BY <1>2, <1>3, <1>4, <1>8 DEF Given, NumberInv, FreshInv
<1>21. LinkInv'
  BY <1>1, <1>2, <1>3, <1>7, <1>9 DEF LinkInv
<1>22. IdInv'
  <2>1. \A e \in Conns : /\ request'[e].id <= lastId
                         /\ request'[e].id # NoId => request'[e].seq # 0
    BY <1>3 DEF Given, NumberInv, IdInv
  <2>2. \A e \in Conns : pc'[e] \in {"checked", "registered"} /\ reused[e] =>
          /\ connectionID[e] = request'[e].id /\ request'[e].id # NoId
          /\ Sequence[e] = request'[e].seq
    BY <1>3 DEF Given, NumberInv, IdInv
  <2> QED BY <1>2, <1>6, <1>8, <2>1, <2>2 DEF Given, NumberInv, IdInv
<1>23. RingsInv'
  BY <1>2, <1>3, <1>6, <1>8 DEF Given, NumberInv, RingsInv
<1>24. ChanInv'
  <2>1. c \notin Holders
    BY <1>1, WaitingHoldsNothing DEF Waiting
  <2> QED BY <1>2, <1>3, <1>6, <1>8, <2>1 DEF Given, NumberInv, ChanInv
<1>25. AheadInv'
  BY <1>2, <1>3, <1>6, <1>8 DEF Given, NumberInv, AheadInv
<1>26. WireInv'
  <2>1. HelloFirst(<<>>) /\ \A k : InStep(<<>>, k) = {}
    BY EmptyInStep DEF HelloFirst
  <2>2. wire'[c] = <<>> /\ pc'[c] = "handshake"
    BY <1>2, <1>3, <1>7
  <2> QED BY <1>1, <2>1, <2>2 DEF WireInv
<1> QED BY <1>20, <1>21, <1>22, <1>23, <1>24, <1>25, <1>26 DEF NumberInv

\* The client reads a message in its turn: what it then is under is what the
\* rest of the socket belongs to.
LEMMA ReadKeepsNumberInv ==
  ASSUME Given, conn # NoConn, wire[conn] # <<>>, WireId # NoId,
         serverSequence' = Head(wire[conn]).seq + 1,
         connectionId' = WireId,
         wire' = [wire EXCEPT ![conn] = Tail(@)],
         Head(wire[conn]).seq = Start,
         UNCHANGED <<serverVars, linked, conn, written>>
  PROVE  NumberInv'
<1> DEFINE w == wire[conn]
<1>1. conn \in Conns /\ w \in Seq(SentMessage) /\ wire'[conn] = Tail(w)
  BY DEF Given, TypeOK
<1>2. /\ HelloFirst(w)
      /\ \A d \in Holders : connectionID[d] = WireId =>
           \A k \in InStep(w, Start) : w[k].seq < Written[d]
      /\ linked[conn] /\ pc[conn] = "pump" =>
           IF Written[conn] = 0
             THEN w = <<>>
             ELSE /\ WireId = connectionID[conn]
                  /\ HasAll(w, Start, Written[conn])
                  /\ Sequence[conn] = Written[conn] => Len(w) = Written[conn] - Start
  BY DEF Given, NumberInv, WireInv
<1>3. Head(w) \in SentMessage
  BY <1>1
<1> HIDE DEF w
<1>4. wire[conn] = w /\ w # <<>> /\ serverSequence' = Head(w).seq + 1 /\ Head(w).seq = Start
  BY DEF w
<1>5. /\ HelloFirst(Tail(w)) /\ \A id : StreamOf(Tail(w), id) = id
      /\ 1 \in InStep(w, Start) /\ Head(w) = w[1]
      /\ \A k \in InStep(Tail(w), Start + 1) :
           k + 1 \in InStep(w, Start) /\ Tail(w)[k] = w[k + 1]
      /\ \A n \in Nat : Start < n /\ HasAll(w, Start, n) => HasAll(Tail(w), Start + 1, n)
      /\ Len(Tail(w)) = Len(w) - 1 /\ Len(w) \in Nat
  <2>1. Start \in Nat
    BY DEF Given, TypeOK, Start
  <2>2. Len(Tail(w)) = Len(w) - 1 /\ Len(w) \in Nat
    BY <1>1, <1>4
  <2> DEFINE s == Start
  <2>3. s \in Nat /\ Head(w).seq = s /\ w \in Seq(SentMessage) /\ w # <<>>
    BY <1>1, <1>4, <2>1
  <2> HIDE DEF s
  <2>4. /\ HelloFirst(Tail(w)) /\ \A id : StreamOf(Tail(w), id) = id
        /\ 1 \in InStep(w, s) /\ Head(w) = w[1]
    BY <1>2, <2>3, SocketTail
  <2>5. \A k \in InStep(Tail(w), s + 1) : k + 1 \in InStep(w, s) /\ Tail(w)[k] = w[k + 1]
    BY <2>3, SocketTail
  <2>6. \A n \in Nat : s < n /\ HasAll(w, s, n) => HasAll(Tail(w), s + 1, n)
    BY <2>3, SocketTail
  <2> QED BY <2>2, <2>4, <2>5, <2>6 DEF s
<1>6. Head(w).seq \in Nat /\ Head(w).id \in Nat
  BY <1>3 DEF SentMessage
<1>7. Written' = Written /\ Holders' = Holders
  BY DEF Written, Holders, Holds, Running, serverVars
<1>8. WireId' = WireId
  BY <1>1, <1>5 DEF WireId
<1>11. Start' = Start + 1
  BY <1>4, <1>8 DEF Start
<1> USE DEF serverVars
<1>9. pc[conn] \notin {"unused", "handshake", "checked", "registered"}
  BY <1>1 DEF Given, NumberInv, FreshInv, LinkInv, Waiting
<1>10. \A e \in Conns : wire'[e] # <<>> => wire[e] # <<>>
  BY <1>1, <1>4 DEF Given, TypeOK
<1>20. FreshInv'
  BY <1>7, <1>10 DEF Given, NumberInv, FreshInv, Waiting
<1>21. LinkInv'
  BY <1>9, <1>10 DEF Given, NumberInv, LinkInv
<1>22. IdInv'
  BY <1>4, <1>6, <1>7, <1>8 DEF Given, NumberInv, IdInv
<1>23. RingsInv'
  BY <1>7 DEF Given, NumberInv, RingsInv
<1>24. ChanInv'
  BY <1>7 DEF Given, NumberInv, ChanInv
<1>25. AheadInv'
  <2>1. ASSUME NEW d \in Holders, connectionID[d] = WireId
        PROVE  Head(w).seq + 1 <= Written[d]
    <3>1. Written[d] \in Nat
      BY KeptRingTypes DEF Given, NumberInv, RingsInv
    <3>2. Head(w).seq < Written[d]
      BY <1>2, <1>5, <2>1
    <3> QED BY <1>6, <3>1, <3>2
  <2> QED BY <1>4, <1>7, <2>1 DEF Given, NumberInv, AheadInv
<1>26. WireInv'
  <2>1. ASSUME NEW d \in Holders, connectionID[d] = WireId, NEW k \in InStep(Tail(w), Start + 1)
        PROVE  Tail(w)[k].seq < Written[d]
    BY <1>2, <1>5, <2>1
  <2>2. ASSUME linked[conn], pc[conn] = "pump"
        PROVE  /\ Written[conn] # 0 /\ WireId = connectionID[conn]
               /\ HasAll(Tail(w), Start + 1, Written[conn])
               /\ Sequence[conn] = Written[conn] => Len(Tail(w)) = Written[conn] - (Start + 1)
    <3>1. Written[conn] # 0 /\ WireId = connectionID[conn] /\ HasAll(w, Start, Written[conn])
      BY <1>2, <1>4, <2>2
    <3>2. conn \in Holders
      BY <1>1, <2>2 DEF Holders, Holds, Running
    <3>3. Written[conn] \in Nat
      BY <3>2, KeptRingTypes DEF Given, NumberInv, RingsInv
    <3>4. Start < Written[conn]
      BY <1>2, <1>4, <1>5, <3>1, <3>2
    <3>5. Sequence[conn] = Written[conn] => Len(w) = Written[conn] - Start
      BY <1>2, <2>2, <3>1
    <3>6. Start \in Nat
      BY DEF Given, TypeOK, Start
    <3> QED BY <1>5, <3>1, <3>3, <3>4, <3>5, <3>6
  <2> QED BY <1>1, <1>5, <1>7, <1>8, <1>11, <2>1, <2>2 DEF WireInv
<1> QED BY <1>20, <1>21, <1>22, <1>23, <1>24, <1>25, <1>26 DEF NumberInv

LEMMA OnHelloNumbers ==
  ASSUME Given, OnHello
  PROVE  NumberInv'
<1> DEFINE m == Head(wire[conn])
<1>1. /\ conn # NoConn /\ wire[conn] # <<>> /\ m.id # NoId
      /\ connectionId' = m.id
      /\ \/ m.seq # Expected(m) /\ Disconnect /\ serverSequence' = Expected(m)
         \/ /\ m.seq = Expected(m)
            /\ serverSequence' = m.seq + 1
            /\ wire' = [wire EXCEPT ![conn] = Tail(@)]
            /\ UNCHANGED <<linked, conn>>
      /\ UNCHANGED <<serverVars, written>>
  BY DEF OnHello, historyVars
<1>2. WireId = m.id
  BY <1>1 DEF WireId, StreamOf
<1>3. m.seq = 0
  <2>1. wire[conn] \in Seq(SentMessage) /\ HelloFirst(wire[conn])
    BY <1>1 DEF Given, TypeOK, NumberInv, WireInv
  <2> QED BY <1>1, <2>1, SocketTail
<1> HIDE DEF m
<1>4. CASE /\ m.seq = Expected(m)
           /\ serverSequence' = m.seq + 1
           /\ wire' = [wire EXCEPT ![conn] = Tail(@)]
           /\ UNCHANGED <<linked, conn>>
  <2>1. connectionId = NoId => serverSequence = 0
    BY DEF Given, NumberInv, IdInv
  <2>2. m.seq = Start
    BY <1>1, <1>2, <1>3, <1>4, <2>1 DEF Start, Expected, NewStream
  <2> QED BY <1>1, <1>2, <1>4, <2>2, ReadKeepsNumberInv DEF m
<1>5. CASE m.seq # Expected(m) /\ Disconnect /\ serverSequence' = Expected(m)
  <2>1. connectionId = NoId => serverSequence = 0
    BY DEF Given, NumberInv, IdInv
  <2>2. connectionId' = connectionId /\ serverSequence' = serverSequence
    BY <1>1, <1>3, <1>5, <2>1 DEF Expected, NewStream
  <2> QED BY <1>1, <1>5, <2>2, DisconnectKeepsNumberInv DEF Given
<1> QED BY <1>1, <1>4, <1>5

LEMMA OnEventNumbers ==
  ASSUME Given, OnEvent
  PROVE  NumberInv'
<1> DEFINE m == Head(wire[conn])
<1>1. /\ conn # NoConn /\ wire[conn] # <<>> /\ m.id = NoId /\ m.seq = serverSequence
      /\ serverSequence' = m.seq + 1
      /\ wire' = [wire EXCEPT ![conn] = Tail(@)]
      /\ UNCHANGED <<serverVars, linked, conn, connectionId, written>>
  BY DEF OnEvent, historyVars
<1>2. WireId = connectionId /\ Start = serverSequence
  BY <1>1 DEF WireId, StreamOf, Start
<1>3. m.seq # 0
  <2>1. wire[conn] \in Seq(SentMessage) /\ HelloFirst(wire[conn])
    BY <1>1 DEF Given, TypeOK, NumberInv, WireInv
  <2> QED BY <1>1, <2>1, SocketTail
<1>4. connectionId # NoId
  BY <1>1, <1>3 DEF Given, NumberInv, IdInv
<1> QED BY <1>1, <1>2, <1>4, ReadKeepsNumberInv

LEMMA NextNumberInv ==
  ASSUME OwnerInv, TypeOK, NumberInv, [Next]_vars, TypeOK'
  PROVE  NumberInv'
<1> Given
  BY DEF Given
<1>1. ASSUME NEW c \in Conns, FreshConn(c) PROVE NumberInv'
  BY <1>1, FreshConnNumbers
<1>2. ASSUME NEW c \in Conns, ResumeConn(c) PROVE NumberInv'
  BY <1>2, ResumeConnNumbers
<1>3. ASSUME NEW c \in Conns, Register(c) PROVE NumberInv'
  BY <1>3, RegisterNumbers
<1>4. ASSUME NEW c \in Conns, StartPump(c) PROVE NumberInv'
  BY <1>4, StartPumpNumbers
<1>5. ASSUME NEW c \in Conns, PumpMessage(c) PROVE NumberInv'
  BY <1>5, PumpMessageNumbers
<1>6. ASSUME NEW c \in Conns,
             RegisterFails(c) \/ PumpClosed(c) \/ PumpEnd(c) \/ Unregister(c)
      PROVE  NumberInv'
  <2>1. /\ pc[c] \notin {"unused", "gone"}
        /\ pc' = [pc EXCEPT ![c] = "ended"] \/ pc' = [pc EXCEPT ![c] = "gone"]
        /\ pc[c] = "checked" \/ Running(c)
        /\ Running(c)' => Running(c)
        /\ UNCHANGED <<request, connectionID, Sequence, reused, queue, deadQueuePointer,
                       send, deadQueue, lastId, wire, conn, connectionId, serverSequence, written, index>>
        /\ linked' = linked \/ linked' = [linked EXCEPT ![c] = FALSE]
    BY <1>6 DEF RegisterFails, PumpClosed, PumpEnd, Unregister, Running, networkVars,
                clientVars, historyVars, Given, TypeOK
  <2>2. pc'[c] \in {"ended", "gone"} /\ \A e \in Conns : e # c => pc'[e] = pc[e]
    BY <2>1 DEF Given, TypeOK
  <2>3. \A e \in Conns : linked'[e] => linked[e]
    BY <2>1 DEF Given, TypeOK
  <2>4. \A e \in Holders' : e \in Holders /\ e \in Conns
    BY <2>1, <2>2 DEF Holders, Holds, Running
  <2>5. pc[c] = "checked" => c \notin Holders'
    BY <1>6, <2>2 DEF RegisterFails, PumpClosed, PumpEnd, Unregister, Holders, Holds, Running,
                      Given, OwnerInv, IndexedIsStarted, TypeOK
  <2>6. NumberInv /\ TypeOK /\ TypeOK'
    BY DEF Given
  <2>7. /\ \A e \in Holders' : e \in Holders
        /\ \A e \in Conns :
             pc'[e] = pc[e] \/ (pc'[e] \in {"ended", "gone"} /\ pc[e] # "unused")
        /\ \A e \in Holders' : pc'[e] = "checked" => pc[e] = "checked"
        /\ \A e \in Holders' : pc[e] = "checked" => pc'[e] = "checked"
        /\ \A e \in Conns : linked'[e] => linked[e]
    <3>1. \A e \in Holders' : e \in Holders
      BY <2>1, <2>2, <2>3, <2>4, <2>5
    <3>2. \A e \in Conns :
            pc'[e] = pc[e] \/ (pc'[e] \in {"ended", "gone"} /\ pc[e] # "unused")
      BY <2>1, <2>2, <2>3, <2>4, <2>5
    <3>3. \A e \in Holders' : pc'[e] = "checked" <=> pc[e] = "checked"
      BY HoldersAreConns, <2>1, <2>2, <2>3, <2>4, <2>5
    <3>4. \A e \in Conns : linked'[e] => linked[e]
      BY <2>1, <2>2, <2>3, <2>4, <2>5
    <3> QED BY <3>1, <3>2, <3>3, <3>4
  <2> QED BY <2>1, <2>6, <2>7, WeakerKeepsNumberInv
<1>7. CASE Reap \/ HubPanic \/ Break \/ UNCHANGED vars
  <2>1. /\ UNCHANGED <<pc, request, connectionID, Sequence, reused, queue, deadQueuePointer,
                       send, deadQueue, lastId, wire, conn, connectionId, serverSequence, written>>
        /\ index' \subseteq index
        /\ linked' = linked \/ linked' = [linked EXCEPT ![conn] = FALSE]
    BY <1>7 DEF Reap, HubPanic, Break, vars, serverVars, networkVars, clientVars, historyVars
  <2>2. \A e \in Holders' : e \in Holders
    BY <2>1 DEF Holders, Holds, Running
  <2>3. \A e \in Conns : linked'[e] => linked[e]
    BY <2>1 DEF Given, TypeOK
  <2>4. NumberInv /\ TypeOK /\ TypeOK'
    BY DEF Given
  <2>5. /\ \A e \in Holders' : e \in Holders
        /\ \A e \in Conns :
             pc'[e] = pc[e] \/ (pc'[e] \in {"ended", "gone"} /\ pc[e] # "unused")
        /\ \A e \in Holders' : pc'[e] = "checked" => pc[e] = "checked"
        /\ \A e \in Holders' : pc[e] = "checked" => pc'[e] = "checked"
        /\ \A e \in Conns : linked'[e] => linked[e]
    <3>1. \A e \in Holders' : e \in Holders
      BY <2>1, <2>2, <2>3
    <3>2. \A e \in Conns :
            pc'[e] = pc[e] \/ (pc'[e] \in {"ended", "gone"} /\ pc[e] # "unused")
      BY <2>1, <2>2, <2>3
    <3>3. \A e \in Holders' : pc'[e] = "checked" <=> pc[e] = "checked"
      BY HoldersAreConns, <2>1, <2>2, <2>3
    <3>4. \A e \in Conns : linked'[e] => linked[e]
      BY <2>1, <2>2, <2>3
    <3> QED BY <3>1, <3>2, <3>3, <3>4
  <2> QED BY <2>1, <2>4, <2>5, WeakerKeepsNumberInv
<1>8. CASE ServerRestart
  <2>1. /\ \A e \in Conns : pc'[e] = IF pc[e] = "unused" THEN "unused" ELSE "gone"
        /\ \A e \in Conns : ~ linked'[e]
        /\ index' = {}
        /\ UNCHANGED <<request, connectionID, Sequence, reused, queue, deadQueuePointer,
                       send, deadQueue, lastId, wire, conn, connectionId, serverSequence, written>>
    BY <1>8 DEF ServerRestart, clientVars
  <2>2. Holders' = {}
    BY <2>1 DEF Holders, Holds, Running
  <2>3. NumberInv /\ TypeOK /\ TypeOK'
    BY DEF Given
  <2>4. /\ \A e \in Holders' : e \in Holders
        /\ \A e \in Conns :
             pc'[e] = pc[e] \/ (pc'[e] \in {"ended", "gone"} /\ pc[e] # "unused")
        /\ \A e \in Holders' : pc'[e] = "checked" => pc[e] = "checked"
        /\ \A e \in Holders' : pc[e] = "checked" => pc'[e] = "checked"
        /\ \A e \in Conns : linked'[e] => linked[e]
    <3>1. \A e \in Holders' : e \in Holders
      BY <2>1, <2>2
    <3>2. \A e \in Conns :
            pc'[e] = pc[e] \/ (pc'[e] \in {"ended", "gone"} /\ pc[e] # "unused")
      BY <2>1, <2>2
    <3>3. \A e \in Holders' : pc'[e] = "checked" <=> pc[e] = "checked"
      BY HoldersAreConns, <2>1, <2>2
    <3>4. \A e \in Conns : linked'[e] => linked[e]
      BY <2>1, <2>2
    <3> QED BY <3>1, <3>2, <3>3, <3>4
  <2> QED BY <2>1, <2>3, <2>4, WeakerKeepsNumberInv
<1>9. CASE Broadcast
  BY <1>9, BroadcastNumbers
<1>10. CASE Connect
  BY <1>10, ConnectNumbers
<1>11. CASE OnClose \/ PingTimeout \/ OnWrongSequence
  <2>1. conn # NoConn /\ Disconnect /\ UNCHANGED <<serverVars, connectionId, serverSequence, written>>
    BY <1>11 DEF OnClose, PingTimeout, OnWrongSequence, historyVars
  <2> QED BY <2>1, DisconnectKeepsNumberInv
<1>12. CASE OnHello
  BY <1>12, OnHelloNumbers
<1>13. CASE OnEvent
  BY <1>13, OnEventNumbers
<1>14. ASSUME NEW c \in Conns, PumpEncodeError(c) PROVE NumberInv'
  BY <1>14, PumpEncodeErrorNumbers
<1> QED
  BY <1>1, <1>2, <1>3, <1>4, <1>5, <1>6, <1>7, <1>8, <1>9, <1>10, <1>11, <1>12, <1>13, <1>14
     DEF Next, Handler, Client, Failures

----------------------------------------------------------------------------
(* The theorems. *)

\* The client is not ahead of what was written for its connection ID, and what
\* was written is not empty once it has a connection ID: the newest is a slot.
LEMMA NumberInvNeverAhead == TypeOK /\ NumberInv => NeverAhead
<1> SUFFICES ASSUME TypeOK, NumberInv,
                    NEW d \in index, connectionID[d] = connectionId
             PROVE  \E i \in Slots : /\ deadQueue[queue[d]][i] # Nil
                                     /\ serverSequence <= deadQueue[queue[d]][i].seq + 1
  BY DEF NeverAhead
<1> DEFINE dq == deadQueue[queue[d]]
           ptr == deadQueuePointer[d]
           n == Written[d]
           s == n - 1
<1>1. d \in Holders
  BY DEF Holders, Holds, TypeOK
<1>2. KeptRing(dq, ptr, n)
  BY <1>1 DEF NumberInv, RingsInv
<1>3. n \in Nat
  BY <1>2, KeptRingTypes
<1>4. serverSequence # 0 /\ serverSequence <= n /\ serverSequence \in Nat
  BY <1>1 DEF NumberInv, IdInv, AheadInv, TypeOK
<1>5. s \in Nat /\ s < n /\ s >= n - deadQueueSize /\ s >= 0
  BY <1>3, <1>4, DeadQueueSizeAssumption
<1> HIDE DEF dq, ptr, n, s
<1>6. CASE ~ Frayed(dq, n)
  <2>1. Ring(dq, ptr, n, 0)
    BY <1>2, <1>6, RingIsKept
  <2>2. /\ SlotOf(ptr, n, s) \in Slots
        /\ Taken(dq, SlotOf(ptr, n, s))
        /\ NumberAt(dq, SlotOf(ptr, n, s)) = s
    BY <1>5, <2>1, SlotOfEvent
  <2>3. serverSequence <= s + 1
    BY <1>3, <1>4 DEF s
  <2> QED BY <2>2, <2>3 DEF Taken, NumberAt, dq
<1>7. CASE Frayed(dq, n)
  <2>1. PICK i \in Slots : Taken(dq, i) /\ NumberAt(dq, i) > n
    BY <1>7 DEF Frayed
  <2>2. NumberAt(dq, i) \in Nat
    BY <1>1, <2>1 DEF TypeOK, Holders, SentMessage, Taken, NumberAt, dq
  <2>3. serverSequence <= NumberAt(dq, i) + 1
    BY <1>3, <1>4, <2>1, <2>2
  <2> QED BY <2>1, <2>3 DEF Taken, NumberAt, dq
<1> QED BY <1>6, <1>7

\* The types: above all that what a reconnecting client is sent is messages, from
\* slots of its dead queue that are filled, and not the empty ones beside them.
THEOREM TypeTheorem == Spec => []TypeOK
<1>1. Init => OwnerInv /\ TypeOK /\ NumberInv
  BY InitOwnerInv, InitTypeOK, InitNumberInv
<1>2. OwnerInv /\ TypeOK /\ NumberInv /\ [Next]_vars => (OwnerInv /\ TypeOK /\ NumberInv)'
  BY NextOwnerInv, NextTypeOK, NextNumberInv
<1> QED BY <1>1, <1>2, PTL DEF Spec

\* A client is never ahead of the dead queue kept for its connection ID.
THEOREM NeverAheadTheorem == Spec => []NeverAhead
<1>1. Init => OwnerInv /\ TypeOK /\ NumberInv
  BY InitOwnerInv, InitTypeOK, InitNumberInv
<1>2. OwnerInv /\ TypeOK /\ NumberInv /\ [Next]_vars => (OwnerInv /\ TypeOK /\ NumberInv)'
  BY NextOwnerInv, NextTypeOK, NextNumberInv
<1> QED BY <1>1, <1>2, NumberInvNeverAhead, PTL DEF Spec
=============================================================================
