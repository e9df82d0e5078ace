-------------------------- MODULE DeadQueueProofs --------------------------
(***************************************************************************)
(* Proofs about DeadQueueSpec, for every deadQueueSize of at least 2 and   *)
(* every MaxSequence. The inductive invariant is TypeOK /\ RingInv: the    *)
(* shape of the ring (HoldsLast) says what is in every slot, and from it   *)
(* alone follow the answers of the three loops over the queue (which       *)
(* DeadQueueRing shows for any messages with consecutive numbers).         *)
(***************************************************************************)
EXTENDS DeadQueueSpec, DeadQueueRing

Queues == [Slots -> Events \cup {Nil}]

\* A queue with the last events is a ring of consecutive numbers, and every slot
\* holds the very event of its number.
LEMMA HoldsLastRing ==
  ASSUME NEW dq \in Queues, NEW ptr \in Slots, NEW n \in Nat, NEW first \in Nat,
         HoldsLast(dq, ptr, n, first)
  PROVE  /\ Ring(dq, ptr, n, first)
         /\ \A i \in Slots : dq[i] # Nil => dq[i] = Event(SeqAt(ptr, n, i), SeqAt(ptr, n, i))
<1>1. ASSUME NEW i \in Slots
      PROVE  /\ IF SeqAt(ptr, n, i) >= first
                  THEN Taken(dq, i) /\ NumberAt(dq, i) = SeqAt(ptr, n, i) ELSE ~ Taken(dq, i)
             /\ dq[i] # Nil => dq[i] = Event(SeqAt(ptr, n, i), SeqAt(ptr, n, i))
  <2> DEFINE k == SeqAt(ptr, n, i)
  <2>1. dq[i] = IF k >= first THEN Event(k, k) ELSE Nil
    BY DEF HoldsLast, Content, SeqAt
  <2>2. k \in Int
    BY DeadQueueSizeAssumption DEF Slots, SeqAt
  <2>3. k >= first => Event(k, k) # Nil
    BY <2>2, NilAssumption DEF Event, Events
  <2>4. Event(k, k).seq = k
    BY DEF Event
  <2> HIDE DEF k
  <2>5. IF k >= first THEN dq[i] # Nil /\ dq[i].seq = k ELSE dq[i] = Nil
    BY <2>1, <2>3, <2>4
  <2>6. dq[i] # Nil => dq[i] = Event(k, k)
    BY <2>1
  <2> QED BY <2>5, <2>6 DEF k, Taken, NumberAt
<1>2. dq = [i \in Slots |-> dq[i]]
  BY DEF Queues
<1>3. n - ptr = first \/ n - ptr >= first + deadQueueSize
  BY DEF HoldsLast
<1> QED BY <1>1, <1>2, <1>3 DEF Ring

\* And a ring of numbers whose slots hold the events of these numbers is such a queue.
LEMMA RingHoldsLast ==
  ASSUME NEW dq \in Queues, NEW ptr \in Slots, NEW n \in Nat, NEW first \in Nat,
         Ring(dq, ptr, n, first),
         \A i \in Slots : Taken(dq, i) => dq[i] = Event(NumberAt(dq, i), NumberAt(dq, i))
  PROVE  HoldsLast(dq, ptr, n, first)
<1>1. ASSUME NEW i \in Slots PROVE dq[i] = Content(ptr, n, first, i)
  <2>1. Content(ptr, n, first, i) = IF SeqAt(ptr, n, i) >= first
                                      THEN Event(SeqAt(ptr, n, i), SeqAt(ptr, n, i)) ELSE Nil
    BY DEF Content, SeqAt
  <2>2. IF SeqAt(ptr, n, i) >= first
          THEN Taken(dq, i) /\ NumberAt(dq, i) = SeqAt(ptr, n, i) ELSE ~ Taken(dq, i)
    BY DEF Ring
  <2>3. CASE Taken(dq, i)
    BY <2>1, <2>2, <2>3
  <2>4. CASE ~ Taken(dq, i)
    BY <2>1, <2>2, <2>4 DEF Taken
  <2> QED BY <2>3, <2>4
<1>2. n - ptr = first \/ n - ptr >= first + deadQueueSize
  BY DEF Ring
<1> QED BY <1>1, <1>2 DEF HoldsLast

\* The events s .. n - 1, as drainDeadQueue should give them.
EventsFrom(s, n) == [k \in 1 .. n - s |-> Event(s + k - 1, s + k - 1)]

\* drainDeadQueue writes the events s .. n - 1.
LEMMA DrainsEvents ==
  ASSUME NEW dq \in Queues, NEW ptr \in Slots, NEW n \in Nat, NEW first \in Nat,
         HoldsLast(dq, ptr, n, first), NEW s \in Nat, IsInDeadQueue(dq, s)
  PROVE  DrainDeadQueue(dq, ptr, IndexOf(dq, s)) = EventsFrom(s, n)
<1>1. Ring(dq, ptr, n, first)
  BY HoldsLastRing
<1>2. s < n /\ s >= n - deadQueueSize /\ s >= first
  BY <1>1, FindsEvent
<1>3. ASSUME NEW k \in 1 .. n - s
      PROVE  dq[SlotOf(ptr, n, s + k - 1)] = Event(s + k - 1, s + k - 1)
  <2> DEFINE t == s + k - 1
             i == SlotOf(ptr, n, t)
  <2>1. t \in Nat /\ t < n /\ t >= n - deadQueueSize /\ t >= first
    BY <1>2, DeadQueueSizeAssumption
  <2> HIDE DEF t
  <2>2. i \in Slots /\ Taken(dq, i) /\ NumberAt(dq, i) = t
    BY <1>1, <2>1, SlotOfEvent
  <2> HIDE DEF i
  <2>3. NumberAt(dq, i) = SeqAt(ptr, n, i)
    BY <1>1, <2>2, SlotTaken
  <2>4. dq[i] = Event(t, t)
    BY <2>2, <2>3, HoldsLastRing DEF Taken
  <2> QED BY <2>4 DEF i, t
<1>4. DrainDeadQueue(dq, ptr, IndexOf(dq, s)) = RingTail(dq, ptr, n, s)
  BY <1>1, DrainsTail
<1> QED BY <1>3, <1>4 DEF EventsFrom, RingTail

----------------------------------------------------------------------------
(* What the steps do to a ring. *)

\* addToDeadQueue moves a ring on by one event.
LEMMA AddKeepsEvents ==
  ASSUME NEW dq \in Queues, NEW ptr \in Slots, NEW n \in Nat, NEW first \in Nat,
         HoldsLast(dq, ptr, n, first)
  PROVE  /\ AddToDeadQueue(dq, ptr, Event(n, n)) \in Queues
         /\ NextSlot(ptr) \in Slots
         /\ HoldsLast(AddToDeadQueue(dq, ptr, Event(n, n)), NextSlot(ptr), n + 1, first)
<1> SUFFICES ASSUME NEW dq2, dq2 = AddToDeadQueue(dq, ptr, Event(n, n)),
                    NEW ptr2, ptr2 = NextSlot(ptr), NEW m \in Nat, m = n + 1
             PROVE  dq2 \in Queues /\ ptr2 \in Slots /\ HoldsLast(dq2, ptr2, m, first)
  OBVIOUS
<1>1. Event(n, n) \in Events /\ Event(n, n).seq = n /\ Event(n, n) # Nil
  BY NilAssumption DEF Event, Events
<1>2. dq2 \in Queues
  BY <1>1 DEF AddToDeadQueue, Queues
<1>3. Ring(dq2, ptr2, m, first)
  <2>1. Ring(dq, ptr, n, first)
    BY HoldsLastRing
  <2> QED BY <1>1, <2>1, AddKeepsRing
<1>4. ptr2 \in Slots
  BY <1>3 DEF Ring
<1>5. ASSUME NEW i \in Slots, Taken(dq2, i)
      PROVE  dq2[i] = Event(NumberAt(dq2, i), NumberAt(dq2, i))
  <2>1. dq2[i] = IF i = ptr THEN Event(n, n) ELSE dq[i]
    BY DEF AddToDeadQueue, Queues
  <2>2. \E k : dq2[i] = Event(k, k)
    BY <1>5, <2>1, HoldsLastRing DEF Taken
  <2> QED BY <2>2 DEF Event, NumberAt
<1> QED BY <1>2, <1>3, <1>4, <1>5, RingHoldsLast

LEMMA NothingHoldsLast ==
  ASSUME NEW n \in Nat
  PROVE  /\ EmptyDeadQueue \in Queues
         /\ HoldsLast(EmptyDeadQueue, 0, n, n)
  BY DeadQueueSizeAssumption DEF EmptyDeadQueue, Queues, HoldsLast, Content, Slots

\* UnmarshalDQ builds a ring that begins with event s.
LEMMA UnmarshalsRing ==
  ASSUME NEW n \in Nat, NEW s \in Nat, s <= n, n - s <= deadQueueSize
  PROVE  LET msgs == EventsFrom(s, n)
         IN  /\ UnmarshalDQ(msgs) \in Queues
             /\ UnmarshalPointer(msgs) \in Slots
             /\ HoldsLast(UnmarshalDQ(msgs), UnmarshalPointer(msgs), n, s)
<1> DEFINE msgs == EventsFrom(s, n)
           dq == UnmarshalDQ(msgs)
           ptr == UnmarshalPointer(msgs)
<1>1. Len(msgs) = n - s /\ \A k \in 1 .. n - s : msgs[k] = Event(s + k - 1, s + k - 1)
  BY DEF EventsFrom
<1> HIDE DEF msgs
<1>2. ptr = IF n - s = deadQueueSize THEN 0 ELSE n - s
  <2>1. n - s \in 0 .. deadQueueSize
    BY DeadQueueSizeAssumption
  <2> QED BY <1>1, <2>1, ModValue DEF UnmarshalPointer
<1>3. ptr \in Slots
  BY <1>2, DeadQueueSizeAssumption DEF Slots
<1>4. ASSUME NEW i \in Slots
      PROVE  dq[i] = IF i < n - s THEN Event(s + i, s + i) ELSE Nil
  <2>1. CASE i < n - s
    <3>1. i + 1 \in 1 .. n - s /\ s + (i + 1) - 1 = s + i
      BY <2>1 DEF Slots
    <3> QED BY <1>1, <2>1, <3>1 DEF UnmarshalDQ
  <2>2. CASE ~ (i < n - s)
    BY <1>1, <2>2 DEF UnmarshalDQ
  <2> QED BY <2>1, <2>2
<1>5. dq \in Queues
  <2>1. \A i \in Slots : Event(s + i, s + i) \in Events
    BY DeadQueueSizeAssumption DEF Slots, Event, Events
  <2>2. dq = [i \in Slots |-> dq[i]]
    BY DEF UnmarshalDQ
  <2> HIDE DEF dq
  <2>3. \A i \in Slots : dq[i] \in Events \cup {Nil}
    BY <1>4, <2>1
  <2> QED BY <2>2, <2>3 DEF Queues
<1> HIDE DEF dq, ptr
<1>6. ASSUME NEW i \in Slots
      PROVE  dq[i] = Content(ptr, n, s, i)
  <2>1. Content(ptr, n, s, i) = IF SeqAt(ptr, n, i) >= s
                                  THEN Event(SeqAt(ptr, n, i), SeqAt(ptr, n, i)) ELSE Nil
    BY DEF Content, SeqAt
  <2>2. i < n - s => SeqAt(ptr, n, i) = s + i /\ SeqAt(ptr, n, i) >= s
    BY <1>2, DeadQueueSizeAssumption DEF Slots, SeqAt
  <2>3. ~ (i < n - s) => ~ (SeqAt(ptr, n, i) >= s)
    BY <1>2, DeadQueueSizeAssumption DEF Slots, SeqAt
  <2> QED BY <1>4, <2>1, <2>2, <2>3
<1>7. n - ptr = s \/ n - ptr >= s + deadQueueSize
  BY <1>2, DeadQueueSizeAssumption
<1> QED BY <1>3, <1>5, <1>6, <1>7 DEF HoldsLast, msgs, dq, ptr

\* The prologue of writePump on a ring: either it goes on with event n as if
\* nothing had happened, or it starts a ring of its own with the hello message.
LEMMA PrologueOnRing ==
  ASSUME NEW dq \in Queues, NEW ptr \in Slots, NEW n \in Nat, NEW first \in Nat,
         HoldsLast(dq, ptr, n, first), NEW s \in Nat, first <= s, s <= n
  PROVE  LET r == Prologue(dq, ptr, s, Event(0, 0))
         IN  /\ r.outcome # "notFound" => r.queue = dq /\ r.pointer = ptr /\ r.sequence = n
             /\ r.outcome = "notFound" => /\ r.queue \in Queues /\ r.pointer \in Slots
                           /\ r.sequence = 1
                           /\ HoldsLast(r.queue, r.pointer, 1, 0)
<1> SUFFICES ASSUME NEW r, r = Prologue(dq, ptr, s, Event(0, 0))
             PROVE  /\ r.outcome # "notFound" => r.queue = dq /\ r.pointer = ptr /\ r.sequence = n
                    /\ r.outcome = "notFound" => /\ r.queue \in Queues /\ r.pointer \in Slots
                                  /\ r.sequence = 1
                                  /\ HoldsLast(r.queue, r.pointer, 1, 0)
  OBVIOUS
<1>1. CASE IsInDeadQueue(dq, s)
  <2> DEFINE drained == DrainDeadQueue(dq, ptr, IndexOf(dq, s))
  <2>1. drained = EventsFrom(s, n)
    BY <1>1, DrainsEvents
  <2>2. s < n
    BY <1>1, HoldsLastRing, FindsEvent
  <2>3. Len(drained) = n - s
    BY <2>1, <2>2 DEF EventsFrom
  <2>4. r = [queue |-> dq, pointer |-> ptr, sequence |-> s + Len(drained),
             sent |-> drained, outcome |-> "found"]
    BY <1>1 DEF Prologue
  <2> HIDE DEF drained
  <2> QED BY <2>3, <2>4
<1>2. CASE ~ IsInDeadQueue(dq, s) /\ HasMsgLoss(dq, ptr, s)
  <2> DEFINE dq2 == AddToDeadQueue(ClearDeadQueue(dq), 0, Event(0, 0))
  <2>1. r = [queue |-> dq2, pointer |-> NextSlot(0), sequence |-> 1,
             sent |-> <<Event(0, 0)>>, outcome |-> "notFound"]
    BY <1>2 DEF Prologue
  <2>2. dq2 = AddToDeadQueue(EmptyDeadQueue, 0, Event(0, 0))
    BY HoldsLastRing, ClearsRing
  <2>3. /\ EmptyDeadQueue \in Queues /\ HoldsLast(EmptyDeadQueue, 0, 0, 0)
        /\ 0 \in Slots /\ 0 \in Nat /\ 0 + 1 = 1
    BY NothingHoldsLast, DeadQueueSizeAssumption DEF Slots
  <2>4. dq2 \in Queues /\ NextSlot(0) \in Slots /\ HoldsLast(dq2, NextSlot(0), 1, 0)
    BY <2>2, <2>3, AddKeepsEvents, Zenon
  <2> HIDE DEF dq2
  <2> QED BY <2>1, <2>4
<1>3. CASE ~ IsInDeadQueue(dq, s) /\ ~ HasMsgLoss(dq, ptr, s)
  <2>1. n = first \/ s = n
    BY <1>3, HoldsLastRing, SeesLast
  <2>2. s = n
    BY <2>1
  <2>3. r = [queue |-> dq, pointer |-> ptr, sequence |-> s, sent |-> <<>>, outcome |-> "lossless"]
    BY <1>3 DEF Prologue
  <2> QED BY <2>2, <2>3
<1> QED BY <1>1, <1>2, <1>3

\* GetWSQueues on a ring hands over the events the client misses.
LEMMA MarshalsTail ==
  ASSUME NEW dq \in Queues, NEW ptr \in Slots, NEW n \in Nat, NEW first \in Nat,
         HoldsLast(dq, ptr, n, first), NEW s \in Nat, first <= s, s <= n,
         CanTransfer(dq, ptr, s)
  PROVE  /\ MarshalDQ(dq, ptr, s) = EventsFrom(s, n)
         /\ n - s <= deadQueueSize
<1>1. n # first
  <2>1. 0 \in Slots /\ dq[0] # Nil
    BY DeadQueueSizeAssumption DEF CanTransfer, Slots
  <2>2. Ring(dq, ptr, n, first)
    BY HoldsLastRing
  <2>3. 0 < ptr \/ n - ptr >= first + deadQueueSize
    BY <2>1, <2>2, SlotTaken DEF Taken
  <2> QED BY <2>3, DeadQueueSizeAssumption DEF HoldsLast, Slots
<1>2. CASE ~ HasMsgLoss(dq, ptr, s)
  <2>1. s = n
    BY <1>1, <1>2, HoldsLastRing, SeesLast
  <2>2. EventsFrom(s, n) = <<>>
    BY <2>1 DEF EventsFrom
  <2> QED BY <1>2, <2>1, <2>2, DeadQueueSizeAssumption DEF MarshalDQ
<1>3. CASE HasMsgLoss(dq, ptr, s)
  <2>1. IsInDeadQueue(dq, s)
    BY <1>3 DEF CanTransfer
  <2>2. s >= n - deadQueueSize
    BY <2>1, HoldsLastRing, FindsEvent
  <2> QED BY <1>3, <2>1, <2>2, DrainsEvents, DeadQueueSizeAssumption DEF MarshalDQ
<1> QED BY <1>2, <1>3

----------------------------------------------------------------------------
(* The theorems. *)

IInv == TypeOK /\ RingInv

LEMMA InitIInv == Init => IInv
<1> SUFFICES ASSUME Init PROVE IInv
  OBVIOUS
<1>1. 0 \in Slots
  BY DeadQueueSizeAssumption DEF Slots
<1>2. deadQueue \in Queues /\ HoldsLast(deadQueue, 0, 0, 0)
  BY NothingHoldsLast DEF Init
<1> QED BY <1>1, <1>2 DEF Init, IInv, TypeOK, RingInv, Queues

\* A pump that starts on a ring of events up to written keeps the invariant.
LEMMA StartPumpIInv ==
  ASSUME IInv, NEW dq \in Queues, NEW ptr \in Slots, NEW first \in Nat,
         HoldsLast(dq, ptr, written, first),
         NEW s \in Nat, first <= s, s <= written, StartPump(dq, ptr, s, first)
  PROVE  IInv'
<1> DEFINE r == Prologue(dq, ptr, s, Event(0, 0))
<1>1. /\ r.outcome # "notFound" => r.queue = dq /\ r.pointer = ptr /\ r.sequence = written
      /\ r.outcome = "notFound" => /\ r.queue \in Queues /\ r.pointer \in Slots
                    /\ r.sequence = 1
                    /\ HoldsLast(r.queue, r.pointer, 1, 0)
  BY PrologueOnRing DEF IInv, TypeOK
<1>2. /\ deadQueue' = r.queue /\ deadQueuePointer' = r.pointer
      /\ sequence' = r.sequence
      /\ written' = IF r.outcome = "notFound" THEN 1 ELSE written
      /\ base' = IF r.outcome = "notFound" THEN 0 ELSE first
      /\ acked' = IF r.outcome = "notFound" THEN 1 ELSE s
  BY DEF StartPump
<1> HIDE DEF r
<1>3. CASE r.outcome = "notFound"
  BY <1>1, <1>2, <1>3 DEF IInv, TypeOK, RingInv, Queues, HoldsLast, Content
<1>4. CASE r.outcome # "notFound"
  BY <1>1, <1>2, <1>4 DEF IInv, TypeOK, RingInv, Queues, HoldsLast, Content
<1> QED BY <1>3, <1>4

LEMMA NextIInv == IInv /\ [Next]_vars => IInv'
<1> SUFFICES ASSUME IInv, [Next]_vars PROVE IInv'
  OBVIOUS
<1> USE DEF IInv
<1>0. /\ deadQueue \in Queues /\ deadQueuePointer \in Slots
      /\ written \in Nat /\ base \in Nat /\ acked \in Nat /\ base <= acked
      /\ sequence = written
      /\ HoldsLast(deadQueue, deadQueuePointer, written, base)
  BY DEF TypeOK, RingInv, Queues
<1>1. CASE Write
  <2>1. /\ deadQueue' \in Queues /\ deadQueuePointer' \in Slots
        /\ HoldsLast(deadQueue', deadQueuePointer', written', base)
    BY <1>0, <1>1, AddKeepsEvents DEF Write
  <2>2. HoldsLast(deadQueue, deadQueuePointer, written, base)'
    BY <1>1, <2>1 DEF Write, HoldsLast, Content
  <2> QED BY <1>0, <1>1, <2>1, <2>2 DEF Write, TypeOK, RingInv, Queues
<1>2. ASSUME NEW s \in 1 .. MaxSequence, Resume(s) PROVE IInv'
  <2>1. s \in Nat /\ base <= s /\ s <= written
    BY <1>0, <1>2, MaxSequenceAssumption DEF Resume
  <2> QED BY <1>0, <1>2, <2>1, StartPumpIInv DEF Resume
<1>3. ASSUME NEW s \in 1 .. MaxSequence, Migrate(s) PROVE IInv'
  <2>1. s \in Nat /\ base <= s /\ s <= written
    BY <1>0, <1>3, MaxSequenceAssumption DEF Migrate
  <2> DEFINE moved == MarshalDQ(deadQueue, deadQueuePointer, s)
  <2>2. moved = EventsFrom(s, written) /\ written - s <= deadQueueSize
    BY <1>0, <1>3, <2>1, MarshalsTail DEF Migrate
  <2>3. /\ UnmarshalDQ(moved) \in Queues /\ UnmarshalPointer(moved) \in Slots
        /\ HoldsLast(UnmarshalDQ(moved), UnmarshalPointer(moved), written, s)
    BY <1>0, <2>1, <2>2, UnmarshalsRing
  <2>4. StartPump(UnmarshalDQ(moved), UnmarshalPointer(moved), s, s)
    BY <1>3 DEF Migrate
  <2> HIDE DEF moved
  <2> QED BY <2>1, <2>3, <2>4, StartPumpIInv
<1>4. ASSUME NEW s \in 1 .. MaxSequence, MigrateFresh(s) PROVE IInv'
  <2>1. 0 \in Slots /\ EmptyDeadQueue \in Queues /\ HoldsLast(EmptyDeadQueue, 0, 0, 0)
    BY NothingHoldsLast, DeadQueueSizeAssumption DEF Slots
  <2> QED BY <1>4, <2>1 DEF MigrateFresh, TypeOK, RingInv, Queues, HoldsLast, Content
<1>5. CASE UNCHANGED vars
  BY <1>5 DEF vars, TypeOK, RingInv, HoldsLast, Content
<1> QED BY <1>1, <1>2, <1>3, <1>4, <1>5 DEF Next

\* Every queue of web_conn.go stays a ring of its last events, and the pump gives
\* each event the next number, over any history of writes, resumes and moves.
THEOREM RingTheorem == Spec => []RingInv
<1>1. IInv => RingInv
  BY DEF IInv
<1> QED BY InitIInv, NextIInv, <1>1, PTL DEF Spec

\* The variables of DeadQueueSpec keep their types; in particular the pointer of
\* addToDeadQueue never leaves the queue.
THEOREM TypeTheorem == Spec => []TypeOK
<1>1. IInv => TypeOK
  BY DEF IInv
<1> QED BY InitIInv, NextIInv, <1>1, PTL DEF Spec

\* isInDeadQueue and hasMsgLoss classify every reconnect rightly.
THEOREM ResumeTheorem == Spec => []ResumeClassified
<1>1. IInv => ResumeClassified
  <2> SUFFICES ASSUME IInv, NEW s \in acked .. written
               PROVE  /\ IsInDeadQueue(deadQueue, s) <=>
                             s < written /\ s >= written - deadQueueSize
                      /\ ~ IsInDeadQueue(deadQueue, s) =>
                            (HasMsgLoss(deadQueue, deadQueuePointer, s) <=> s # written)
    BY DEF ResumeClassified
  <2>1. /\ deadQueue \in Queues /\ deadQueuePointer \in Slots
        /\ written \in Nat /\ base \in Nat
        /\ HoldsLast(deadQueue, deadQueuePointer, written, base)
        /\ s \in Nat /\ base <= s /\ s <= written
    BY DEF IInv, TypeOK, RingInv, Queues
  <2> QED BY <2>1, HoldsLastRing, FindsEvent, HoldsLastRing, SeesLast
<1> QED BY InitIInv, NextIInv, <1>1, PTL DEF Spec

\* drainDeadQueue replays exactly what the client misses.
THEOREM DrainTheorem == Spec => []DrainExact
<1>1. IInv => DrainExact
  <2> SUFFICES ASSUME IInv, NEW s \in acked .. written, IsInDeadQueue(deadQueue, s),
                      NEW drained, drained = DrainDeadQueue(deadQueue, deadQueuePointer,
                                                            IndexOf(deadQueue, s))
               PROVE  /\ Len(drained) = written - s
                      /\ \A k \in 1 .. Len(drained) :
                           drained[k] = Event(s + k - 1, s + k - 1)
    BY DEF DrainExact
  <2>1. /\ deadQueue \in Queues /\ deadQueuePointer \in Slots
        /\ written \in Nat /\ base \in Nat
        /\ HoldsLast(deadQueue, deadQueuePointer, written, base)
        /\ s \in Nat /\ s <= written
    BY DEF IInv, TypeOK, RingInv, Queues
  <2>2. drained = EventsFrom(s, written)
    BY <2>1, DrainsEvents
  <2> QED BY <2>1, <2>2 DEF EventsFrom
<1> QED BY InitIInv, NextIInv, <1>1, PTL DEF Spec
=============================================================================
