----------------------------- MODULE DeadQueue -----------------------------
(***************************************************************************)
(* The dead queue of a WebConn (server/channels/app/platform/web_conn.go): *)
(* a circular buffer with the last deadQueueSize events written to the     *)
(* socket, from which a reconnecting client is brought up to date.         *)
(*                                                                         *)
(* This module is the operations of the buffer, on a queue dq and a        *)
(* pointer ptr, for the modules that keep such a queue: DeadQueueSpec (the *)
(* life of one queue) and ReliableWebSocket (the hub and its connections). *)
(***************************************************************************)
EXTENDS Integers, Sequences

CONSTANTS
  deadQueueSize,  \* length of the circular buffer (128 in the code)
  Nil             \* an empty slot

ASSUME DeadQueueSizeAssumption == deadQueueSize \in Nat /\ deadQueueSize >= 2

Slots == 0 .. deadQueueSize - 1

EmptyDeadQueue == [i \in Slots |-> Nil]

----------------------------------------------------------------------------
(* Operations on a queue. *)

\* A slip: the pointer runs off the end of the buffer.
NextSlotUnwrapped(p) == p + 1

\* The slot after slot p.
NextSlot(p) == (p + 1) % deadQueueSize

\* A slip: event 0, the hello message, is not worth remembering.
AddToDeadQueueButHello(dq, ptr, msg) ==
  IF msg.pub = 0 THEN dq ELSE [dq EXCEPT ![ptr] = msg]

\* addToDeadQueue: the event goes to the slot of the pointer, which moves on.
AddToDeadQueue(dq, ptr, msg) == [dq EXCEPT ![ptr] = msg]

\* A slip: pointer 0 is taken for an empty queue.
HasMsgLossNoRollOver(dq, ptr, seq) == ptr # 0 /\ dq[ptr - 1].seq # seq - 1

\* _hasMsgLoss: is the last event written other than the one before seq?
HasMsgLoss(dq, ptr, seq) ==
  /\ ptr = 0 => dq[0] # Nil
  /\ dq[IF ptr = 0 THEN deadQueueSize - 1 ELSE ptr - 1].seq # seq - 1

\* _isInDeadQueue scans from slot 0, gives up at the first empty slot and
\* stops at the first event with the number seq: this is the set of the slot
\* it returns, empty when it finds none.
Matches(dq, seq) ==
  {i \in Slots : /\ \A j \in 0 .. i : dq[j] # Nil
                 /\ dq[i].seq = seq
                 /\ \A j \in 0 .. i - 1 : dq[j].seq # seq}

IsInDeadQueue(dq, seq) == Matches(dq, seq) # {}

IndexOf(dq, seq) == CHOOSE i \in Matches(dq, seq) : TRUE

\* A slip: the last slot is left out.
ClearDeadQueueShort(dq) ==
  [i \in Slots |-> IF i < deadQueueSize - 1 THEN Nil ELSE dq[i]]

\* clearDeadQueue empties slots from 0 up to the first one already empty.
ClearDeadQueue(dq) ==
  [i \in Slots |-> IF \A j \in 0 .. i : dq[j] # Nil THEN Nil ELSE dq[i]]

\* A slip: the loop ends before it writes the event that precedes the drop.
RolledOverLengthShort(dq, index) ==
  CHOOSE k \in 0 .. deadQueueSize - 1 :
    LET Cell(j) == dq[(index + j) % deadQueueSize]
    IN  Cell(k).seq > Cell(k + 1).seq /\ \A j \in 0 .. k - 1 : Cell(j).seq < Cell(j + 1).seq

\* How many events drainDeadQueue (and marshalDQ) takes once the queue has
\* rolled over: up to and with the first whose successor has a smaller number.
RolledOverLength(dq, index) ==
  LET Cell(k) == dq[(index + k) % deadQueueSize]
      Drop(k) == Cell(k).seq > Cell(k + 1).seq
  IN  CHOOSE k \in 1 .. deadQueueSize :
        Drop(k - 1) /\ \A j \in 1 .. k - 1 : ~ Drop(j - 1)

\* drainDeadQueue: the events it writes to the socket, in order.
DrainDeadQueue(dq, ptr, index) ==
  IF dq[0] = Nil THEN <<>>
  ELSE IF dq[ptr] = Nil
         THEN [k \in 1 .. ptr - index |-> dq[index + k - 1]]
         ELSE [k \in 1 .. RolledOverLength(dq, index) |->
                 dq[(index + k - 1) % deadQueueSize]]

\* The prologue of writePump, for a client that expects event number s next:
\* replay what is in the queue; or start over under a new connection ID, with a
\* hello message as event 0; or go on. Every message written moves wc.Sequence.
Prologue(dq, ptr, s, hello) ==
  IF IsInDeadQueue(dq, s)
    THEN LET drained == DrainDeadQueue(dq, ptr, IndexOf(dq, s))
         IN  [queue |-> dq, pointer |-> ptr, sequence |-> s + Len(drained),
              sent |-> drained, outcome |-> "found"]
  ELSE IF HasMsgLoss(dq, ptr, s)
    THEN [queue |-> AddToDeadQueue(ClearDeadQueue(dq), 0, hello),
          pointer |-> NextSlot(0), sequence |-> 1,
          sent |-> <<hello>>, outcome |-> "notFound"]
  ELSE [queue |-> dq, pointer |-> ptr, sequence |-> s,
        sent |-> <<>>, outcome |-> "lossless"]

\* GetWSQueues finds something to hand to another node.
CanTransfer(dq, ptr, s) ==
  /\ dq[0] # Nil
  /\ ~ HasMsgLoss(dq, ptr, s) \/ IsInDeadQueue(dq, s)

\* The events GetWSQueues hands over from the dead queue: none on a perfect
\* match, else those marshalDQ takes, which are the ones drainDeadQueue writes.
MarshalDQ(dq, ptr, s) ==
  IF ~ HasMsgLoss(dq, ptr, s) THEN <<>>
                              ELSE DrainDeadQueue(dq, ptr, IndexOf(dq, s))

\* UnmarshalDQ fills a new queue from slot 0.
UnmarshalDQ(msgs) ==
  [i \in Slots |-> IF i < Len(msgs) THEN msgs[i + 1] ELSE Nil]

UnmarshalPointer(msgs) == Len(msgs) % deadQueueSize
=============================================================================
