--------------------------- MODULE DeadQueueSpec ---------------------------
(***************************************************************************)
(* The life of one dead queue: the write pump adds events to it; on a      *)
(* reconnect to the same node it resumes from the sequence number the      *)
(* client sends; on a reconnect to another node of the cluster the queue   *)
(* is moved there first (websocket_reliable.go).                           *)
(***************************************************************************)
EXTENDS DeadQueue

CONSTANT
  MaxSequence     \* bound on the events written between two resets

ASSUME MaxSequenceAssumption == MaxSequence \in Nat
\* An event of the queue: its sequence number, and (history) which of the
\* events written since the last reset it is.
Event(s, p) == [seq |-> s, pub |-> p]
Events == [seq : Nat, pub : Nat]

ASSUME NilAssumption == Nil \notin Events

VARIABLES
  deadQueue,
  deadQueuePointer,
  sequence,        \* wc.Sequence, the number the next event written will get
  written,         \* history: events written since the last reset
  base,            \* history: the first event this node could have in the queue
  acked            \* history: the number the client last reconnected with

vars == <<deadQueue, deadQueuePointer, sequence, written, base, acked>>

TypeOK ==
  /\ deadQueue \in [Slots -> Events \cup {Nil}]
  /\ deadQueuePointer \in Slots
  /\ sequence \in Nat
  /\ written \in Nat
  /\ base \in Nat
  /\ acked \in Nat

\* A new connection: its queue is empty and its client will next reconnect
\* after it got at least the hello message, event 0.
Init ==
  /\ deadQueue = EmptyDeadQueue
  /\ deadQueuePointer = 0
  /\ sequence = 0
  /\ written = 0
  /\ base = 0
  /\ acked = 1

\* An event taken from the send queue by the write pump.
Write ==
  /\ sequence < MaxSequence
  /\ deadQueue' = AddToDeadQueue(deadQueue, deadQueuePointer,
                                 Event(sequence, written))
  /\ deadQueuePointer' = NextSlot(deadQueuePointer)
  /\ sequence' = sequence + 1
  /\ written' = written + 1
  /\ UNCHANGED <<base, acked>>

\* The write pump of the new connection starts, with the queue dq.
StartPump(dq, ptr, s, first) ==
  LET r == Prologue(dq, ptr, s, Event(0, 0))
      reset == r.outcome = "notFound"
  IN  /\ deadQueue' = r.queue
      /\ deadQueuePointer' = r.pointer
      /\ sequence' = r.sequence
      /\ written' = IF reset THEN 1 ELSE written
      /\ base' = IF reset THEN 0 ELSE first
      /\ acked' = IF reset THEN 1 ELSE s

\* The client reconnects to the node that has its queue. The number it sends
\* never falls: it counts the events it got.
Resume(s) ==
  /\ s \in acked .. written
  /\ StartPump(deadQueue, deadQueuePointer, s, base)

\* The client reconnects to another node, which gets the queue from this one.
Migrate(s) ==
  /\ s \in acked .. written
  /\ CanTransfer(deadQueue, deadQueuePointer, s)
  /\ LET moved == MarshalDQ(deadQueue, deadQueuePointer, s)
     IN  StartPump(UnmarshalDQ(moved), UnmarshalPointer(moved), s, s)

\* The client reconnects to another node and nothing can be handed over: the
\* node sets up a new connection, under a new connection ID.
MigrateFresh(s) ==
  /\ s \in acked .. written
  /\ ~ CanTransfer(deadQueue, deadQueuePointer, s)
  /\ deadQueue' = EmptyDeadQueue
  /\ deadQueuePointer' = 0
  /\ sequence' = 0
  /\ written' = 0
  /\ base' = 0
  /\ acked' = 1

Next ==
  \/ Write
  \/ \E s \in 1 .. MaxSequence : Resume(s) \/ Migrate(s) \/ MigrateFresh(s)

Spec == Init /\ [][Next]_vars

----------------------------------------------------------------------------
(* Properties. *)

\* A queue that holds the last events of first .. n - 1, with pointer ptr: below
\* the pointer the events of the current round, from the pointer on those of the
\* round before it, or nothing in the first round.
Content(ptr, n, first, i) ==
  LET k == IF i < ptr THEN n - ptr + i ELSE n - ptr + i - deadQueueSize
  IN  IF k >= first THEN Event(k, k) ELSE Nil

HoldsLast(dq, ptr, n, first) ==
  /\ n - ptr = first \/ n - ptr >= first + deadQueueSize
  /\ \A i \in Slots : dq[i] = Content(ptr, n, first, i)

\* The circular buffer of web_conn.go keeps that shape across roll-overs, resets
\* and moves to other nodes; and the pump never assigns a number twice or skips
\* one: wc.Sequence is the count of the events written, although every resume
\* sets it from what the client sent and from the length of the replay.
RingInv ==
  /\ sequence = written
  /\ base <= acked
  /\ HoldsLast(deadQueue, deadQueuePointer, written, base)

\* Whatever number s a client comes back with, the code tells apart exactly the
\* three cases there are: it has everything (s is the next number), what it
\* misses is still in the buffer (the last deadQueueSize events), or it is not.
\* The loops of _isInDeadQueue and _hasMsgLoss must agree across the roll-over.
ResumeClassified ==
  \A s \in acked .. written :
    /\ IsInDeadQueue(deadQueue, s) <=> s < written /\ s >= written - deadQueueSize
    /\ ~ IsInDeadQueue(deadQueue, s) =>
         (HasMsgLoss(deadQueue, deadQueuePointer, s) <=> s # written)

\* drainDeadQueue replays exactly the events the client misses, s .. written-1,
\* once each and in order, whether or not the buffer rolled over, and stops
\* before it comes round to older ones.
DrainExact ==
  \A s \in acked .. written :
    IsInDeadQueue(deadQueue, s) =>
      LET drained == DrainDeadQueue(deadQueue, deadQueuePointer,
                                    IndexOf(deadQueue, s))
      IN  /\ Len(drained) = written - s
          /\ \A k \in 1 .. Len(drained) : drained[k] = Event(s + k - 1, s + k - 1)
=============================================================================
