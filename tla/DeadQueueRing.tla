---------------------------- MODULE DeadQueueRing ----------------------------
(***************************************************************************)
(* Lemmas about the operators of DeadQueue, for queues of any kind of      *)
(* messages with numbers: what the loops compute on a ring of consecutive  *)
(* numbers, and that addToDeadQueue keeps it one.                          *)
(***************************************************************************)
EXTENDS DeadQueue, TLAPS, WellFoundedInduction

\* The number of the event in slot i of a ring of events that ends before event n,
\* and the slot of event s.
SeqAt(ptr, n, i) == IF i < ptr THEN n - ptr + i ELSE n - ptr + i - deadQueueSize

SlotOf(ptr, n, s) == IF s >= n - ptr THEN s - (n - ptr)
                                     ELSE s - (n - ptr) + deadQueueSize

\* What a slot holds, as far as the loops look at it.
Taken(dq, i) == dq[i] # Nil
NumberAt(dq, i) == dq[i].seq

\* What is in a ring from event s on: m of it, and all of it.
RingPart(dq, ptr, n, s, m) == [k \in 1 .. m |-> dq[SlotOf(ptr, n, s + k - 1)]]
RingTail(dq, ptr, n, s) == [k \in 1 .. n - s |-> dq[SlotOf(ptr, n, s + k - 1)]]

\* A queue with the last events of first .. n - 1.
Ring(dq, ptr, n, first) ==
  /\ dq = [i \in Slots |-> dq[i]]
  /\ ptr \in Slots /\ n \in Nat /\ first \in Nat
  /\ n - ptr = first \/ n - ptr >= first + deadQueueSize
  /\ \A i \in Slots : IF SeqAt(ptr, n, i) >= first
                        THEN Taken(dq, i) /\ NumberAt(dq, i) = SeqAt(ptr, n, i)
                        ELSE ~ Taken(dq, i)

----------------------------------------------------------------------------
(* Arithmetic of the slots. *)

USE DeadQueueSizeAssumption

LEMMA NextSlotValue ==
  ASSUME NEW p \in Slots
  PROVE  NextSlot(p) = IF p = deadQueueSize - 1 THEN 0 ELSE p + 1
  BY DEF NextSlot, Slots

LEMMA ModValue ==
  ASSUME NEW m \in 0 .. deadQueueSize
  PROVE  m % deadQueueSize = IF m = deadQueueSize THEN 0 ELSE m
  OBVIOUS

LEMMA WrapValue ==
  ASSUME NEW i \in Slots, NEW k \in 0 .. deadQueueSize
  PROVE  (i + k) % deadQueueSize =
           IF i + k < deadQueueSize THEN i + k ELSE i + k - deadQueueSize
  BY DEF Slots

----------------------------------------------------------------------------
(* What the loops compute on a ring. *)

\* Which slots of a ring are taken, and by which events.
LEMMA SlotTaken ==
  ASSUME NEW dq, NEW ptr, NEW n, NEW first, Ring(dq, ptr, n, first)
  PROVE  \A i \in Slots :
         /\ Taken(dq, i) <=> i < ptr \/ n - ptr >= first + deadQueueSize
         /\ Taken(dq, i) => /\ SeqAt(ptr, n, i) \in Nat
                           /\ SeqAt(ptr, n, i) >= first
                           /\ SeqAt(ptr, n, i) < n
                           /\ NumberAt(dq, i) = SeqAt(ptr, n, i)
<1> /\ ptr \in Slots /\ n \in Nat /\ first \in Nat
    /\ n - ptr = first \/ n - ptr >= first + deadQueueSize
  BY DEF Ring
<1> TAKE i \in Slots
<1>1. IF SeqAt(ptr, n, i) >= first
        THEN Taken(dq, i) /\ NumberAt(dq, i) = SeqAt(ptr, n, i) ELSE ~ Taken(dq, i)
  BY DEF Ring
<1>2. /\ SeqAt(ptr, n, i) \in Int
      /\ SeqAt(ptr, n, i) < n
      /\ SeqAt(ptr, n, i) >= first <=> i < ptr \/ n - ptr >= first + deadQueueSize
  BY DEF Slots, SeqAt
<1> QED BY <1>1, <1>2

\* Event s is in the slot its number says, and in no other.
LEMMA SlotOfEvent ==
  ASSUME NEW dq, NEW ptr, NEW n, NEW first, Ring(dq, ptr, n, first)
  PROVE  \A s \in Nat :
         /\ s < n /\ s >= n - deadQueueSize /\ s >= first =>
              /\ SlotOf(ptr, n, s) \in Slots
              /\ Taken(dq, SlotOf(ptr, n, s))
              /\ NumberAt(dq, SlotOf(ptr, n, s)) = s
         /\ \A i \in Slots : Taken(dq, i) /\ NumberAt(dq, i) = s =>
              /\ i = SlotOf(ptr, n, s)
              /\ s < n /\ s >= n - deadQueueSize /\ s >= first
<1> /\ ptr \in Slots /\ n \in Nat /\ first \in Nat
    /\ n - ptr = first \/ n - ptr >= first + deadQueueSize
  BY DEF Ring
<1> TAKE s \in Nat
<1>1. ASSUME s < n, s >= n - deadQueueSize, s >= first
      PROVE  /\ SlotOf(ptr, n, s) \in Slots
             /\ Taken(dq, SlotOf(ptr, n, s))
             /\ NumberAt(dq, SlotOf(ptr, n, s)) = s
  <2> DEFINE i == SlotOf(ptr, n, s)
  <2>1. i \in Slots
    BY <1>1 DEF SlotOf, Slots
  <2>2. SeqAt(ptr, n, i) = s
    BY <1>1 DEF SlotOf, Slots, SeqAt
  <2> HIDE DEF i
  <2>3. Taken(dq, i) /\ NumberAt(dq, i) = s
    BY <1>1, <2>1, <2>2 DEF Ring
  <2> QED BY <2>1, <2>3 DEF i
<1>2. ASSUME NEW i \in Slots, Taken(dq, i), NumberAt(dq, i) = s
      PROVE  /\ i = SlotOf(ptr, n, s)
             /\ s < n /\ s >= n - deadQueueSize /\ s >= first
  <2>1. s = SeqAt(ptr, n, i)
    BY <1>2, SlotTaken DEF SeqAt
  <2>2. i < ptr \/ n - ptr >= first + deadQueueSize
    BY <1>2, SlotTaken
  <2> QED BY <2>1, <2>2 DEF SlotOf, Slots, SeqAt
<1> QED BY <1>1, <1>2

\* _isInDeadQueue finds exactly the events still in the ring, and their slot.
LEMMA FindsEvent ==
  ASSUME NEW dq, NEW ptr, NEW n, NEW first, Ring(dq, ptr, n, first)
  PROVE  \A s \in Nat :
         /\ IsInDeadQueue(dq, s) <=> s < n /\ s >= n - deadQueueSize /\ s >= first
         /\ IsInDeadQueue(dq, s) => IndexOf(dq, s) = SlotOf(ptr, n, s)
<1> /\ ptr \in Slots /\ n \in Nat /\ first \in Nat
    /\ n - ptr = first \/ n - ptr >= first + deadQueueSize
  BY DEF Ring
<1> TAKE s \in Nat
<1> DEFINE i == SlotOf(ptr, n, s)
<1>1. ASSUME NEW j \in Matches(dq, s)
      PROVE  j = i /\ s < n /\ s >= n - deadQueueSize /\ s >= first
  <2>1. j \in Slots /\ NumberAt(dq, j) = s /\ Taken(dq, j)
    BY DEF Matches, Taken, NumberAt, Slots
  <2>2. \A k \in Slots : Taken(dq, k) /\ NumberAt(dq, k) = s =>
          k = i /\ s < n /\ s >= n - deadQueueSize /\ s >= first
    BY SlotOfEvent
  <2> HIDE DEF i
  <2> QED BY <2>1, <2>2
<1>2. ASSUME s < n, s >= n - deadQueueSize, s >= first
      PROVE  i \in Matches(dq, s)
  <2>1. i \in Slots /\ Taken(dq, i) /\ NumberAt(dq, i) = s
    BY <1>2, SlotOfEvent
  <2>3. ASSUME NEW j \in 0 .. i
        PROVE  j \in Slots /\ Taken(dq, j)
    BY <2>1, SlotTaken DEF Slots
  <2>4. ASSUME NEW j \in 0 .. i - 1
        PROVE  NumberAt(dq, j) # s
    <3>1. j \in 0 .. i /\ j # i
      BY <2>1 DEF Slots
    <3>2. j \in Slots /\ Taken(dq, j)
      BY <3>1, <2>3
    <3> QED BY <3>1, <3>2, SlotOfEvent
  <2> QED BY <2>1, <2>3, <2>4 DEF Matches, Taken, NumberAt
<1> QED BY <1>1, <1>2 DEF IsInDeadQueue, IndexOf

\* _hasMsgLoss sees the last event written.
LEMMA SeesLast ==
  ASSUME NEW dq, NEW ptr, NEW n, NEW first, Ring(dq, ptr, n, first)
  PROVE  \A s \in Nat :
         HasMsgLoss(dq, ptr, s) <=> n # first /\ s # n
<1> /\ ptr \in Slots /\ n \in Nat /\ first \in Nat
    /\ n - ptr = first \/ n - ptr >= first + deadQueueSize
  BY DEF Ring
<1> TAKE s \in Nat
<1>1. CASE ptr = 0 /\ ~ Taken(dq, 0)
  BY <1>1, SlotTaken DEF HasMsgLoss, Taken, NumberAt, Ring, Slots
<1>2. CASE ptr = 0 /\ Taken(dq, 0)
  <2>1. n >= first + deadQueueSize /\ Taken(dq, deadQueueSize - 1)
    <3>1. 0 \in Slots /\ deadQueueSize - 1 \in Slots
      BY DEF Slots
    <3>2. n - ptr >= first + deadQueueSize
      BY <1>2, <3>1, SlotTaken
    <3> QED BY <1>2, <3>1, <3>2, SlotTaken
  <2>2. NumberAt(dq, deadQueueSize - 1) = n - 1
    <3>1. deadQueueSize - 1 \in Slots /\ SeqAt(ptr, n, deadQueueSize - 1) = n - 1
      BY <1>2 DEF Slots, SeqAt
    <3> QED BY <2>1, <3>1, SlotTaken
  <2> QED BY <1>2, <2>1, <2>2 DEF HasMsgLoss, Taken, NumberAt
<1>3. CASE ptr # 0
  <2>1. ptr - 1 \in Slots /\ Taken(dq, ptr - 1)
    BY <1>3, SlotTaken DEF Slots
  <2>2. NumberAt(dq, ptr - 1) = n - 1
    BY <1>3, <2>1, SlotTaken DEF Slots, SeqAt
  <2>3. n # first
    BY <1>3 DEF Slots
  <2> QED BY <1>3, <2>2, <2>3 DEF HasMsgLoss, Taken, NumberAt, Slots
<1> QED BY <1>1, <1>2, <1>3

\* In a ring that is full, the loop of drainDeadQueue stops after n - s events:
\* the number falls behind event n - 1, the newest, and nowhere before.
LEMMA RollsOverOnce ==
  ASSUME NEW dq, NEW ptr, NEW n, NEW first, Ring(dq, ptr, n, first),
         n - ptr >= first + deadQueueSize
  PROVE  \A s \in Nat : s < n /\ s >= n - deadQueueSize =>
           /\ RolledOverLength(dq, SlotOf(ptr, n, s)) = n - s
           /\ \A k \in 1 .. n - s :
                (SlotOf(ptr, n, s) + k - 1) % deadQueueSize = SlotOf(ptr, n, s + k - 1)
<1> /\ ptr \in Slots /\ n \in Nat /\ first \in Nat
    /\ n - ptr = first \/ n - ptr >= first + deadQueueSize
  BY DEF Ring
<1> SUFFICES ASSUME NEW s \in Nat, s < n, s >= n - deadQueueSize
             PROVE  /\ RolledOverLength(dq, SlotOf(ptr, n, s)) = n - s
                    /\ \A k \in 1 .. n - s :
                         (SlotOf(ptr, n, s) + k - 1) % deadQueueSize = SlotOf(ptr, n, s + k - 1)
  OBVIOUS
<1> DEFINE i == SlotOf(ptr, n, s)
           Cell(k) == dq[(i + k) % deadQueueSize]
           Drop(k) == Cell(k).seq > Cell(k + 1).seq
           Stop(k) == Drop(k - 1) /\ \A j \in 1 .. k - 1 : ~ Drop(j - 1)
<1>1. i \in Slots
  BY DEF SlotOf, Slots
<1>2. ASSUME NEW k \in 0 .. deadQueueSize
      PROVE  /\ Cell(k).seq = IF s + k < n THEN s + k ELSE s + k - deadQueueSize
             /\ s + k < n => (i + k) % deadQueueSize = SlotOf(ptr, n, s + k)
  <2> DEFINE w == IF i + k < deadQueueSize THEN i + k ELSE i + k - deadQueueSize
  <2>1. (i + k) % deadQueueSize = w
    BY <1>1, WrapValue
  <2>2. w \in Slots
    BY <1>1 DEF Slots
  <2>3. SeqAt(ptr, n, w) = IF s + k < n THEN s + k ELSE s + k - deadQueueSize
    BY <1>1 DEF Slots, SeqAt, SlotOf
  <2>4. s + k < n => w = SlotOf(ptr, n, s + k)
    BY <1>1 DEF Slots, SlotOf
  <2>5. Taken(dq, w)
    BY <2>2, SlotTaken
  <2>6. NumberAt(dq, w) = SeqAt(ptr, n, w)
    BY <2>2, <2>5, SlotTaken
  <2> HIDE DEF w
  <2> QED BY <2>1, <2>3, <2>4, <2>6 DEF NumberAt
<1> HIDE DEF i, Cell
<1>3. ASSUME NEW k \in 1 .. deadQueueSize
      PROVE  Drop(k - 1) <=> k = n - s
  <2>1. k - 1 \in 0 .. deadQueueSize /\ k \in 0 .. deadQueueSize /\ k - 1 + 1 = k
    OBVIOUS
  <2>2. Cell(k - 1).seq = IF s + (k - 1) < n THEN s + (k - 1) ELSE s + (k - 1) - deadQueueSize
    BY <1>2, <2>1
  <2>3. Cell(k).seq = IF s + k < n THEN s + k ELSE s + k - deadQueueSize
    BY <1>2, <2>1
  <2> QED BY <2>1, <2>2, <2>3
<1> HIDE DEF Drop
<1>4. n - s \in 1 .. deadQueueSize
  OBVIOUS
<1>5. ASSUME NEW k \in 1 .. deadQueueSize
      PROVE  Stop(k) <=> k = n - s
  <2>1. \A j \in 1 .. k - 1 : j \in 1 .. deadQueueSize
    OBVIOUS
  <2>2. k = n - s => \A j \in 1 .. k - 1 : ~ Drop(j - 1)
    <3> SUFFICES ASSUME k = n - s, NEW j \in 1 .. k - 1 PROVE ~ Drop(j - 1)
      OBVIOUS
    <3>1. j \in 1 .. deadQueueSize /\ j # n - s
      BY <2>1
    <3> QED BY <3>1, <1>3
  <2> QED BY <1>3, <2>2
<1>6. RolledOverLength(dq, i) = CHOOSE k \in 1 .. deadQueueSize : Stop(k)
  BY DEF RolledOverLength, Taken, NumberAt, Stop, Drop, Cell
<1>7. RolledOverLength(dq, i) = n - s
  BY <1>4, <1>5, <1>6
<1>8. ASSUME NEW k \in 1 .. n - s
      PROVE  (i + k - 1) % deadQueueSize = SlotOf(ptr, n, s + k - 1)
  <2>1. k - 1 \in 0 .. deadQueueSize /\ s + (k - 1) < n /\ s + (k - 1) = s + k - 1
    OBVIOUS
  <2>2. (i + (k - 1)) % deadQueueSize = SlotOf(ptr, n, s + (k - 1))
    BY <1>2, <2>1
  <2>3. i + (k - 1) = i + k - 1
    BY <1>1 DEF Slots
  <2> QED BY <2>1, <2>2, <2>3
<1> QED BY <1>7, <1>8 DEF i

\* drainDeadQueue writes the events s .. n - 1.
LEMMA DrainsTail ==
  ASSUME NEW dq, NEW ptr, NEW n, NEW first, Ring(dq, ptr, n, first)
  PROVE  \A s \in Nat : IsInDeadQueue(dq, s) =>
           DrainDeadQueue(dq, ptr, IndexOf(dq, s)) = RingTail(dq, ptr, n, s)
<1> /\ ptr \in Slots /\ n \in Nat /\ first \in Nat
    /\ n - ptr = first \/ n - ptr >= first + deadQueueSize
  BY DEF Ring
<1> SUFFICES ASSUME NEW s \in Nat, IsInDeadQueue(dq, s)
             PROVE  DrainDeadQueue(dq, ptr, IndexOf(dq, s)) = RingTail(dq, ptr, n, s)
  OBVIOUS
<1> DEFINE i == SlotOf(ptr, n, s)
<1>1. s < n /\ s >= n - deadQueueSize /\ s >= first /\ IndexOf(dq, s) = i
  BY FindsEvent
<1>2. i \in Slots /\ Taken(dq, i)
  BY <1>1, SlotOfEvent
<1>4. 0 \in Slots /\ Taken(dq, 0)
  BY <1>2, SlotTaken DEF Slots
<1>5. CASE ~ Taken(dq, ptr)
  <2>1. n - ptr = first
    BY <1>5, SlotTaken DEF Ring
  <2>2. i = s - first /\ ptr - i = n - s
    BY <1>1, <2>1 DEF SlotOf, Slots
  <2>3. ASSUME NEW k \in 1 .. n - s
        PROVE  i + k - 1 = SlotOf(ptr, n, s + k - 1)
    BY <1>1, <2>1, <2>2 DEF SlotOf, Slots
  <2> HIDE DEF i
  <2> QED BY <1>1, <1>4, <1>5, <2>2, <2>3 DEF DrainDeadQueue, Taken, NumberAt, RingTail
<1>6. CASE Taken(dq, ptr)
  <2>1. n - ptr >= first + deadQueueSize
    BY <1>6, SlotTaken DEF Slots
  <2>2. /\ RolledOverLength(dq, i) = n - s
        /\ \A k \in 1 .. n - s :
             (i + k - 1) % deadQueueSize = SlotOf(ptr, n, s + k - 1)
    BY <1>1, <2>1, RollsOverOnce
  <2> HIDE DEF i
  <2> QED BY <1>1, <1>4, <1>6, <2>2 DEF DrainDeadQueue, Taken, NumberAt, RingTail
<1> QED BY <1>5, <1>6

----------------------------------------------------------------------------
(* What the steps do to a ring. *)

\* addToDeadQueue moves a ring on by one event.
LEMMA AddKeepsRing ==
  ASSUME NEW dq, NEW ptr, NEW n, NEW first, Ring(dq, ptr, n, first), NEW msg,
         msg # Nil, msg.seq = n
  PROVE  Ring(AddToDeadQueue(dq, ptr, msg), NextSlot(ptr), n + 1, first)
<1> /\ ptr \in Slots /\ n \in Nat /\ first \in Nat
    /\ n - ptr = first \/ n - ptr >= first + deadQueueSize
  BY DEF Ring
<1> SUFFICES ASSUME NEW dq2, dq2 = AddToDeadQueue(dq, ptr, msg),
                    NEW ptr2, ptr2 = NextSlot(ptr), NEW m, m = n + 1
             PROVE  Ring(dq2, ptr2, m, first)
  OBVIOUS
<1>1. dq2 = [i \in Slots |-> IF i = ptr THEN msg ELSE dq[i]]
  BY DEF AddToDeadQueue, Ring
<1>2. ptr2 = IF ptr = deadQueueSize - 1 THEN 0 ELSE ptr + 1
  BY NextSlotValue
<1>3. ptr2 \in Slots
  BY <1>2 DEF Slots
<1>4. m - ptr2 = first \/ m - ptr2 >= first + deadQueueSize
  BY <1>2 DEF Slots
<1>5. ASSUME NEW i \in Slots
      PROVE  IF SeqAt(ptr2, m, i) >= first
               THEN Taken(dq2, i) /\ NumberAt(dq2, i) = SeqAt(ptr2, m, i) ELSE ~ Taken(dq2, i)
  <2>1. dq2[i] = IF i = ptr THEN msg ELSE dq[i]
    BY <1>1
  <2>2. CASE i = ptr
    <3>1. n >= first
      BY DEF Slots
    <3>2. SeqAt(ptr2, m, i) = n
      BY <1>2, <2>2 DEF Slots, SeqAt
    <3> QED BY <2>1, <2>2, <3>1, <3>2 DEF Taken, NumberAt
  <2>3. CASE i # ptr
    <3> DEFINE k == SeqAt(ptr, n, i)
               k2 == SeqAt(ptr2, m, i)
    <3>1. k = k2 \/ (k < first /\ k2 < first)
      BY <1>2, <1>3, <2>3 DEF Slots, SeqAt
    <3>2. k \in Int /\ k2 \in Int
      BY <1>3 DEF Slots, SeqAt
    <3>3. IF k >= first THEN Taken(dq, i) /\ NumberAt(dq, i) = k ELSE ~ Taken(dq, i)
      BY DEF Ring
    <3> HIDE DEF k, k2
    <3>4. IF k2 >= first THEN Taken(dq2, i) /\ NumberAt(dq2, i) = k2 ELSE ~ Taken(dq2, i)
      BY <2>1, <2>3, <3>1, <3>2, <3>3 DEF Taken, NumberAt
    <3> QED BY <3>4 DEF k2
  <2> QED BY <2>2, <2>3
<1> QED BY <1>1, <1>2, <1>3, <1>4, <1>5 DEF Ring

LEMMA EmptyRing ==
  ASSUME NEW n \in Nat
  PROVE  Ring(EmptyDeadQueue, 0, n, n)
  BY DEF EmptyDeadQueue, Taken, NumberAt, Ring, SeqAt, Slots

\* clearDeadQueue leaves no event of a ring behind.
LEMMA ClearsRing ==
  ASSUME NEW dq, NEW ptr, NEW n, NEW first,
         Ring(dq, ptr, n, first)
  PROVE  ClearDeadQueue(dq) = EmptyDeadQueue
<1> /\ ptr \in Slots /\ n \in Nat /\ first \in Nat
    /\ n - ptr = first \/ n - ptr >= first + deadQueueSize
  BY DEF Ring
<1>1. ASSUME NEW i \in Slots, Taken(dq, i)
      PROVE  \A j \in 0 .. i : Taken(dq, j)
  <2>1. i < ptr \/ n - ptr >= first + deadQueueSize
    BY <1>1, SlotTaken
  <2> SUFFICES ASSUME NEW j \in 0 .. i PROVE Taken(dq, j)
    OBVIOUS
  <2>2. j \in Slots /\ (j < ptr \/ n - ptr >= first + deadQueueSize)
    BY <2>1 DEF Slots
  <2>3. Taken(dq, j) <=> j < ptr \/ n - ptr >= first + deadQueueSize
    BY <2>2, SlotTaken
  <2> QED BY <2>2, <2>3
<1>2. \A i \in Slots :
        (IF \A j \in 0 .. i : Taken(dq, j) THEN Nil ELSE dq[i]) = Nil
  BY <1>1 DEF Taken
<1> QED BY <1>2 DEF ClearDeadQueue, EmptyDeadQueue, Taken, NumberAt

----------------------------------------------------------------------------
(* A ring in which a number was left out: of its n messages the first g have *)
(* the numbers 0 .. g - 1, and the others have numbers past g, in any order. *)

FrayedRing(dq, ptr, n, g) ==
  /\ dq = [i \in Slots |-> dq[i]]
  /\ ptr \in Slots /\ n \in Nat /\ g \in Nat /\ g <= n
  /\ n = ptr \/ n - ptr >= deadQueueSize
  /\ \A i \in Slots :
       IF SeqAt(ptr, n, i) >= 0
         THEN /\ Taken(dq, i)
              /\ SeqAt(ptr, n, i) < g => NumberAt(dq, i) = SeqAt(ptr, n, i)
              /\ SeqAt(ptr, n, i) >= g => NumberAt(dq, i) \in Nat /\ NumberAt(dq, i) > g
         ELSE ~ Taken(dq, i)

\* A ring is one from which no number was left out.
LEMMA UnfrayedRing ==
  ASSUME NEW dq, NEW ptr, NEW n
  PROVE  Ring(dq, ptr, n, 0) <=> FrayedRing(dq, ptr, n, n)
<1>1. ASSUME ptr \in Slots, n \in Nat, NEW i \in Slots
      PROVE  SeqAt(ptr, n, i) \in Int /\ SeqAt(ptr, n, i) < n
  BY <1>1 DEF SeqAt, Slots
<1>2. ASSUME Ring(dq, ptr, n, 0) PROVE FrayedRing(dq, ptr, n, n)
  <2>1. ptr \in Slots /\ n \in Nat /\ (n = ptr \/ n - ptr >= deadQueueSize)
    <3>1. /\ ptr \in Slots /\ n \in Nat
          /\ n - ptr = 0 \/ n - ptr >= 0 + deadQueueSize
      BY <1>2 DEF Ring
    <3> QED BY <3>1 DEF Slots
  <2>2. ASSUME NEW i \in Slots
        PROVE  IF SeqAt(ptr, n, i) >= 0
                 THEN Taken(dq, i) /\ NumberAt(dq, i) = SeqAt(ptr, n, i) ELSE ~ Taken(dq, i)
    BY <1>2 DEF Ring
  <2> QED BY <1>1, <1>2, <2>1, <2>2 DEF Ring, FrayedRing
<1>3. ASSUME FrayedRing(dq, ptr, n, n) PROVE Ring(dq, ptr, n, 0)
  <2>1. /\ ptr \in Slots /\ n \in Nat
        /\ n - ptr = 0 \/ n - ptr >= 0 + deadQueueSize
    <3>1. ptr \in Slots /\ n \in Nat /\ (n = ptr \/ n - ptr >= deadQueueSize)
      BY <1>3 DEF FrayedRing
    <3> QED BY <3>1 DEF Slots
  <2> QED BY <1>1, <1>3, <2>1 DEF Ring, FrayedRing
<1> QED BY <1>2, <1>3

LEMMA FrayedSlots ==
  ASSUME NEW dq, NEW ptr, NEW n, NEW g, FrayedRing(dq, ptr, n, g)
  PROVE  \A i \in Slots :
         /\ Taken(dq, i) <=> i < ptr \/ n - ptr >= deadQueueSize
         /\ Taken(dq, i) => /\ SeqAt(ptr, n, i) \in Nat
                            /\ SeqAt(ptr, n, i) < n
                            /\ NumberAt(dq, i) \in Nat
                            /\ SeqAt(ptr, n, i) < g => NumberAt(dq, i) = SeqAt(ptr, n, i)
                            /\ SeqAt(ptr, n, i) >= g => NumberAt(dq, i) > g
<1> /\ ptr \in Slots /\ n \in Nat /\ g \in Nat
    /\ n = ptr \/ n - ptr >= deadQueueSize
  BY DEF FrayedRing
<1> TAKE i \in Slots
<1>1. IF SeqAt(ptr, n, i) >= 0
        THEN /\ Taken(dq, i)
             /\ SeqAt(ptr, n, i) < g => NumberAt(dq, i) = SeqAt(ptr, n, i)
             /\ SeqAt(ptr, n, i) >= g => NumberAt(dq, i) \in Nat /\ NumberAt(dq, i) > g
        ELSE ~ Taken(dq, i)
  BY DEF FrayedRing
<1>2. /\ SeqAt(ptr, n, i) \in Int
      /\ SeqAt(ptr, n, i) < n
      /\ SeqAt(ptr, n, i) >= 0 <=> i < ptr \/ n - ptr >= deadQueueSize
  BY DEF Slots, SeqAt
<1> QED BY <1>1, <1>2

\* Place t of the ring, the oldest ones overwritten.
LEMMA FrayedPlaces ==
  ASSUME NEW dq, NEW ptr, NEW n, NEW g, FrayedRing(dq, ptr, n, g),
         NEW t \in Nat, t < n, t >= n - deadQueueSize
  PROVE  /\ SlotOf(ptr, n, t) \in Slots
         /\ Taken(dq, SlotOf(ptr, n, t))
         /\ NumberAt(dq, SlotOf(ptr, n, t)) \in Nat
         /\ t < g => NumberAt(dq, SlotOf(ptr, n, t)) = t
         /\ t >= g => NumberAt(dq, SlotOf(ptr, n, t)) > g
<1> /\ ptr \in Slots /\ n \in Nat /\ g \in Nat
    /\ n = ptr \/ n - ptr >= deadQueueSize
  BY DEF FrayedRing
<1> DEFINE i == SlotOf(ptr, n, t)
<1>1. i \in Slots /\ SeqAt(ptr, n, i) = t
  BY DEF SlotOf, Slots, SeqAt
<1> HIDE DEF i
<1>2. Taken(dq, i)
  BY <1>1 DEF FrayedRing
<1>3. /\ NumberAt(dq, i) \in Nat
      /\ t < g => NumberAt(dq, i) = t
      /\ t >= g => NumberAt(dq, i) > g
  BY <1>1, <1>2, FrayedSlots
<1> QED BY <1>1, <1>2, <1>3 DEF i

\* Up to the number left out, _isInDeadQueue finds what is still there.
LEMMA FindsFrayed ==
  ASSUME NEW dq, NEW ptr, NEW n, NEW g, FrayedRing(dq, ptr, n, g), NEW s \in Nat, s <= g
  PROVE  /\ IsInDeadQueue(dq, s) <=> s < g /\ s >= n - deadQueueSize
         /\ IsInDeadQueue(dq, s) => IndexOf(dq, s) = SlotOf(ptr, n, s)
<1> /\ ptr \in Slots /\ n \in Nat /\ g \in Nat /\ g <= n
    /\ n = ptr \/ n - ptr >= deadQueueSize
  BY DEF FrayedRing
<1> DEFINE i == SlotOf(ptr, n, s)
<1>0. ASSUME NEW j \in Slots, Taken(dq, j), NumberAt(dq, j) = s
      PROVE  j = i /\ s < g /\ s >= n - deadQueueSize
  <2>1. s = SeqAt(ptr, n, j) /\ s < g
    <3>1. /\ SeqAt(ptr, n, j) \in Nat
          /\ SeqAt(ptr, n, j) < g => NumberAt(dq, j) = SeqAt(ptr, n, j)
          /\ SeqAt(ptr, n, j) >= g => NumberAt(dq, j) > g
      BY <1>0, FrayedSlots
    <3> QED BY <1>0, <3>1
  <2>2. j < ptr \/ n - ptr >= deadQueueSize
    BY <1>0, FrayedSlots
  <2> QED BY <2>1, <2>2 DEF SlotOf, Slots, SeqAt
<1>1. ASSUME NEW j \in Matches(dq, s)
      PROVE  j = i /\ s < g /\ s >= n - deadQueueSize
  <2>1. j \in Slots /\ NumberAt(dq, j) = s /\ Taken(dq, j)
    BY DEF Matches, Taken, NumberAt, Slots
  <2> HIDE DEF i
  <2> QED BY <2>1, <1>0
<1>2. ASSUME s < g, s >= n - deadQueueSize
      PROVE  i \in Matches(dq, s)
  <2>1. i \in Slots /\ Taken(dq, i) /\ NumberAt(dq, i) = s
    BY <1>2, FrayedPlaces
  <2>2. i < ptr \/ n - ptr >= deadQueueSize
    BY <2>1, FrayedSlots
  <2> HIDE DEF i
  <2>3. ASSUME NEW j \in 0 .. i
        PROVE  j \in Slots /\ Taken(dq, j)
    <3>1. j \in Slots /\ (j < ptr \/ n - ptr >= deadQueueSize)
      BY <2>1, <2>2 DEF Slots
    <3> QED BY <3>1, FrayedSlots
  <2>4. ASSUME NEW j \in 0 .. i - 1
        PROVE  NumberAt(dq, j) # s
    <3>1. j \in 0 .. i /\ j # i
      BY <2>1 DEF Slots
    <3>2. j \in Slots /\ Taken(dq, j)
      BY <3>1, <2>3
    <3> QED BY <3>1, <3>2, <1>0
  <2> QED BY <2>1, <2>3, <2>4 DEF Matches, Taken, NumberAt
<1> QED BY <1>1, <1>2 DEF IsInDeadQueue, IndexOf

\* The newest message of a frayed ring is past the number left out, and that is
\* what _hasMsgLoss sees.
LEMMA FrayedLast ==
  ASSUME NEW dq, NEW ptr, NEW n, NEW g, FrayedRing(dq, ptr, n, g), g < n
  PROVE  /\ \E i \in Slots : Taken(dq, i) /\ NumberAt(dq, i) > g
         /\ \A s \in Nat : s <= g => HasMsgLoss(dq, ptr, s)
<1> /\ ptr \in Slots /\ n \in Nat /\ g \in Nat
    /\ n = ptr \/ n - ptr >= deadQueueSize
  BY DEF FrayedRing
<1> DEFINE i == IF ptr = 0 THEN deadQueueSize - 1 ELSE ptr - 1
<1>1. i \in Slots /\ 0 \in Slots /\ SeqAt(ptr, n, i) = n - 1
  BY DEF Slots, SeqAt
<1>2. Taken(dq, i) /\ (ptr = 0 => Taken(dq, 0))
  <2>1. i < ptr \/ n - ptr >= deadQueueSize
    BY DEF Slots
  <2>2. ptr = 0 => n - ptr >= deadQueueSize
    OBVIOUS
  <2> HIDE DEF i
  <2> QED BY <1>1, <2>1, <2>2, FrayedSlots
<1> HIDE DEF i
<1>3. NumberAt(dq, i) \in Nat /\ NumberAt(dq, i) > g
  BY <1>1, <1>2, FrayedSlots
<1>4. ASSUME NEW s \in Nat, s <= g PROVE HasMsgLoss(dq, ptr, s)
  BY <1>2, <1>3, <1>4 DEF HasMsgLoss, Taken, NumberAt, i
<1> QED BY <1>1, <1>2, <1>3, <1>4

LEMMA LeastOfNumbers ==
  ASSUME NEW S \in SUBSET Nat, S # {}
  PROVE  \E m \in S : \A k \in S : m <= k
<1>1. PICK m \in S : \A k \in S : <<k, m>> \notin OpToRel(<, Nat)
  BY NatLessThanWellFounded, WFMin
<1>2. \A k \in S : ~ (k < m)
  BY <1>1 DEF OpToRel
<1> QED BY <1>2

\* Once the queue has rolled over, the loop of drainDeadQueue goes past the number
\* left out, and not past the newest message.
LEMMA FrayedRollsOver ==
  ASSUME NEW dq, NEW ptr, NEW n, NEW g, FrayedRing(dq, ptr, n, g), g < n,
         n - ptr >= deadQueueSize, NEW s \in Nat, s < g, s >= n - deadQueueSize
  PROVE  LET m == RolledOverLength(dq, SlotOf(ptr, n, s))
         IN  /\ m \in Nat /\ m > g - s /\ m <= n - s
             /\ \A k \in 1 .. m :
                  (SlotOf(ptr, n, s) + k - 1) % deadQueueSize = SlotOf(ptr, n, s + k - 1)
<1> /\ ptr \in Slots /\ n \in Nat /\ g \in Nat
    /\ n = ptr \/ n - ptr >= deadQueueSize
  BY DEF FrayedRing
<1> DEFINE i == SlotOf(ptr, n, s)
           Cell(k) == dq[(i + k) % deadQueueSize]
           Drop(k) == Cell(k).seq > Cell(k + 1).seq
           Stop(k) == Drop(k - 1) /\ \A j \in 1 .. k - 1 : ~ Drop(j - 1)
<1>1. i \in Slots
  BY DEF SlotOf, Slots
<1>2. ASSUME NEW k \in Nat, s + k < n
      PROVE  /\ (i + k) % deadQueueSize = SlotOf(ptr, n, s + k)
             /\ Cell(k).seq \in Nat
             /\ s + k < g => Cell(k).seq = s + k
             /\ s + k >= g => Cell(k).seq > g
  <2>1. (i + k) % deadQueueSize = SlotOf(ptr, n, s + k)
    <3>1. (i + k) % deadQueueSize =
            IF i + k < deadQueueSize THEN i + k ELSE i + k - deadQueueSize
      <4>1. k \in 0 .. deadQueueSize
        BY <1>2
      <4> HIDE DEF i
      <4> QED BY <1>1, <4>1, WrapValue
    <3> QED BY <1>2, <3>1 DEF SlotOf, Slots
  <2>2. s + k \in Nat /\ s + k >= n - deadQueueSize
    BY <1>2
  <2> DEFINE t == s + k
  <2> HIDE DEF i, t
  <2>3. /\ NumberAt(dq, SlotOf(ptr, n, t)) \in Nat
        /\ t < g => NumberAt(dq, SlotOf(ptr, n, t)) = t
        /\ t >= g => NumberAt(dq, SlotOf(ptr, n, t)) > g
    BY <1>2, <2>2, FrayedPlaces DEF t
  <2> QED BY <2>1, <2>3 DEF NumberAt, t
<1>3. \E k \in 0 .. s : Cell(n - s).seq = k
  \* after the newest message comes the oldest, number n - deadQueueSize
  <2> DEFINE t == n - deadQueueSize
  <2>1. t \in Nat /\ t < n /\ t < g /\ t <= s
    BY DEF Slots
  <2>2. (i + (n - s)) % deadQueueSize = SlotOf(ptr, n, t)
    <3>1. n - s \in 0 .. deadQueueSize
      OBVIOUS
    <3> DEFINE k == n - s
    <3> HIDE DEF i, k
    <3>2. (i + k) % deadQueueSize =
            IF i + k < deadQueueSize THEN i + k ELSE i + k - deadQueueSize
      BY <1>1, <3>1, WrapValue DEF k
    <3> QED BY <3>2 DEF i, k, SlotOf, Slots
  <2> HIDE DEF i, t
  <2>3. NumberAt(dq, SlotOf(ptr, n, t)) = t
    BY <2>1, FrayedPlaces DEF t
  <2> QED BY <2>1, <2>2, <2>3 DEF NumberAt
<1> HIDE DEF Cell, i
<1>4. Drop(n - s - 1)
  <2>1. n - s - 1 \in Nat /\ s + (n - s - 1) < n /\ s + (n - s - 1) >= g
        /\ n - s - 1 + 1 = n - s
    OBVIOUS
  <2>2. Cell(n - s - 1).seq \in Nat /\ Cell(n - s - 1).seq > g
    <3> DEFINE k == n - s - 1
    <3>1. k \in Nat /\ s + k < n /\ s + k >= g
      BY <2>1
    <3> HIDE DEF k
    <3>2. Cell(k).seq \in Nat /\ Cell(k).seq > g
      BY <3>1, <1>2
    <3> QED BY <3>2 DEF k
  <2> QED BY <1>3, <2>1, <2>2
<1>5. ASSUME NEW k \in 1 .. g - s PROVE ~ Drop(k - 1)
  <2>1. k - 1 \in Nat /\ s + (k - 1) < g /\ k - 1 + 1 = k /\ s + k <= g /\ s + k < n
    OBVIOUS
  <2>2. Cell(k - 1).seq = s + (k - 1)
    BY <1>2, <2>1
  <2>3. Cell(k).seq \in Nat /\ Cell(k).seq >= s + k
    BY <1>2, <2>1
  <2> QED BY <2>1, <2>2, <2>3
<1> HIDE DEF Drop
<1> DEFINE S == {k \in 1 .. deadQueueSize : Drop(k - 1)}
<1>6. n - s \in S
  BY <1>4
<1>7. PICK m \in S : \A k \in S : m <= k
  <2>1. S \in SUBSET Nat /\ S # {}
    <3>1. \A k \in 1 .. deadQueueSize : k \in Nat
      OBVIOUS
    <3>2. S \subseteq 1 .. deadQueueSize
      OBVIOUS
    <3> QED BY <1>6, <3>1, <3>2
  <2> HIDE DEF S
  <2> QED BY <2>1, LeastOfNumbers
<1>8. m \in 1 .. deadQueueSize /\ m <= n - s /\ m > g - s
  BY <1>5, <1>6, <1>7
<1>9. \A k \in 1 .. deadQueueSize : Stop(k) <=> k = m
  <2>1. Stop(m)
    BY <1>7, <1>8
  <2>2. ASSUME NEW k \in 1 .. deadQueueSize, Stop(k) PROVE k = m
    <3>1. m <= k
      BY <1>7, <2>2
    <3>2. ~ (m <= k - 1)
      <4> SUFFICES ASSUME m <= k - 1 PROVE FALSE
        OBVIOUS
      <4>1. m \in 1 .. k - 1
        BY <1>8
      <4> QED BY <1>7, <2>2, <4>1
    <3> QED BY <1>8, <3>1, <3>2
  <2> QED BY <2>1, <2>2
<1>10. RolledOverLength(dq, i) = CHOOSE k \in 1 .. deadQueueSize : Stop(k)
  BY DEF RolledOverLength, Stop, Drop, Cell
<1> HIDE DEF Stop
<1>11. RolledOverLength(dq, i) = m
  BY <1>8, <1>9, <1>10
<1>12. ASSUME NEW k \in 1 .. m
       PROVE  (i + k - 1) % deadQueueSize = SlotOf(ptr, n, s + k - 1)
  <2>1. k - 1 \in Nat /\ s + (k - 1) < n /\ s + (k - 1) = s + k - 1
    BY <1>8
  <2>2. (i + (k - 1)) % deadQueueSize = SlotOf(ptr, n, s + (k - 1))
    BY <1>2, <2>1
  <2>3. i + (k - 1) = i + k - 1
    BY <1>1 DEF Slots
  <2> QED BY <2>1, <2>2, <2>3
<1> QED BY <1>8, <1>11, <1>12 DEF i

\* drainDeadQueue writes the events from s on up to the number left out, and at
\* least one more.
LEMMA DrainsFrayed ==
  ASSUME NEW dq, NEW ptr, NEW n, NEW g, FrayedRing(dq, ptr, n, g), g < n,
         NEW s \in Nat, s < g, s >= n - deadQueueSize
  PROVE  \E m \in Nat :
           /\ m > g - s /\ m <= n - s
           /\ DrainDeadQueue(dq, ptr, SlotOf(ptr, n, s)) =
                [k \in 1 .. m |-> dq[SlotOf(ptr, n, s + k - 1)]]
<1> /\ ptr \in Slots /\ n \in Nat /\ g \in Nat
    /\ n = ptr \/ n - ptr >= deadQueueSize
  BY DEF FrayedRing
<1> DEFINE i == SlotOf(ptr, n, s)
<1>1. i \in Slots /\ Taken(dq, i)
  BY FrayedPlaces
<1>2. 0 \in Slots /\ Taken(dq, 0)
  <2>1. i < ptr \/ n - ptr >= deadQueueSize
    BY <1>1, FrayedSlots
  <2>2. 0 \in Slots /\ (0 < ptr \/ n - ptr >= deadQueueSize)
    BY <1>1, <2>1 DEF Slots
  <2> QED BY <2>2, FrayedSlots
<1>3. CASE ~ Taken(dq, ptr)
  <2>1. n = ptr
    <3>1. ~ (n - ptr >= deadQueueSize)
      BY <1>3, FrayedSlots
    <3> QED BY <3>1
  <2>2. i = s /\ ptr - i = n - s /\ n - s \in Nat /\ n - s > g - s
    BY <2>1 DEF SlotOf, Slots
  <2>3. \A k \in 1 .. n - s : i + k - 1 = SlotOf(ptr, n, s + k - 1)
    BY <2>1, <2>2 DEF SlotOf, Slots
  <2> HIDE DEF i
  <2>4. DrainDeadQueue(dq, ptr, i) = [k \in 1 .. n - s |-> dq[SlotOf(ptr, n, s + k - 1)]]
    BY <1>2, <1>3, <2>2, <2>3 DEF DrainDeadQueue, Taken
  <2> DEFINE m == n - s
  <2>5. /\ m \in Nat /\ m > g - s /\ m <= n - s
        /\ DrainDeadQueue(dq, ptr, i) = [k \in 1 .. m |-> dq[SlotOf(ptr, n, s + k - 1)]]
    BY <2>2, <2>4
  <2> HIDE DEF m
  <2> QED BY <2>5 DEF i
<1>4. CASE Taken(dq, ptr)
  <2>1. n - ptr >= deadQueueSize
    BY <1>4, FrayedSlots DEF Slots
  <2> DEFINE m == RolledOverLength(dq, i)
  <2>2. /\ m \in Nat /\ m > g - s /\ m <= n - s
        /\ \A k \in 1 .. m :
             (i + k - 1) % deadQueueSize = SlotOf(ptr, n, s + k - 1)
    BY <2>1, FrayedRollsOver
  <2>3. DrainDeadQueue(dq, ptr, i) = [k \in 1 .. m |-> dq[(i + k - 1) % deadQueueSize]]
    BY <1>2, <1>4 DEF DrainDeadQueue, Taken
  <2> HIDE DEF m
  <2>4. DrainDeadQueue(dq, ptr, i) = [k \in 1 .. m |-> dq[SlotOf(ptr, n, s + k - 1)]]
    BY <2>2, <2>3
  <2> QED BY <2>2, <2>4
<1> QED BY <1>3, <1>4

\* addToDeadQueue, given a message past the number left out.
LEMMA AddFrays ==
  ASSUME NEW dq, NEW ptr, NEW n, NEW g, FrayedRing(dq, ptr, n, g), NEW msg,
         msg # Nil, msg.seq \in Nat, msg.seq > g
  PROVE  FrayedRing(AddToDeadQueue(dq, ptr, msg), NextSlot(ptr), n + 1, g)
<1> /\ ptr \in Slots /\ n \in Nat /\ g \in Nat /\ g <= n
    /\ n = ptr \/ n - ptr >= deadQueueSize
  BY DEF FrayedRing
<1> SUFFICES ASSUME NEW dq2, dq2 = AddToDeadQueue(dq, ptr, msg),
                    NEW ptr2, ptr2 = NextSlot(ptr), NEW m, m = n + 1
             PROVE  FrayedRing(dq2, ptr2, m, g)
  OBVIOUS
<1>1. dq2 = [i \in Slots |-> IF i = ptr THEN msg ELSE dq[i]]
  BY DEF AddToDeadQueue, FrayedRing
<1>2. ptr2 = IF ptr = deadQueueSize - 1 THEN 0 ELSE ptr + 1
  BY NextSlotValue
<1>3. ptr2 \in Slots /\ m \in Nat /\ g <= m
  BY <1>2 DEF Slots
<1>4. m = ptr2 \/ m - ptr2 >= deadQueueSize
  BY <1>2 DEF Slots
<1>5. ASSUME NEW i \in Slots
      PROVE  IF SeqAt(ptr2, m, i) >= 0
               THEN /\ Taken(dq2, i)
                    /\ SeqAt(ptr2, m, i) < g => NumberAt(dq2, i) = SeqAt(ptr2, m, i)
                    /\ SeqAt(ptr2, m, i) >= g => NumberAt(dq2, i) \in Nat /\ NumberAt(dq2, i) > g
               ELSE ~ Taken(dq2, i)
  <2>1. dq2[i] = IF i = ptr THEN msg ELSE dq[i]
    BY <1>1
  <2>2. CASE i = ptr
    <3>1. SeqAt(ptr2, m, i) = n
      BY <1>2, <2>2 DEF Slots, SeqAt
    <3> QED BY <2>1, <2>2, <3>1 DEF Taken, NumberAt
  <2>3. CASE i # ptr
    <3> DEFINE k == SeqAt(ptr, n, i)
               k2 == SeqAt(ptr2, m, i)
    <3>1. k = k2 \/ (k < 0 /\ k2 < 0)
      BY <1>2, <1>3, <2>3 DEF Slots, SeqAt
    <3>2. k \in Int /\ k2 \in Int
      BY <1>3 DEF Slots, SeqAt
    <3>3. IF k >= 0 THEN /\ Taken(dq, i)
                         /\ k < g => NumberAt(dq, i) = k
                         /\ k >= g => NumberAt(dq, i) \in Nat /\ NumberAt(dq, i) > g
                    ELSE ~ Taken(dq, i)
      BY DEF FrayedRing
    <3> HIDE DEF k, k2
    <3>4. IF k2 >= 0 THEN /\ Taken(dq2, i)
                          /\ k2 < g => NumberAt(dq2, i) = k2
                          /\ k2 >= g => NumberAt(dq2, i) \in Nat /\ NumberAt(dq2, i) > g
                     ELSE ~ Taken(dq2, i)
      BY <2>1, <2>3, <3>1, <3>2, <3>3 DEF Taken, NumberAt
    <3> QED BY <3>4 DEF k2
  <2> QED BY <2>2, <2>3
<1> QED BY <1>1, <1>3, <1>4, <1>5 DEF FrayedRing

\* clearDeadQueue leaves nothing of a frayed ring behind either.
LEMMA ClearsFrayed ==
  ASSUME NEW dq, NEW ptr, NEW n, NEW g, FrayedRing(dq, ptr, n, g)
  PROVE  ClearDeadQueue(dq) = EmptyDeadQueue
<1> /\ ptr \in Slots /\ n \in Nat
  BY DEF FrayedRing
<1>1. ASSUME NEW i \in Slots, Taken(dq, i), NEW j \in 0 .. i
      PROVE  Taken(dq, j)
  <2>1. i < ptr \/ n - ptr >= deadQueueSize
    BY <1>1, FrayedSlots
  <2>2. j \in Slots /\ (j < ptr \/ n - ptr >= deadQueueSize)
    BY <2>1 DEF Slots
  <2> QED BY <2>2, FrayedSlots
<1>2. \A i \in Slots :
        (IF \A j \in 0 .. i : Taken(dq, j) THEN Nil ELSE dq[i]) = Nil
  BY <1>1 DEF Taken
<1> QED BY <1>2 DEF ClearDeadQueue, EmptyDeadQueue, Taken
=============================================================================
