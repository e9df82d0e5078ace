----------------------- MODULE ReliableWebSocketStream -----------------------
(***************************************************************************)
(* The event stream of ReliableWebSocket is in order and complete, up to   *)
(* events that are known to be lost. A message is looked at as a mark, its *)
(* number and its event, wherever it is: in the send channel (where it has *)
(* its number already, by its place), in the dead queue, on the client's   *)
(* socket, or, the last one read, with the client. Most steps only move    *)
(* marks from one of these places to another. An event that cannot be      *)
(* encoded leaves a gap in the numbers: what a queue has past its gap does *)
(* not count any more, because the client will never read it under this    *)
(* connection ID.                                                          *)
(***************************************************************************)
EXTENDS ReliableWebSocketProofs

Mark(s, p) == [seq |-> s, pub |-> p]

SlotMarks(dq, g) ==
  {Mark(dq[i].seq, dq[i].pub) : i \in {j \in Slots : Taken(dq, j) /\ NumberAt(dq, j) < g}}
ChanMarks(ch, n) == {Mark(n + k - 1, ch[k].pub) : k \in DOMAIN ch}
SentMarks(w, s) == {Mark(w[k].seq, w[k].pub) : k \in InStep(w, s)}

\* The dead queue of a WebConn has messages past a gap, and what would be next in
\* it if it had not.
Torn == [c \in Conns |-> Frayed(deadQueue[queue[c]], Written[c])]
NextMarks == [c \in Conns |-> ChanMarks(send[queue[c]], Written[c])]
QueueMarks ==
  [c \in Conns |-> SlotMarks(deadQueue[queue[c]], Written[c])
                     \cup (IF Torn[c] THEN {} ELSE NextMarks[c])]
SocketMarks == IF conn = NoConn THEN {} ELSE SentMarks(wire[conn], Start)
ClientMark == Mark(serverSequence - 1, lastEvent)

\* All that is known to somebody of the stream of a WebConn, and what the client
\* will see on its socket.
StreamMarks ==
  [c \in Conns |-> QueueMarks[c]
                     \cup (IF connectionID[c] = WireId THEN SocketMarks ELSE {})
                     \cup (IF connectionID[c] = connectionId THEN {ClientMark} ELSE {})]
ReadMarks == SocketMarks \cup (IF WireId = connectionId THEN {ClientMark} ELSE {})

\* Numbers and events, up to event p, go up together. Number 0 is the hello message.
Ordered(S, p) ==
  /\ \A x \in S : /\ x.seq \in Int /\ x.pub \in Nat /\ x.pub <= p
                  /\ x.seq = 0 => x.pub = 0
  /\ \A x, y \in S : x.seq < y.seq <=> x.pub < y.pub

OrderInv ==
  /\ \A d \in Holders : Ordered(StreamMarks[d], published) /\ Ordered(NextMarks[d], published)
  /\ Ordered(ReadMarks, published)

\* All numbers from s on and below n are there.
Kept(S, s, n) == \A k \in Int : s <= k /\ k < n => \E x \in S : x.seq = k

\* Event e is there, or is one that was never to be.
Accounted(S, lost, e) == e \in lost \/ \E x \in S : x.pub = e

\* Event e was published while the hub knew of d, or would have been handed it.
Open(d) == ~ Torn[d] /\ (d \in index \/ InHandover(d))
Reached(d, e) == Open(d) \/ \E x \in StreamMarks[d] : e < x.pub

\* Whatever the client lacks is in the stream of its connection ID, unless a
\* number that it lacks too was overwritten.
QueueComplete ==
  \A d \in Holders :
    connectionID[d] = connectionId /\ Kept(StreamMarks[d], serverSequence, Written[d]) =>
      \A e \in view + 1 .. published :
        Reached(d, e) => Accounted(StreamMarks[d], missed[queue[d]], e)

\* Nor is an event missing between those on the client's socket.
SocketComplete ==
  conn # NoConn /\ WireId = connectionId =>
    \A x \in SocketMarks : \A e \in view + 1 .. x.pub - 1 :
      Accounted(SocketMarks, missed[queue[conn]], e)

ViewInv == lastEvent <= view /\ Ordered({ClientMark}, published)

StreamInv == OrderInv /\ QueueComplete /\ SocketComplete /\ ViewInv

----------------------------------------------------------------------------
(* Sets of marks. *)

LEMMA OrderedSubset ==
  ASSUME NEW S, NEW T, T \subseteq S, NEW p \in Nat, NEW q \in Nat, p <= q, Ordered(S, p)
  PROVE  Ordered(T, q)
<1>1. \A x \in T : /\ x.seq \in Int /\ x.pub \in Nat /\ x.pub <= q
                   /\ x.seq = 0 => x.pub = 0
  <2>1. \A x \in T : /\ x.seq \in Int /\ x.pub \in Nat /\ x.pub <= p
                     /\ x.seq = 0 => x.pub = 0
    BY DEF Ordered
  <2> QED BY <2>1
<1>2. \A x, y \in T : x.seq < y.seq <=> x.pub < y.pub
  BY DEF Ordered
<1> QED BY <1>1, <1>2 DEF Ordered

LEMMA OrderedHello ==
  ASSUME NEW T, T \subseteq {Mark(0, 0)}, NEW p \in Nat
  PROVE  Ordered(T, p)
<1>1. \A x \in T : x.seq = 0 /\ x.pub = 0
  BY DEF Mark
<1> QED BY <1>1 DEF Ordered

\* A new event at the end.
LEMMA OrderedAppend ==
  ASSUME NEW S, NEW p \in Nat, Ordered(S, p), NEW s \in Nat, s # 0,
         \A x \in S : x.seq < s,
         NEW T, T \subseteq S \cup {Mark(s, p + 1)}
  PROVE  Ordered(T, p + 1)
<1> DEFINE m == Mark(s, p + 1)
<1>1. m.seq = s /\ m.pub = p + 1
  BY DEF Mark
<1>2. \A x \in S : /\ x.seq \in Int /\ x.pub \in Nat /\ x.pub <= p
                   /\ x.seq = 0 => x.pub = 0
  BY DEF Ordered
<1>3. \A x, y \in S : x.seq < y.seq <=> x.pub < y.pub
  BY DEF Ordered
<1> HIDE DEF m
<1>4. T \subseteq S \cup {m}
  BY DEF m
<1>5. \A x \in T : /\ x.seq \in Int /\ x.pub \in Nat /\ x.pub <= p + 1
                   /\ x.seq = 0 => x.pub = 0
  BY <1>1, <1>2, <1>4
<1>6. ASSUME NEW x \in T, NEW y \in T PROVE x.seq < y.seq <=> x.pub < y.pub
  <2>1. CASE x \in S /\ y \in S
    BY <1>3, <2>1
  <2>2. CASE x \in S /\ y = m
    BY <1>1, <1>2, <2>2
  <2>3. CASE x = m /\ y \in S
    BY <1>1, <1>2, <2>3
  <2>4. CASE x = m /\ y = m
    BY <1>1, <2>4
  <2> QED BY <1>4, <2>1, <2>2, <2>3, <2>4
<1> QED BY <1>5, <1>6 DEF Ordered

\* Two marks of the same number are one.
LEMMA OrderedSame ==
  ASSUME NEW S, NEW p, Ordered(S, p), NEW x \in S, NEW y \in S, x.seq = y.seq
  PROVE  x.pub = y.pub
<1>1. /\ x.seq \in Int /\ x.pub \in Nat /\ y.pub \in Nat
      /\ x.seq < y.seq <=> x.pub < y.pub
      /\ y.seq < x.seq <=> y.pub < x.pub
  BY DEF Ordered
<1> QED BY <1>1

LEMMA ChanTailMarks ==
  ASSUME NEW ch \in Seq(Message), ch # <<>>, NEW n \in Nat
  PROVE  ChanMarks(ch, n) = {Mark(n, Head(ch).pub)} \cup ChanMarks(Tail(ch), n + 1)
<1> DEFINE t == Tail(ch)
           h == Head(ch)
<1>1. /\ Len(ch) \in Nat /\ Len(ch) >= 1 /\ DOMAIN ch = 1 .. Len(ch)
      /\ h = ch[1]
      /\ DOMAIN t = 1 .. Len(ch) - 1
      /\ \A k \in 1 .. Len(ch) - 1 : t[k] = ch[k + 1]
  OBVIOUS
<1> HIDE DEF t, h
<1>2. ASSUME NEW k \in DOMAIN ch
      PROVE  Mark(n + k - 1, ch[k].pub) \in {Mark(n, h.pub)} \cup ChanMarks(t, n + 1)
  <2>1. CASE k = 1
    <3>1. n + k - 1 = n
      BY <2>1
    <3> QED BY <1>1, <2>1, <3>1
  <2>2. CASE k # 1
    <3>1. k - 1 \in DOMAIN t /\ t[k - 1] = ch[k] /\ n + k - 1 = (n + 1) + (k - 1) - 1
      BY <1>1, <2>2
    <3> QED BY <3>1 DEF ChanMarks
  <2> QED BY <2>1, <2>2
<1>3. Mark(n, h.pub) \in ChanMarks(ch, n)
  <2>1. 1 \in DOMAIN ch /\ n + 1 - 1 = n
    BY <1>1
  <2> QED BY <1>1, <2>1 DEF ChanMarks
<1>4. ASSUME NEW k \in DOMAIN t
      PROVE  Mark(n + 1 + k - 1, t[k].pub) \in ChanMarks(ch, n)
  <2>1. k + 1 \in DOMAIN ch /\ t[k] = ch[k + 1] /\ n + 1 + k - 1 = n + (k + 1) - 1
    BY <1>1
  <2> QED BY <2>1 DEF ChanMarks
<1>5. ChanMarks(ch, n) \subseteq {Mark(n, h.pub)} \cup ChanMarks(t, n + 1)
  BY <1>2 DEF ChanMarks
<1>6. ChanMarks(t, n + 1) \subseteq ChanMarks(ch, n)
  BY <1>4 DEF ChanMarks
<1> QED BY <1>3, <1>5, <1>6 DEF t, h

LEMMA ChanAppendMarks ==
  ASSUME NEW ch \in Seq(Message), NEW m, NEW n \in Nat
  PROVE  /\ ChanMarks(Append(ch, m), n) = ChanMarks(ch, n) \cup {Mark(n + Len(ch), m.pub)}
         /\ \A x \in ChanMarks(ch, n) : x.seq < n + Len(ch) /\ x.seq >= n
         /\ Len(ch) \in Nat
<1> DEFINE a == Append(ch, m)
<1>1. /\ Len(ch) \in Nat /\ DOMAIN ch = 1 .. Len(ch)
      /\ DOMAIN a = 1 .. Len(ch) + 1
      /\ \A k \in 1 .. Len(ch) : a[k] = ch[k]
      /\ a[Len(ch) + 1] = m
  OBVIOUS
<1> HIDE DEF a
<1>2. ASSUME NEW k \in DOMAIN a
      PROVE  Mark(n + k - 1, a[k].pub) \in ChanMarks(ch, n) \cup {Mark(n + Len(ch), m.pub)}
  <2>1. CASE k = Len(ch) + 1
    <3>1. n + k - 1 = n + Len(ch)
      BY <1>1, <2>1
    <3> QED BY <1>1, <2>1, <3>1
  <2>2. CASE k \in DOMAIN ch
    BY <1>1, <2>2 DEF ChanMarks
  <2> QED BY <1>1, <2>1, <2>2
<1>3. \A k \in DOMAIN ch : k \in DOMAIN a /\ a[k] = ch[k]
  BY <1>1
<1>4. ChanMarks(ch, n) \subseteq ChanMarks(a, n)
  BY <1>3 DEF ChanMarks
<1>5. Mark(n + Len(ch), m.pub) \in ChanMarks(a, n)
  <2>1. Len(ch) + 1 \in DOMAIN a /\ n + (Len(ch) + 1) - 1 = n + Len(ch)
    BY <1>1
  <2> QED BY <1>1, <2>1 DEF ChanMarks
<1>6. ChanMarks(a, n) \subseteq ChanMarks(ch, n) \cup {Mark(n + Len(ch), m.pub)}
  BY <1>2 DEF ChanMarks
<1>7. \A x \in ChanMarks(ch, n) : x.seq < n + Len(ch) /\ x.seq >= n
  BY <1>1 DEF ChanMarks, Mark
<1> QED BY <1>1, <1>4, <1>5, <1>6, <1>7 DEF a

\* The first message of a channel is dropped: the others move up.
LEMMA ChanDropMarks ==
  ASSUME NEW ch \in Seq(Message), ch # <<>>, NEW n \in Nat
  PROVE  /\ \A x \in ChanMarks(Tail(ch), n) :
              x.seq >= n /\ Mark(x.seq + 1, x.pub) \in ChanMarks(ch, n)
         /\ \A x \in ChanMarks(ch, n) :
              x.pub = Head(ch).pub \/ \E y \in ChanMarks(Tail(ch), n) : y.pub = x.pub
<1> DEFINE t == Tail(ch)
           h == Head(ch)
<1>1. /\ Len(ch) \in Nat /\ Len(ch) >= 1 /\ DOMAIN ch = 1 .. Len(ch)
      /\ h = ch[1]
      /\ DOMAIN t = 1 .. Len(ch) - 1
      /\ \A k \in 1 .. Len(ch) - 1 : t[k] = ch[k + 1]
  OBVIOUS
<1> HIDE DEF t, h
<1>2. ASSUME NEW x \in ChanMarks(t, n)
      PROVE  x.seq >= n /\ Mark(x.seq + 1, x.pub) \in ChanMarks(ch, n)
  <2>1. PICK k \in DOMAIN t : x = Mark(n + k - 1, t[k].pub)
    BY <1>2 DEF ChanMarks
  <2>2. x.seq = n + k - 1 /\ x.pub = t[k].pub
    BY <2>1 DEF Mark
  <2>3. /\ k + 1 \in DOMAIN ch /\ t[k] = ch[k + 1]
        /\ n + k - 1 >= n /\ (n + k - 1) + 1 = n + (k + 1) - 1
    BY <1>1
  <2>4. Mark(n + (k + 1) - 1, ch[k + 1].pub) \in ChanMarks(ch, n)
    BY <2>3 DEF ChanMarks
  <2> QED BY <2>2, <2>3, <2>4
<1>3. ASSUME NEW x \in ChanMarks(ch, n)
      PROVE  x.pub = h.pub \/ \E y \in ChanMarks(t, n) : y.pub = x.pub
  <2>1. PICK k \in DOMAIN ch : x = Mark(n + k - 1, ch[k].pub)
    BY <1>3 DEF ChanMarks
  <2>2. x.pub = ch[k].pub
    BY <2>1 DEF Mark
  <2>3. CASE k = 1
    BY <1>1, <2>2, <2>3
  <2>4. CASE k # 1
    <3>1. k - 1 \in DOMAIN t /\ t[k - 1] = ch[k]
      BY <1>1, <2>4
    <3>2. Mark(n + (k - 1) - 1, t[k - 1].pub) \in ChanMarks(t, n)
      BY <3>1 DEF ChanMarks
    <3> QED BY <2>2, <3>1, <3>2 DEF Mark
  <2> QED BY <2>3, <2>4
<1> QED BY <1>2, <1>3 DEF t, h

\* They stay in order, and above marks that were below all of them.
LEMMA DropOrdered ==
  ASSUME NEW A, NEW ch \in Seq(Message), ch # <<>>, NEW n \in Nat, n # 0, NEW p \in Nat,
         Ordered(A \cup ChanMarks(ch, n), p), \A x \in A : x.seq < n
  PROVE  Ordered(A \cup ChanMarks(Tail(ch), n), p)
<1> DEFINE S == A \cup ChanMarks(ch, n)
           T == A \cup ChanMarks(Tail(ch), n)
\* Every mark had another number before, A's the same, and the order was the same.
<1>1. ASSUME NEW x \in T
      PROVE  \E u \in S : /\ u.pub = x.pub
                          /\ \/ u.seq = x.seq /\ x.seq < n
                             \/ u.seq = x.seq + 1 /\ x.seq >= n /\ x.seq \in Int
  <2>1. CASE x \in A
    BY <2>1
  <2>2. CASE x \in ChanMarks(Tail(ch), n)
    <3>1. x.seq >= n /\ Mark(x.seq + 1, x.pub) \in ChanMarks(ch, n)
      BY <2>2, ChanDropMarks
    <3>2. x.seq \in Int
      <4>1. PICK k \in DOMAIN Tail(ch) : x = Mark(n + k - 1, Tail(ch)[k].pub)
        BY <2>2 DEF ChanMarks
      <4>2. DOMAIN Tail(ch) \subseteq Int
        OBVIOUS
      <4>3. x.seq = n + k - 1
        BY <4>1 DEF Mark
      <4> QED BY <4>2, <4>3
    <3> DEFINE u == Mark(x.seq + 1, x.pub)
    <3>3. u.seq = x.seq + 1 /\ u.pub = x.pub
      BY DEF Mark
    <3> HIDE DEF u
    <3>6. u \in S
      BY <3>1 DEF u
    <3> QED BY <3>1, <3>2, <3>3, <3>6
  <2> QED BY <2>1, <2>2
<1>2. /\ \A u \in S : /\ u.seq \in Int /\ u.pub \in Nat /\ u.pub <= p
                      /\ u.seq = 0 => u.pub = 0
      /\ \A u, v \in S : u.seq < v.seq <=> u.pub < v.pub
  BY DEF Ordered
<1> HIDE DEF S, T
<1>3. ASSUME NEW x \in T
      PROVE  /\ x.seq \in Int /\ x.pub \in Nat /\ x.pub <= p
             /\ x.seq = 0 => x.pub = 0
  <2>1. PICK u \in S : /\ u.pub = x.pub
                       /\ \/ u.seq = x.seq /\ x.seq < n
                          \/ u.seq = x.seq + 1 /\ x.seq >= n /\ x.seq \in Int
    BY <1>1
  <2>2. /\ u.seq \in Int /\ u.pub \in Nat /\ u.pub <= p
        /\ u.seq = 0 => u.pub = 0
    BY <1>2
  <2>3. CASE u.seq = x.seq
    BY <2>1, <2>2, <2>3
  <2>4. CASE u.seq = x.seq + 1 /\ x.seq >= n /\ x.seq \in Int
    <3>1. x.seq # 0
      BY <2>4
    <3> QED BY <2>1, <2>2, <2>4, <3>1
  <2> QED BY <2>1, <2>3, <2>4
<1>4. ASSUME NEW x \in T, NEW y \in T PROVE x.seq < y.seq <=> x.pub < y.pub
  <2>1. PICK u \in S : /\ u.pub = x.pub
                       /\ \/ u.seq = x.seq /\ x.seq < n
                          \/ u.seq = x.seq + 1 /\ x.seq >= n
    BY <1>1
  <2>2. PICK v \in S : /\ v.pub = y.pub
                       /\ \/ v.seq = y.seq /\ y.seq < n
                          \/ v.seq = y.seq + 1 /\ y.seq >= n
    BY <1>1
  <2>3. u.seq < v.seq <=> x.seq < y.seq
    <3>1. x.seq \in Int /\ y.seq \in Int /\ u.seq \in Int /\ v.seq \in Int
      BY <1>2, <1>3
    <3> QED BY <2>1, <2>2, <3>1
  <2> QED BY <1>2, <2>1, <2>2, <2>3
<1>5. Ordered(T, p)
  BY <1>3, <1>4 DEF Ordered
<1> QED BY <1>5 DEF T

LEMMA DropKeepsOrdered ==
  ASSUME NEW ch \in Seq(Message), ch # <<>>, NEW n \in Nat, n # 0, NEW p \in Nat,
         Ordered(ChanMarks(ch, n), p)
  PROVE  Ordered(ChanMarks(Tail(ch), n), p)
<1> DEFINE A == {}
<1>1. A \cup ChanMarks(ch, n) = ChanMarks(ch, n) /\ A \cup ChanMarks(Tail(ch), n) = ChanMarks(Tail(ch), n)
  OBVIOUS
<1>2. \A x \in A : x.seq < n
  OBVIOUS
<1> HIDE DEF A
<1>3. Ordered(A \cup ChanMarks(ch, n), p)
  BY <1>1
<1>4. Ordered(A \cup ChanMarks(Tail(ch), n), p)
  BY <1>2, <1>3, DropOrdered
<1> QED BY <1>1, <1>4

LEMMA SentTailMarks ==
  ASSUME NEW w \in Seq(SentMessage), w # <<>>, NEW s \in Nat, Head(w).seq = s
  PROVE  SentMarks(w, s) = {Mark(s, Head(w).pub)} \cup SentMarks(Tail(w), s + 1)
<1> DEFINE t == Tail(w)
           h == Head(w)
<1>1. /\ Len(w) \in Nat /\ Len(w) >= 1 /\ DOMAIN w = 1 .. Len(w)
      /\ h = w[1]
      /\ DOMAIN t = 1 .. Len(w) - 1
      /\ \A k \in 1 .. Len(w) - 1 : t[k] = w[k + 1]
  OBVIOUS
<1>2. /\ 1 \in InStep(w, s)
      /\ \A k \in InStep(t, s + 1) : k + 1 \in InStep(w, s) /\ t[k] = w[k + 1]
  BY SocketTail
<1> HIDE DEF t, h
<1>3. ASSUME NEW k \in InStep(w, s), k # 1
      PROVE  k - 1 \in InStep(t, s + 1) /\ w[k] = t[k - 1]
  <2>1. k \in 1 .. Len(w) /\ \A j \in 1 .. k : w[j].seq = s + j - 1
    BY <1>1 DEF InStep
  <2>2. k - 1 \in DOMAIN t /\ w[k] = t[k - 1]
    BY <1>1, <1>3, <2>1
  <2>3. ASSUME NEW j \in 1 .. k - 1 PROVE t[j].seq = s + 1 + j - 1
    <3>1. j + 1 \in 1 .. k /\ t[j] = w[j + 1] /\ s + (j + 1) - 1 = s + 1 + j - 1
      BY <1>1, <2>1
    <3> QED BY <2>1, <3>1
  <2> QED BY <2>2, <2>3 DEF InStep
<1>4. SentMarks(w, s) \subseteq {Mark(s, h.pub)} \cup SentMarks(t, s + 1)
  <2>1. h.seq = s
    BY DEF h
  <2> QED BY <1>1, <1>3, <2>1 DEF SentMarks
<1>5. SentMarks(t, s + 1) \subseteq SentMarks(w, s)
  BY <1>2 DEF SentMarks
<1>6. Mark(s, h.pub) \in SentMarks(w, s)
  <2>1. h.seq = s
    BY DEF h
  <2> QED BY <1>1, <1>2, <2>1 DEF SentMarks
<1> QED BY <1>4, <1>5, <1>6 DEF t, h

\* The socket of a WebConn that writes the next message, or one past the gap.
LEMMA SentAppendMarks ==
  ASSUME NEW w \in Seq(SentMessage), NEW m \in SentMessage, NEW s \in Nat, NEW n \in Nat,
         HasAll(w, s, n)
  PROVE  /\ m.seq > n => SentMarks(w \o <<m>>, s) = SentMarks(w, s)
         /\ m.seq = n /\ Len(w) = n - s =>
              SentMarks(w \o <<m>>, s) = SentMarks(w, s) \cup {Mark(n, m.pub)}
<1> DEFINE v == w \o <<m>>
<1>1. /\ \A k \in DOMAIN w : v[k] = w[k]
      /\ InStep(w, s) \subseteq InStep(v, s)
      /\ InStep(v, s) \subseteq InStep(w, s) \cup {Len(w) + 1}
      /\ v[Len(w) + 1] = m
      /\ m.seq > n => InStep(v, s) = InStep(w, s)
      /\ m.seq = n /\ Len(w) = n - s => HasAll(v, s, n + 1)
  BY SocketAppend
<1>2. Len(w) \in Nat /\ DOMAIN v = 1 .. Len(w) + 1
  OBVIOUS
<1> HIDE DEF v
<1>3. \A k \in InStep(w, s) : k \in DOMAIN w /\ v[k] = w[k]
  BY <1>1 DEF InStep
<1>4. ASSUME m.seq = n, Len(w) = n - s
      PROVE  InStep(v, s) = InStep(w, s) \cup {Len(w) + 1}
  <2>1. \A k \in 1 .. n + 1 - s : v[k].seq = s + k - 1
    BY <1>1, <1>4 DEF HasAll
  <2>2. Len(w) + 1 \in InStep(v, s)
    <3>1. Len(w) + 1 = n + 1 - s
      BY <1>4
    <3> QED BY <1>2, <2>1, <3>1 DEF InStep
  <2> QED BY <1>1, <2>2
<1>5. m.seq > n => SentMarks(v, s) = SentMarks(w, s)
  BY <1>1, <1>3 DEF SentMarks
<1>6. ASSUME m.seq = n, Len(w) = n - s
      PROVE  SentMarks(v, s) = SentMarks(w, s) \cup {Mark(n, m.pub)}
  BY <1>1, <1>3, <1>4, <1>6 DEF SentMarks
<1> QED BY <1>5, <1>6 DEF v

LEMMA SentOneMark ==
  ASSUME NEW m, m.seq = 0
  PROVE  SentMarks(<<m>>, 0) = {Mark(0, m.pub)}
<1>1. DOMAIN <<m>> = {1} /\ <<m>>[1] = m /\ 0 + 1 - 1 = 0 /\ 1 .. 1 = {1}
  OBVIOUS
<1>2. InStep(<<m>>, 0) = {1}
  BY <1>1 DEF InStep
<1> QED BY <1>1, <1>2 DEF SentMarks

\* An intact socket has all that was written before the gap and not yet read.
LEMMA SentIsKept ==
  ASSUME NEW w \in Seq(SentMessage), NEW s \in Nat, NEW n \in Nat, HasAll(w, s, n)
  PROVE  Kept(SentMarks(w, s), s, n)
<1> SUFFICES ASSUME NEW k \in Int, s <= k, k < n PROVE \E x \in SentMarks(w, s) : x.seq = k
  BY DEF Kept
<1>1. n - s <= Len(w) /\ \A j \in 1 .. n - s : w[j].seq = s + j - 1
  BY DEF HasAll
<1>2. Len(w) \in Nat /\ DOMAIN w = 1 .. Len(w)
  OBVIOUS
<1> DEFINE i == k - s + 1
<1>3. i \in 1 .. n - s /\ i \in DOMAIN w /\ s + i - 1 = k /\ 1 .. i \subseteq 1 .. n - s
  BY <1>1, <1>2
<1> HIDE DEF i
<1>4. Mark(w[i].seq, w[i].pub) \in SentMarks(w, s) /\ w[i].seq = k
  <2>1. \A j \in 1 .. i : w[j].seq = s + j - 1
    BY <1>1, <1>3
  <2>2. i \in 1 .. i
    BY <1>3
  <2>3. w[i].seq = s + i - 1
    BY <2>1, <2>2
  <2>4. i \in InStep(w, s)
    BY <1>3, <2>1 DEF InStep
  <2> QED BY <1>3, <2>3, <2>4 DEF SentMarks
<1>5. Mark(w[i].seq, w[i].pub).seq = k
  BY <1>4 DEF Mark
<1> QED BY <1>4, <1>5

LEMMA EmptyMarks ==
  /\ \A s : SentMarks(<<>>, s) = {}
  /\ \A n : ChanMarks(<<>>, n) = {}
  /\ \A g : SlotMarks(EmptyDeadQueue, g) = {}
<1>1. \A s : SentMarks(<<>>, s) = {}
  BY EmptyInStep DEF SentMarks
<1>2. \A n : ChanMarks(<<>>, n) = {}
  BY DEF ChanMarks
<1>3. \A g : SlotMarks(EmptyDeadQueue, g) = {}
  BY DEF SlotMarks, Taken, EmptyDeadQueue
<1> QED BY <1>1, <1>2, <1>3

\* The marks of a dead queue are below the number that was left out.
LEMMA RingMarks ==
  ASSUME NEW dq \in Queues, NEW g
  PROVE  \A x \in SlotMarks(dq, g) : x.seq \in Nat /\ x.seq < g
<1>1. ASSUME NEW i \in Slots, Taken(dq, i), NumberAt(dq, i) < g
      PROVE  dq[i].seq \in Nat /\ dq[i].seq < g
  BY <1>1 DEF Taken, Queues, NumberAt, SentMessage
<1> QED BY <1>1 DEF SlotMarks, Mark

\* The next message is added to a ring, or one past a gap.
LEMMA SlotAddMarks ==
  ASSUME NEW dq \in Queues, NEW ptr \in Slots, NEW m, m # Nil, NEW g \in Nat,
         KeptRing(dq, ptr, g), NEW dq2, dq2 = AddToDeadQueue(dq, ptr, m)
  PROVE  /\ m.seq = g /\ ~ Frayed(dq, g) =>
              /\ SlotMarks(dq2, g + 1) \subseteq SlotMarks(dq, g) \cup {Mark(g, m.pub)}
              /\ Mark(g, m.pub) \in SlotMarks(dq2, g + 1)
         /\ m.seq \in Nat /\ m.seq > g => SlotMarks(dq2, g) \subseteq SlotMarks(dq, g)
<1>1. \A i \in Slots : dq2[i] = IF i = ptr THEN m ELSE dq[i]
  BY DEF AddToDeadQueue, Queues
<1>2. ASSUME m.seq = g, ~ Frayed(dq, g)
      PROVE  /\ SlotMarks(dq2, g + 1) \subseteq SlotMarks(dq, g) \cup {Mark(g, m.pub)}
             /\ Mark(g, m.pub) \in SlotMarks(dq2, g + 1)
  <2>1. ASSUME NEW i \in Slots, Taken(dq, i) PROVE NumberAt(dq, i) < g
    <3>1. Ring(dq, ptr, g, 0)
      BY <1>2, RingIsKept
    <3>2. NumberAt(dq, i) = SeqAt(ptr, g, i)
      BY <2>1, <3>1, SlotTaken
    <3> QED BY <3>2, DeadQueueSizeAssumption DEF SeqAt, Slots
  <2>2. ASSUME NEW i \in Slots, Taken(dq2, i)
        PROVE  Mark(dq2[i].seq, dq2[i].pub) \in SlotMarks(dq, g) \cup {Mark(g, m.pub)}
    <3>1. CASE i = ptr
      BY <1>1, <1>2, <3>1
    <3>2. CASE i # ptr
      <4>1. dq2[i] = dq[i] /\ Taken(dq, i) /\ NumberAt(dq, i) < g
        BY <1>1, <2>1, <2>2, <3>2 DEF Taken
      <4> QED BY <4>1 DEF SlotMarks
    <3> QED BY <3>1, <3>2
  <2>3. dq2[ptr] = m /\ Taken(dq2, ptr) /\ NumberAt(dq2, ptr) < g + 1
    <3>1. dq2[ptr] = m
      BY <1>1
    <3>2. Taken(dq2, ptr) /\ NumberAt(dq2, ptr) = g
      BY <1>2, <3>1 DEF Taken, NumberAt
    <3>3. g < g + 1
      OBVIOUS
    <3> QED BY <3>1, <3>2, <3>3
  <2> QED BY <1>2, <2>2, <2>3 DEF SlotMarks
<1>3. ASSUME m.seq \in Nat, m.seq > g
      PROVE  SlotMarks(dq2, g) \subseteq SlotMarks(dq, g)
  <2>1. ASSUME NEW i \in Slots, Taken(dq2, i), NumberAt(dq2, i) < g
        PROVE  dq2[i] = dq[i]
    <3>1. i # ptr
      BY <1>1, <1>3, <2>1 DEF NumberAt
    <3> QED BY <1>1, <3>1
  <2> QED BY <2>1 DEF SlotMarks, Taken, NumberAt
<1> QED BY <1>2, <1>3

\* A replay is made of messages of the dead queue; or there is the hello message
\* only.
LEMMA ReplayMarks ==
  ASSUME NEW dq \in Queues, NEW ptr \in Slots, NEW g \in Nat, KeptRing(dq, ptr, g),
         HelloIsZero(dq), NEW s \in Nat, s # 0, s <= g,
         NEW hello \in SentMessage, hello.seq = 0, hello.pub = 0, hello.id # NoId,
         NEW r, r = Prologue(dq, ptr, s, hello)
  PROVE  /\ r.outcome # "notFound" => SentMarks(r.sent, s) \subseteq SlotMarks(dq, g)
         /\ r.outcome = "notFound" =>
              /\ \A x : SlotMarks(r.queue, x) \subseteq {Mark(0, 0)}
              /\ SentMarks(r.sent, 0) = {Mark(0, 0)}
<1>0. PICK n \in Nat : FrayedRing(dq, ptr, n, g)
  BY DEF KeptRing
<1>1. CASE IsInDeadQueue(dq, s)
  <2>1. /\ s < g /\ s >= n - deadQueueSize
        /\ \E m \in Nat :
             /\ m >= g - s /\ m <= n - s
             /\ g < n => m > g - s
             /\ DrainDeadQueue(dq, ptr, IndexOf(dq, s)) = RingPart(dq, ptr, n, s, m)
    BY <1>0, <1>1, DrainsKept
  <2>2. PICK m \in Nat :
          /\ m <= n - s
          /\ DrainDeadQueue(dq, ptr, IndexOf(dq, s)) = RingPart(dq, ptr, n, s, m)
    BY <2>1
  <2> DEFINE tail == [k \in 1 .. m |-> dq[SlotOf(ptr, n, s + k - 1)]]
  <2>3. r.outcome # "notFound" /\ r.sent = tail
    BY <1>1, <2>2 DEF Prologue, RingPart
  <2>4. ASSUME NEW k \in 1 .. m
        PROVE  \E i \in Slots : Taken(dq, i) /\ tail[k] = dq[i]
    <3>1. PICK i \in Slots : Taken(dq, i) /\ dq[SlotOf(ptr, n, s + k - 1)] = dq[i]
      <4> DEFINE t == s + k - 1
      <4>1. t \in Nat /\ t # 0 /\ t < n /\ t >= n - deadQueueSize
        BY <2>1, <2>2, DeadQueueSizeAssumption
      <4> HIDE DEF t
      <4>2. \E i \in Slots : Taken(dq, i) /\ dq[SlotOf(ptr, n, t)] = dq[i]
        BY <1>0, <4>1, DrainedMessage
      <4> QED BY <4>2 DEF t
    <3> QED BY <3>1
  <2>5. DOMAIN tail = 1 .. m
    OBVIOUS
  <2> HIDE DEF tail
  <2>6. tail \in Seq(SentMessage) /\ HasAll(tail, s, g)
    BY <2>3, PrologueOnRing
  <2>7. \A k \in InStep(tail, s) : k \in 1 .. m /\ tail[k].seq < g
    BY <2>5, <2>6, InStepIsBelow DEF InStep
  <2>8. SentMarks(tail, s) \subseteq SlotMarks(dq, g)
    <3>1. \A k \in InStep(tail, s) :
            \E i \in Slots : Taken(dq, i) /\ NumberAt(dq, i) < g /\ tail[k] = dq[i]
      BY <2>4, <2>7 DEF NumberAt
    <3> QED BY <3>1 DEF SentMarks, SlotMarks
  <2> QED BY <2>3, <2>8
<1>2. CASE ~ IsInDeadQueue(dq, s) /\ HasMsgLoss(dq, ptr, s)
  <2>1. /\ r.outcome = "notFound" /\ r.sent = <<hello>>
        /\ r.queue = AddToDeadQueue(EmptyDeadQueue, 0, hello)
    BY <1>0, <1>2, ClearsFrayed DEF Prologue
  <2>2. r.queue = [i \in Slots |-> IF i = 0 THEN hello ELSE Nil]
    BY <2>1 DEF AddToDeadQueue, EmptyDeadQueue
  <2>3. \A x : SlotMarks(r.queue, x) \subseteq {Mark(0, 0)}
    BY <2>2 DEF SlotMarks, Taken
  <2>4. SentMarks(<<hello>>, 0) = {Mark(0, 0)}
    BY SentOneMark
  <2> QED BY <2>1, <2>3, <2>4
<1>3. CASE ~ IsInDeadQueue(dq, s) /\ ~ HasMsgLoss(dq, ptr, s)
  <2>1. r.sent = <<>> /\ r.outcome # "notFound"
    BY <1>3 DEF Prologue
  <2> QED BY <2>1, EmptyMarks
<1> QED BY <1>1, <1>2, <1>3

\* An event that is accounted for in a stream is so on a socket that has all of
\* the stream from the client's mark up to a later event.
LEMMA SocketOfStream ==
  ASSUME NEW S, NEW R, R \subseteq S, NEW p, Ordered(S, p),
         NEW s \in Int, NEW n \in Int, NEW l \in Nat, NEW v \in Nat, l <= v,
         Mark(s - 1, l) \in S,
         Kept(R, s, n), \A x \in R : x.seq < n,
         NEW lost, NEW e \in Int, v < e, NEW z \in R, e < z.pub,
         Accounted(S, lost, e)
  PROVE  Accounted(R, lost, e)
<1>1. CASE e \in lost
  BY <1>1 DEF Accounted
<1>2. ASSUME NEW x \in S, x.pub = e PROVE Accounted(R, lost, e)
  <2> DEFINE m == Mark(s - 1, l)
  <2>1. m \in S /\ m.seq = s - 1 /\ m.pub = l
    BY DEF Mark
  <2> HIDE DEF m
  <2>2. /\ x.seq \in Int /\ z.seq \in Int /\ x.pub \in Nat /\ z.pub \in Nat
        /\ m.seq < x.seq <=> m.pub < x.pub
        /\ x.seq < z.seq <=> x.pub < z.pub
    BY <2>1 DEF Ordered
  <2>3. x.seq < z.seq /\ s <= x.seq
    BY <1>2, <2>1, <2>2
  <2>4. x.seq < n
    <3>1. z.seq < n
      OBVIOUS
    <3> QED BY <2>2, <2>3, <3>1
  <2>5. PICK y \in R : y.seq = x.seq
    BY <2>2, <2>3, <2>4 DEF Kept
  <2>6. y.pub = x.pub
    BY <2>5, OrderedSame
  <2> QED BY <1>2, <2>6 DEF Accounted
<1> QED BY <1>1, <1>2 DEF Accounted

----------------------------------------------------------------------------
(* Steps in general. *)

Stepping == Given /\ NumberInv' /\ StreamInv

LEMMA SteppingTypes ==
  ASSUME Stepping
  PROVE  /\ published \in Nat /\ published' \in Nat
         /\ view \in Nat /\ view' \in Nat /\ view <= MaxEvents
         /\ lastEvent \in Nat /\ lastEvent' \in Nat
         /\ serverSequence \in Nat /\ serverSequence' \in Nat
  BY MaxEventsAssumption DEF Stepping, Given, TypeOK

LEMMA WrittenIsNat ==
  ASSUME Stepping
  PROVE  /\ \A d \in Holders : Written[d] \in Nat
         /\ \A d \in Holders' : Written'[d] \in Nat
<1>1. \A d \in Holders : KeptRing(deadQueue[queue[d]], deadQueuePointer[d], Written[d])
  BY DEF Stepping, Given, NumberInv, RingsInv
<1>2. \A d \in Holders' : KeptRing(deadQueue'[queue'[d]], deadQueuePointer'[d], Written'[d])
  BY DEF Stepping, NumberInv, RingsInv
<1> QED BY <1>1, <1>2, KeptRingTypes

LEMMA StartIsNat ==
  ASSUME Stepping
  PROVE  Start \in Nat /\ Start' \in Nat
  BY SteppingTypes DEF Start

LEMMA StreamParts ==
  ASSUME NEW d \in Conns
  PROVE  /\ Torn[d] = Frayed(deadQueue[queue[d]], Written[d])
         /\ NextMarks[d] = ChanMarks(send[queue[d]], Written[d])
         /\ QueueMarks[d] = SlotMarks(deadQueue[queue[d]], Written[d])
                              \cup (IF Torn[d] THEN {} ELSE NextMarks[d])
         /\ StreamMarks[d] = QueueMarks[d]
                     \cup (IF connectionID[d] = WireId THEN SocketMarks ELSE {})
                     \cup (IF connectionID[d] = connectionId THEN {ClientMark} ELSE {})
  BY DEF Torn, NextMarks, QueueMarks, StreamMarks

LEMMA StreamPartsNext ==
  ASSUME NEW d \in Conns
  PROVE  /\ Torn'[d] = Frayed(deadQueue'[queue'[d]], Written'[d])
         /\ NextMarks'[d] = ChanMarks(send'[queue'[d]], Written'[d])
         /\ QueueMarks'[d] = SlotMarks(deadQueue'[queue'[d]], Written'[d])
                              \cup (IF Torn'[d] THEN {} ELSE NextMarks'[d])
         /\ StreamMarks'[d] = QueueMarks'[d]
                     \cup (IF connectionID'[d] = WireId' THEN SocketMarks' ELSE {})
                     \cup (IF connectionID'[d] = connectionId' THEN {ClientMark'} ELSE {})
  BY DEF Torn, NextMarks, QueueMarks, StreamMarks

\* What a mark of a stream can be: below the next number to be written unless it
\* waits in the channel.
LEMMA StreamMarksBelow ==
  ASSUME Stepping, NEW d \in Holders
  PROVE  /\ \A x \in SlotMarks(deadQueue[queue[d]], Written[d]) : x.seq < Written[d]
         /\ connectionID[d] = WireId => \A x \in SocketMarks : x.seq < Written[d]
         /\ connectionID[d] = connectionId => ClientMark.seq < Written[d]
<1>1. deadQueue[queue[d]] \in Queues /\ Written[d] \in Nat /\ serverSequence \in Nat
  <2>1. d \in Conns /\ queue[d] \in Conns
    BY HoldersAreConns DEF Stepping, Given, TypeOK
  <2> QED BY <2>1, WrittenIsNat DEF Stepping, Given, TypeOK, Queues
<1>2. ASSUME connectionID[d] = WireId, conn # NoConn
      PROVE  \A x \in SentMarks(wire[conn], Start) : x.seq < Written[d]
  <2>1. \A k \in InStep(wire[conn], Start) : wire[conn][k].seq < Written[d]
    BY <1>2 DEF Stepping, Given, NumberInv, WireInv
  <2> QED BY <2>1 DEF SentMarks, Mark
<1>3. connectionID[d] = connectionId => ClientMark.seq < Written[d]
  <2>1. connectionID[d] = connectionId => serverSequence <= Written[d]
    BY DEF Stepping, Given, NumberInv, AheadInv
  <2> QED BY <1>1, <2>1 DEF ClientMark, Mark
<1>4. connectionID[d] = WireId => \A x \in SocketMarks : x.seq < Written[d]
  BY <1>2 DEF SocketMarks
<1>5. \A x \in SlotMarks(deadQueue[queue[d]], Written[d]) : x.seq < Written[d]
  BY <1>1, RingMarks
<1> QED BY <1>3, <1>4, <1>5

LEMMA SameQueue ==
  ASSUME NEW d \in Conns, NEW f \in Conns,
         deadQueue'[queue'[d]] = deadQueue[queue[f]], send'[queue'[d]] = send[queue[f]],
         Written'[d] = Written[f]
  PROVE  /\ QueueMarks'[d] = QueueMarks[f] /\ NextMarks'[d] = NextMarks[f]
         /\ Torn'[d] = Torn[f]
<1>1. Torn'[d] = Torn[f] /\ NextMarks'[d] = NextMarks[f]
  BY StreamParts, StreamPartsNext
<1>2. QueueMarks'[d] = SlotMarks(deadQueue[queue[f]], Written[f])
                         \cup (IF Torn'[d] THEN {} ELSE NextMarks[f])
  BY <1>1, StreamPartsNext
<1>3. QueueMarks[f] = SlotMarks(deadQueue[queue[f]], Written[f])
                         \cup (IF Torn[f] THEN {} ELSE NextMarks[f])
  BY StreamParts
<1> QED BY <1>1, <1>2, <1>3

LEMMA SameStream ==
  ASSUME NEW d \in Conns, NEW f \in Conns,
         deadQueue'[queue'[d]] = deadQueue[queue[f]], send'[queue'[d]] = send[queue[f]],
         Written'[d] = Written[f], connectionID'[d] = connectionID[f],
         UNCHANGED <<WireId, SocketMarks, ClientMark, connectionId>>
  PROVE  /\ StreamMarks'[d] = StreamMarks[f] /\ NextMarks'[d] = NextMarks[f]
         /\ Torn'[d] = Torn[f]
<1>1. /\ QueueMarks'[d] = QueueMarks[f] /\ NextMarks'[d] = NextMarks[f]
      /\ Torn'[d] = Torn[f]
  BY SameQueue
<1>2. StreamMarks'[d] = QueueMarks'[d]
                     \cup (IF connectionID'[d] = WireId' THEN SocketMarks' ELSE {})
                     \cup (IF connectionID'[d] = connectionId' THEN {ClientMark'} ELSE {})
  BY StreamPartsNext
<1>3. StreamMarks[f] = QueueMarks[f]
                     \cup (IF connectionID[f] = WireId THEN SocketMarks ELSE {})
                     \cup (IF connectionID[f] = connectionId THEN {ClientMark} ELSE {})
  BY StreamParts
<1>4. /\ WireId' = WireId /\ SocketMarks' = SocketMarks /\ ClientMark' = ClientMark
      /\ connectionId' = connectionId
  OBVIOUS
<1> QED BY <1>1, <1>2, <1>3, <1>4

\* A step that only moves marks keeps them in order.
LEMMA MoveKeepsOrder ==
  ASSUME Stepping, published' = published,
         \A d \in Holders' : \/ StreamMarks'[d] \subseteq {Mark(0, 0)}
                             \/ \E f \in Holders : StreamMarks'[d] \subseteq StreamMarks[f],
         \A d \in Holders' : \/ Ordered(NextMarks'[d], published')
                             \/ \E f \in Holders : NextMarks'[d] \subseteq NextMarks[f],
         \/ ReadMarks' \subseteq {Mark(0, 0)}
         \/ ReadMarks' \subseteq ReadMarks
         \/ \E f \in Holders : ReadMarks' \subseteq StreamMarks[f]
  PROVE  OrderInv'
<1>1. /\ published \in Nat
      /\ \A f \in Holders : Ordered(StreamMarks[f], published) /\ Ordered(NextMarks[f], published)
      /\ Ordered(ReadMarks, published)
  BY SteppingTypes DEF Stepping, StreamInv, OrderInv
<1>2. ASSUME NEW d \in Holders' PROVE Ordered(StreamMarks'[d], published')
  <2>1. CASE StreamMarks'[d] \subseteq {Mark(0, 0)}
    BY <1>1, <2>1, OrderedHello
  <2>2. ASSUME NEW f \in Holders, StreamMarks'[d] \subseteq StreamMarks[f]
        PROVE  Ordered(StreamMarks'[d], published')
    BY <1>1, <2>2, OrderedSubset
  <2> QED BY <2>1, <2>2
<1>3. Ordered(ReadMarks', published')
  <2>1. CASE ReadMarks' \subseteq {Mark(0, 0)}
    BY <1>1, <2>1, OrderedHello
  <2>2. CASE ReadMarks' \subseteq ReadMarks
    BY <1>1, <2>2, OrderedSubset
  <2>3. ASSUME NEW f \in Holders, ReadMarks' \subseteq StreamMarks[f]
        PROVE  Ordered(ReadMarks', published')
    BY <1>1, <2>3, OrderedSubset
  <2> QED BY <2>1, <2>2, <2>3
<1>4. ASSUME NEW d \in Holders' PROVE Ordered(NextMarks'[d], published')
  <2>1. ASSUME NEW f \in Holders, NextMarks'[d] \subseteq NextMarks[f]
        PROVE  Ordered(NextMarks'[d], published')
    BY <1>1, <2>1, OrderedSubset
  <2> QED BY <2>1
<1> QED BY <1>2, <1>3, <1>4 DEF OrderInv

\* A step that only moves marks of the client's connection ID, up to ones that
\* the client has or that were overwritten, leaves no event out.
LEMMA MoveKeepsQueues ==
  ASSUME Stepping, published' = published, ViewInv',
         view <= view', serverSequence <= serverSequence',
         \A d \in Holders' : connectionID'[d] = connectionId' =>
           \E f \in Holders :
             /\ connectionID[f] = connectionId
             /\ StreamMarks'[d] \subseteq StreamMarks[f]
             /\ Kept(StreamMarks[f], serverSequence, serverSequence')
             /\ Written[f] <= Written'[d]
             /\ \/ \A x \in StreamMarks[f] : x.seq >= Written'[d] => x \in StreamMarks'[d]
                \/ Torn'[d] /\ \A x \in StreamMarks'[d] : x.seq < Written'[d]
             /\ Open(d)' => Open(f)
             /\ missed[queue[f]] \subseteq missed'[queue'[d]]
  PROVE  QueueComplete'
<1> SUFFICES ASSUME NEW d \in Holders', connectionID'[d] = connectionId',
                    Kept(StreamMarks'[d], serverSequence', Written'[d]),
                    NEW e \in view' + 1 .. published', Reached(d, e)'
             PROVE  Accounted(StreamMarks'[d], missed'[queue'[d]], e)
  BY DEF QueueComplete
<1>1. PICK f \in Holders :
        /\ connectionID[f] = connectionId
        /\ StreamMarks'[d] \subseteq StreamMarks[f]
        /\ Kept(StreamMarks[f], serverSequence, serverSequence')
        /\ Written[f] <= Written'[d]
        /\ \/ \A x \in StreamMarks[f] : x.seq >= Written'[d] => x \in StreamMarks'[d]
           \/ Torn'[d] /\ \A x \in StreamMarks'[d] : x.seq < Written'[d]
        /\ Open(d)' => Open(f)
        /\ missed[queue[f]] \subseteq missed'[queue'[d]]
  OBVIOUS
<1>2. Written[f] \in Nat /\ Written'[d] \in Nat
  BY WrittenIsNat
<1>3. Kept(StreamMarks[f], serverSequence, Written[f])
  <2> SUFFICES ASSUME NEW k \in Int, serverSequence <= k, k < Written[f]
               PROVE  \E x \in StreamMarks[f] : x.seq = k
    BY DEF Kept
  <2>1. CASE k < serverSequence'
    BY <1>1, <2>1 DEF Kept
  <2>2. CASE k >= serverSequence'
    <3>1. k < Written'[d]
      BY <1>1, <1>2
    <3>2. \E x \in StreamMarks'[d] : x.seq = k
      BY <2>2, <3>1 DEF Kept
    <3> QED BY <1>1, <3>2
  <2> QED BY <2>1, <2>2, SteppingTypes
<1>4. Reached(f, e)
  BY <1>1 DEF Reached
<1>5. e \in view + 1 .. published /\ e > view' /\ e \in Int
  BY SteppingTypes
<1>6. Accounted(StreamMarks[f], missed[queue[f]], e)
  BY <1>1, <1>3, <1>4, <1>5 DEF Stepping, StreamInv, QueueComplete
<1>7. CASE e \in missed[queue[f]]
  BY <1>1, <1>7 DEF Accounted
<1>8. ASSUME NEW x \in StreamMarks[f], x.pub = e
      PROVE  Accounted(StreamMarks'[d], missed'[queue'[d]], e)
  <2>1. CASE x.seq >= Written'[d]
    <3>1. CASE x \in StreamMarks'[d]
      BY <1>8, <3>1 DEF Accounted
    <3>2. CASE x \notin StreamMarks'[d]
      <4>1. Torn'[d] /\ \A y \in StreamMarks'[d] : y.seq < Written'[d]
        BY <1>1, <2>1, <3>2
      <4>2. PICK z \in StreamMarks'[d] : e < z.pub
        BY <4>1 DEF Reached, Open
      <4>3. z \in StreamMarks[f] /\ z.seq < Written'[d]
        BY <1>1, <4>1, <4>2
      <4>4. /\ x.seq \in Int /\ z.seq \in Int
            /\ x.seq < z.seq <=> x.pub < z.pub
        BY <4>3 DEF Stepping, StreamInv, OrderInv, Ordered
      <4> QED BY <1>2, <1>8, <2>1, <4>2, <4>3, <4>4
    <3> QED BY <3>1, <3>2
  <2>2. CASE x.seq < Written'[d]
    <3>1. ClientMark' \in StreamMarks[f]
      BY <1>1, HoldersAreConns, StreamPartsNext
    <3>2. ClientMark'.seq = serverSequence' - 1 /\ ClientMark'.pub = lastEvent'
      BY DEF ClientMark, Mark
    <3>3. lastEvent' <= view'
      BY DEF ViewInv
    <3>4. Ordered(StreamMarks[f], published)
      BY DEF Stepping, StreamInv, OrderInv
    <3> DEFINE m == ClientMark'
    <3>5. /\ x.seq \in Int /\ x.pub \in Nat
          /\ m.seq < x.seq <=> m.pub < x.pub
      BY <3>1, <3>4 DEF Ordered
    <3>6. serverSequence' <= x.seq
      <4> HIDE DEF m
      <4>1. m.seq = serverSequence' - 1 /\ m.pub = lastEvent'
        BY <3>2 DEF m
      <4> QED BY <1>5, <1>8, <3>3, <3>5, <4>1, SteppingTypes
    <3>7. PICK y \in StreamMarks'[d] : y.seq = x.seq
      BY <2>2, <3>5, <3>6 DEF Kept
    <3>8. y.pub = x.pub
      BY <1>1, <3>4, <3>7, OrderedSame
    <3> QED BY <1>8, <3>8 DEF Accounted
  <2>3. x.seq \in Int
    BY DEF Stepping, StreamInv, OrderInv, Ordered
  <2> QED BY <1>2, <2>1, <2>2, <2>3
<1> QED BY <1>6, <1>7, <1>8 DEF Accounted

\* A step without an effect on the client and its socket.
LEMMA SameSocket ==
  ASSUME Stepping, UNCHANGED <<conn, connectionId, serverSequence, view, lastEvent>>,
         published <= published',
         conn # NoConn => /\ wire'[conn] = wire[conn]
                          /\ wire[conn] # <<>> => missed[queue[conn]] \subseteq missed'[queue'[conn]]
  PROVE  /\ SocketMarks' = SocketMarks /\ ClientMark' = ClientMark
         /\ WireId' = WireId /\ ReadMarks' = ReadMarks
         /\ ViewInv' /\ SocketComplete'
<1>0. WireId' = WireId /\ ClientMark' = ClientMark /\ Start' = Start
  BY DEF WireId, ClientMark, Start
<1>1. /\ SocketMarks' = SocketMarks /\ ClientMark' = ClientMark /\ WireId' = WireId
  BY <1>0 DEF SocketMarks
<1>2. ReadMarks' = ReadMarks
  BY <1>1 DEF ReadMarks
<1>3. ViewInv'
  <2>1. Ordered({ClientMark}, published) /\ lastEvent <= view
    BY DEF Stepping, StreamInv, ViewInv
  <2>2. Ordered({ClientMark}, published')
    BY <2>1, SteppingTypes, OrderedSubset
  <2> QED BY <1>1, <2>1, <2>2 DEF ViewInv
<1>4. SocketComplete'
  <2> SUFFICES ASSUME conn # NoConn, WireId = connectionId,
                      NEW x \in SocketMarks, NEW e \in view + 1 .. x.pub - 1
               PROVE  Accounted(SocketMarks, missed'[queue'[conn]], e)
    BY <1>1 DEF SocketComplete
  <2>1. Accounted(SocketMarks, missed[queue[conn]], e)
    BY DEF Stepping, StreamInv, SocketComplete
  <2>2. wire[conn] # <<>>
    BY EmptyMarks DEF SocketMarks
  <2> QED BY <2>1, <2>2 DEF Accounted
<1> QED BY <1>1, <1>2, <1>3, <1>4

\* The same for a step without an effect on the client.
LEMMA MoveKeepsAll ==
  ASSUME Stepping, ViewInv', UNCHANGED <<published, view, serverSequence>>,
         \A d \in Holders' : connectionID'[d] = connectionId' =>
           \E f \in Holders :
             /\ connectionID[f] = connectionId
             /\ StreamMarks'[d] \subseteq StreamMarks[f]
             /\ Written[f] <= Written'[d]
             /\ \/ \A x \in StreamMarks[f] : x.seq >= Written'[d] => x \in StreamMarks'[d]
                \/ Torn'[d] /\ \A x \in StreamMarks'[d] : x.seq < Written'[d]
             /\ Open(d)' => Open(f)
             /\ missed[queue[f]] \subseteq missed'[queue'[d]]
  PROVE  QueueComplete'
<1>1. \A f \in Holders : Kept(StreamMarks[f], serverSequence, serverSequence')
  BY SteppingTypes DEF Kept
<1>2. serverSequence <= serverSequence' /\ view <= view'
  BY SteppingTypes
<1> QED BY <1>1, <1>2, MoveKeepsQueues

\* What the client's queue accounts for, its socket does, if it has all that was
\* written.
LEMMA SocketFromQueue ==
  ASSUME Stepping, OrderInv', QueueComplete', ViewInv',
         NEW c \in Holders', c = conn', connectionID'[c] = WireId',
         WireId' = connectionId' => Kept(SocketMarks', serverSequence', Written'[c])
  PROVE  SocketComplete'
<1> SUFFICES ASSUME conn' # NoConn, WireId' = connectionId',
                    NEW x \in SocketMarks', NEW e \in view' + 1 .. x.pub - 1
             PROVE  Accounted(SocketMarks', missed'[queue'[c]], e)
  BY DEF SocketComplete
<1> DEFINE S == StreamMarks'[c]
           R == SocketMarks'
           s == serverSequence'
           n == Written'[c]
           l == lastEvent'
           v == view'
           p == published'
           lost == missed'[queue'[c]]
<1>1. Ordered(S, p)
  BY DEF OrderInv
<1>2. R \subseteq S /\ ClientMark' \in S
  BY HoldersAreConns, StreamPartsNext
<1>3. Kept(R, s, n)
  OBVIOUS
<1>4. \A y \in R : y.seq < n
  <2>1. R = SentMarks(wire'[c], Start')
    BY DEF SocketMarks
  <2>2. \A k \in InStep(wire'[c], Start') : wire'[c][k].seq < n
    BY DEF Stepping, NumberInv, WireInv
  <2> QED BY <2>1, <2>2 DEF SentMarks, Mark
<1>5. s \in Int /\ n \in Int /\ l \in Nat /\ v \in Nat /\ l <= v /\ p \in Nat
  BY SteppingTypes, WrittenIsNat DEF ViewInv
<1>6. x.pub \in Nat /\ x.pub <= p /\ x \in S
  BY <1>1, <1>2 DEF Ordered
<1>7. e \in v + 1 .. p /\ e < x.pub /\ e \in Int /\ v < e
  <2> DEFINE b == x.pub
  <2>1. e \in v + 1 .. b - 1 /\ v \in Nat /\ p \in Nat /\ b \in Nat /\ b <= p
    BY <1>5, <1>6
  <2> HIDE DEF b, v, p
  <2>2. e \in v + 1 .. p /\ e < b /\ e \in Int /\ v < e
    BY <2>1
  <2> QED BY <2>2 DEF b
<1>8. Accounted(S, lost, e)
  <2>1. Kept(S, s, n)
    BY <1>2, <1>3 DEF Kept
  <2>2. Reached(c, e)'
    BY <1>6, <1>7 DEF Reached
  <2> QED BY <1>7, <2>1, <2>2 DEF QueueComplete
<1>9. Mark(s - 1, l) \in S
  BY <1>2 DEF ClientMark
<1> HIDE DEF S, R, s, n, l, v, p, lost
<1>10. x \in R
  BY DEF R
<1>11. Accounted(R, lost, e)
  BY <1>1, <1>2, <1>3, <1>4, <1>5, <1>6, <1>7, <1>8, <1>9, <1>10, SocketOfStream
<1> QED BY <1>11 DEF R, lost

\* WebConns give up claims, sockets break.
LEMMA WeakerKeepsStream ==
  ASSUME Stepping,
         \A d \in Holders' : d \in Holders,
         index' \subseteq index,
         \A d \in Conns : InHandover(d)' => InHandover(d),
         UNCHANGED <<connectionID, queue, deadQueuePointer, send, deadQueue, wire, conn,
                     connectionId, serverSequence, view, lastEvent, published, missed,
                     written>>
  PROVE  StreamInv'
<1>1. Written' = Written
  BY DEF Written
<1>2. /\ SocketMarks' = SocketMarks /\ ClientMark' = ClientMark
      /\ WireId' = WireId /\ ReadMarks' = ReadMarks
      /\ ViewInv' /\ SocketComplete'
  BY SameSocket, SteppingTypes
<1>3. StreamMarks' = StreamMarks /\ NextMarks' = NextMarks /\ Torn' = Torn
  <2>1. NextMarks' = NextMarks /\ Torn' = Torn
    BY <1>1 DEF NextMarks, Torn
  <2>2. QueueMarks' = QueueMarks
    BY <1>1, <2>1 DEF QueueMarks
  <2> QED BY <1>2, <2>1, <2>2 DEF StreamMarks
<1>4. OrderInv'
  BY <1>2, <1>3, MoveKeepsOrder
<1>5. QueueComplete'
  <2>1. ASSUME NEW d \in Holders'
        PROVE  /\ d \in Holders
               /\ Written[d] <= Written'[d]
               /\ Open(d)' => Open(d)
    BY <1>1, <1>3, WrittenIsNat, HoldersAreConns DEF Open
  <2> QED BY <1>2, <1>3, <2>1, MoveKeepsAll
<1> QED BY <1>2, <1>4, <1>5 DEF StreamInv

----------------------------------------------------------------------------
(* The handshake. *)

LEMMA FreshConnStream ==
  ASSUME Stepping, NEW c \in Conns, FreshConn(c)
  PROVE  StreamInv'
<1>1. /\ pc[c] = "handshake" /\ Waiting(c)
      /\ connectionID' = [connectionID EXCEPT ![c] = lastId + 1]
      /\ pc' = [pc EXCEPT ![c] = "checked"]
      /\ UNCHANGED <<index, reused, queue, deadQueuePointer, send, deadQueue, wire, conn,
                     connectionId, serverSequence, view, lastEvent, published, missed,
                     written>>
  BY DEF FreshConn, Waiting, networkVars, clientVars, historyVars
<1>2. /\ queue[c] = c /\ deadQueue[c] = EmptyDeadQueue /\ send[c] = <<>> /\ reused[c] = FALSE
  BY <1>1, WaitingHoldsNothing DEF Stepping, Given, NumberInv, FreshInv
<1>3. Written' = Written
  BY <1>1 DEF Written
<1>4. /\ SocketMarks' = SocketMarks /\ ClientMark' = ClientMark
      /\ WireId' = WireId /\ ReadMarks' = ReadMarks
      /\ ViewInv' /\ SocketComplete'
  BY <1>1, SameSocket, SteppingTypes
<1>5. \A e \in Conns : /\ pc'[e] = IF e = c THEN "checked" ELSE pc[e]
                       /\ connectionID'[e] = IF e = c THEN lastId + 1 ELSE connectionID[e]
  BY <1>1 DEF Stepping, Given, TypeOK
<1>6. \A e \in Holders' : e = c \/ e \in Holders
  BY <1>1, <1>5 DEF Holders, Holds, Running
<1>7. /\ lastId + 1 # WireId /\ lastId + 1 # connectionId
  <2>1. lastId \in Nat /\ WireId \in Nat /\ connectionId \in Nat
        /\ WireId <= lastId /\ connectionId <= lastId
    BY WireIdIsNat DEF Stepping, Given, NumberInv, IdInv, TypeOK
  <2> QED BY <2>1
<1>8. \A e \in Conns : e # c => /\ StreamMarks'[e] = StreamMarks[e]
                                /\ NextMarks'[e] = NextMarks[e] /\ Torn'[e] = Torn[e]
  <2> SUFFICES ASSUME NEW e \in Conns, e # c
               PROVE  /\ StreamMarks'[e] = StreamMarks[e]
                      /\ NextMarks'[e] = NextMarks[e] /\ Torn'[e] = Torn[e]
    OBVIOUS
  <2>1. connectionID'[e] = connectionID[e]
    BY <1>5
  <2> QED BY <1>1, <1>3, <1>4, <2>1, SameStream
<1>9. StreamMarks'[c] = {} /\ NextMarks'[c] = {}
  <2>1. NextMarks'[c] = {} /\ SlotMarks(deadQueue'[queue'[c]], Written'[c]) = {}
    BY <1>1, <1>2, EmptyMarks, StreamPartsNext
  <2>2. QueueMarks'[c] = {}
    BY <2>1, StreamPartsNext
  <2> QED BY <1>1, <1>4, <1>5, <1>7, <2>1, <2>2, StreamPartsNext
<1>10. OrderInv'
  <2>1. Ordered({}, published')
    BY OrderedHello, SteppingTypes
  <2> QED BY <1>1, <1>4, <1>6, <1>8, <1>9, <2>1, HoldersAreConns, MoveKeepsOrder
<1>11. QueueComplete'
  <2>1. ASSUME NEW d \in Holders', connectionID'[d] = connectionId'
        PROVE  /\ d \in Holders /\ connectionID[d] = connectionId
               /\ StreamMarks'[d] = StreamMarks[d]
               /\ Written[d] <= Written'[d]
               /\ Open(d)' => Open(d)
               /\ missed'[queue'[d]] = missed[queue[d]]
    <3>1. d # c /\ d \in Holders /\ d \in Conns
      BY <1>1, <1>5, <1>6, <1>7, <2>1, HoldersAreConns
    <3>2. Open(d)' => Open(d)
      BY <1>1, <1>5, <1>8, <3>1 DEF Open, InHandover
    <3> QED BY <1>1, <1>3, <1>5, <1>8, <2>1, <3>1, <3>2, WrittenIsNat
  <2> QED BY <1>1, <1>4, <2>1, MoveKeepsAll
<1> QED BY <1>4, <1>10, <1>11 DEF StreamInv

LEMMA ResumeConnStream ==
  ASSUME Stepping, NEW c \in Conns, ResumeConn(c)
  PROVE  StreamInv'
<1>1. PICK d \in Conns :
        /\ d \in index /\ connectionID[d] = request[c].id
        /\ index' = index \ {d}
        /\ queue' = [queue EXCEPT ![c] = queue[d]]
        /\ deadQueuePointer' = [deadQueuePointer EXCEPT ![c] = deadQueuePointer[d]]
  BY DEF ResumeConn, Resumable, Stepping, Given, TypeOK
<1>2. /\ pc[c] = "handshake" /\ Waiting(c)
      /\ connectionID' = [connectionID EXCEPT ![c] = request[c].id]
      /\ reused' = [reused EXCEPT ![c] = TRUE]
      /\ pc' = [pc EXCEPT ![c] = "checked"]
      /\ UNCHANGED <<send, deadQueue, wire, conn, connectionId, serverSequence,
                     view, lastEvent, published, missed, written>>
  BY DEF ResumeConn, Waiting, networkVars, clientVars, historyVars
<1>3. /\ c \notin Holders /\ c \notin index /\ d \in Holders /\ c # d
  BY <1>1, <1>2, WaitingHoldsNothing DEF Holders, Holds, Stepping
<1>4. \A e \in Conns : /\ pc'[e] = IF e = c THEN "checked" ELSE pc[e]
                       /\ queue'[e] = IF e = c THEN queue[d] ELSE queue[e]
                       /\ deadQueuePointer'[e] = IF e = c THEN deadQueuePointer[d] ELSE deadQueuePointer[e]
                       /\ connectionID'[e] = IF e = c THEN request[c].id ELSE connectionID[e]
                       /\ reused'[e] = IF e = c THEN TRUE ELSE reused[e]
  BY <1>1, <1>2 DEF Stepping, Given, TypeOK
<1>5. \A e \in Holders' : e = c \/ (e \in Holders /\ e # c)
  BY <1>1, <1>3, <1>4 DEF Holders, Holds, Running
<1>6. \A e \in Conns : Written'[e] = IF e = c THEN Written[d] ELSE Written[e]
  BY <1>2, <1>4 DEF Written
<1>7. wire[c] = <<>>
  BY <1>2 DEF Stepping, Given, NumberInv, FreshInv
<1>8. /\ SocketMarks' = SocketMarks /\ ClientMark' = ClientMark
      /\ WireId' = WireId /\ ReadMarks' = ReadMarks
      /\ ViewInv' /\ SocketComplete'
  <2>1. conn # NoConn => /\ wire'[conn] = wire[conn]
                         /\ wire[conn] # <<>> => missed[queue[conn]] \subseteq missed'[queue'[conn]]
    BY <1>2, <1>4, <1>7 DEF Stepping, Given, TypeOK
  <2> QED BY <1>2, <2>1, SameSocket, SteppingTypes
<1>9. /\ StreamMarks'[c] = StreamMarks[d] /\ NextMarks'[c] = NextMarks[d]
      /\ Torn'[c] = Torn[d]
  <2>1. /\ queue'[c] = queue[d] /\ Written'[c] = Written[d]
        /\ connectionID'[c] = connectionID[d]
    BY <1>1, <1>4, <1>6
  <2> QED BY <1>2, <1>8, <2>1, SameStream
<1>12. ASSUME NEW e \in Conns, e # c
       PROVE  /\ StreamMarks'[e] = StreamMarks[e] /\ NextMarks'[e] = NextMarks[e]
              /\ Torn'[e] = Torn[e]
  <2>1. /\ queue'[e] = queue[e] /\ Written'[e] = Written[e]
        /\ connectionID'[e] = connectionID[e]
    BY <1>4, <1>6, <1>12
  <2> QED BY <1>2, <1>8, <2>1, SameStream
<1>10. OrderInv'
  <2>1. ASSUME NEW e \in Holders'
        PROVE  \E f \in Holders : /\ StreamMarks'[e] \subseteq StreamMarks[f]
                                  /\ NextMarks'[e] \subseteq NextMarks[f]
    BY <1>3, <1>5, <1>9, <1>12, HoldersAreConns
  <2> QED BY <1>2, <1>8, <2>1, MoveKeepsOrder
<1>11. QueueComplete'
  <2>1. ASSUME NEW e \in Holders', connectionID'[e] = connectionId'
        PROVE  \E f \in Holders :
             /\ connectionID[f] = connectionId
             /\ StreamMarks'[e] \subseteq StreamMarks[f]
             /\ Written[f] <= Written'[e]
             /\ \A x \in StreamMarks[f] : x.seq >= Written'[e] => x \in StreamMarks'[e]
             /\ Open(e)' => Open(f)
             /\ missed[queue[f]] \subseteq missed'[queue'[e]]
    <3>1. CASE e = c
      <4>1. /\ connectionID[d] = connectionId /\ StreamMarks'[e] = StreamMarks[d]
            /\ Written[d] <= Written'[e] /\ (Open(e)' => Open(d))
            /\ missed'[queue'[e]] = missed[queue[d]]
        <5>1. /\ connectionID[d] = connectionId /\ d \in index
              /\ queue'[e] = queue[d] /\ missed' = missed /\ Written'[e] = Written[d]
          BY <1>1, <1>2, <1>4, <1>6, <2>1, <3>1
        <5>2. Written[d] \in Nat
          BY <1>3, WrittenIsNat
        <5>3. Open(e)' => Open(d)
          BY <1>9, <3>1, <5>1 DEF Open
        <5> QED BY <1>9, <3>1, <5>1, <5>2, <5>3
      <4> QED BY <1>3, <4>1
    <3>2. CASE e # c
      <4>1. e \in Holders /\ e \in Conns
        BY <1>5, <3>2, HoldersAreConns
      <4>2. /\ connectionID[e] = connectionId /\ StreamMarks'[e] = StreamMarks[e]
            /\ Written[e] <= Written'[e]
            /\ missed'[queue'[e]] = missed[queue[e]]
        BY <1>1, <1>2, <1>4, <1>6, <1>12, <2>1, <3>2, <4>1, WrittenIsNat
      <4>3. Open(e)' => Open(e)
        BY <1>1, <1>4, <1>12, <3>2, <4>1 DEF Open, InHandover
      <4> QED BY <4>1, <4>2, <4>3
    <3> QED BY <3>1, <3>2
  <2> QED BY <1>2, <1>8, <2>1, MoveKeepsAll
<1> QED BY <1>8, <1>10, <1>11 DEF StreamInv

LEMMA RegisterStream ==
  ASSUME Stepping, NEW c \in Conns, Register(c)
  PROVE  StreamInv'
<1>1. /\ pc[c] = "checked"
      /\ index' = index \cup {c}
      /\ IF reused[c] THEN send' = send
                      ELSE send' = [send EXCEPT ![queue[c]] = Append(@, HelloMsg(connectionID[c]))]
      /\ pc' = [pc EXCEPT ![c] = "registered"]
      /\ UNCHANGED <<connectionID, reused, queue, deadQueuePointer, deadQueue, wire, conn,
                     connectionId, serverSequence, view, lastEvent, published, missed,
                     written>>
  BY DEF Register, networkVars, clientVars, historyVars
<1>2. c \in Holders /\ queue[c] \in Conns
  BY <1>1 DEF Holders, Holds, Stepping, Given, TypeOK
<1>3. Written' = Written
  BY <1>1 DEF Written
<1>4. \A e \in Conns : pc'[e] = IF e = c THEN "registered" ELSE pc[e]
  BY <1>1 DEF Stepping, Given, TypeOK
<1>5. \A e \in Holders' : e \in Holders
  BY <1>1, <1>2, <1>4 DEF Holders, Holds, Running
<1>6. /\ SocketMarks' = SocketMarks /\ ClientMark' = ClientMark
      /\ WireId' = WireId /\ ReadMarks' = ReadMarks
      /\ ViewInv' /\ SocketComplete'
  BY <1>1, SameSocket, SteppingTypes
<1>7. \A e \in Holders : e # c \/ reused[c] => send'[queue[e]] = send[queue[e]]
  <2>1. \A e \in Holders : e # c => queue[e] # queue[c] /\ queue[e] \in Conns
    BY <1>2, OneHolder, HoldersAreConns DEF Stepping, Given, TypeOK
  <2>2. send \in [Conns -> Seq(Message)]
    BY DEF Stepping, Given, TypeOK
  <2> QED BY <1>1, <2>1, <2>2
<1>8. \A e \in Holders : e # c \/ reused[c] =>
        /\ StreamMarks'[e] = StreamMarks[e] /\ NextMarks'[e] = NextMarks[e]
        /\ Torn'[e] = Torn[e]
  <2> SUFFICES ASSUME NEW e \in Holders, e # c \/ reused[c]
               PROVE  /\ StreamMarks'[e] = StreamMarks[e] /\ NextMarks'[e] = NextMarks[e]
                      /\ Torn'[e] = Torn[e]
    OBVIOUS
  <2>1. e \in Conns /\ send'[queue[e]] = send[queue[e]]
    BY <1>7, HoldersAreConns
  <2> QED BY <1>1, <1>3, <1>6, <2>1, SameStream
<1>9. ASSUME ~ reused[c]
      PROVE  /\ StreamMarks'[c] \subseteq {Mark(0, 0)} /\ NextMarks'[c] = {Mark(0, 0)}
             /\ connectionID[c] # connectionId
  <2> DEFINE m == HelloMsg(connectionID[c])
  <2>1. send[queue[c]] = <<>> /\ Written[c] = 0
    BY <1>1, <1>9 DEF Stepping, Given, NumberInv, FreshInv
  <2>2. send'[queue[c]] = <<m>>
    <3>1. send \in [Conns -> Seq(Message)] /\ Append(<<>>, m) = <<m>>
      BY DEF Stepping, Given, TypeOK
    <3>2. send' = [send EXCEPT ![queue[c]] = Append(send[queue[c]], m)]
      BY <1>1, <1>9
    <3> QED BY <1>2, <2>1, <3>1, <3>2
  <2>3. ChanMarks(<<m>>, 0) = {Mark(0, 0)}
    <3>1. DOMAIN <<m>> = {1} /\ <<m>>[1] = m /\ m.pub = 0 /\ 0 + 1 - 1 = 0
      BY DEF HelloMsg
    <3> HIDE DEF m
    <3> QED BY <3>1 DEF ChanMarks
  <2>4. \A x \in SlotMarks(deadQueue[queue[c]], 0) : FALSE
    <3>1. deadQueue[queue[c]] \in Queues
      BY <1>2 DEF Stepping, Given, TypeOK, Queues
    <3>2. \A x \in SlotMarks(deadQueue[queue[c]], 0) : x.seq \in Nat /\ x.seq < 0
      BY <3>1, RingMarks
    <3> QED BY <3>2
  <2>5. connectionID[c] = WireId => \A x \in SocketMarks : FALSE
    <3>1. ASSUME conn # NoConn, connectionID[c] = WireId,
                 NEW k \in InStep(wire[conn], Start)
          PROVE  FALSE
      <4>1. wire[conn][k].seq < 0
        BY <1>2, <2>1, <3>1 DEF Stepping, Given, NumberInv, WireInv
      <4>2. wire[conn] \in Seq(SentMessage) /\ k \in DOMAIN wire[conn]
        BY <3>1 DEF Stepping, Given, TypeOK, InStep
      <4>3. wire[conn][k].seq \in Nat
        BY <4>2, SocketNumbers
      <4> QED BY <4>1, <4>3
    <3> QED BY <3>1 DEF SocketMarks, SentMarks
  <2>6. connectionID[c] # connectionId
    <3>1. connectionID[c] = connectionId => serverSequence <= 0
      BY <1>2, <2>1 DEF Stepping, Given, NumberInv, AheadInv
    <3>2. connectionID[c] # NoId /\ (connectionId # NoId => serverSequence # 0)
      BY <1>2 DEF Stepping, Given, NumberInv, IdInv
    <3> QED BY <3>1, <3>2, SteppingTypes
  <2> HIDE DEF m
  <2>7. NextMarks'[c] = {Mark(0, 0)}
    BY <1>1, <1>3, <2>1, <2>2, <2>3, StreamPartsNext
  <2>8. QueueMarks'[c] \subseteq {Mark(0, 0)}
    BY <1>1, <1>3, <2>1, <2>4, <2>7, StreamPartsNext
  <2> QED BY <1>1, <1>6, <2>5, <2>6, <2>7, <2>8, StreamPartsNext
<1>10. OrderInv'
  <2>1. Ordered({Mark(0, 0)}, published')
    BY OrderedHello, SteppingTypes
  <2> QED BY <1>1, <1>2, <1>5, <1>6, <1>8, <1>9, <2>1, MoveKeepsOrder
<1>11. QueueComplete'
  <2>1. ASSUME NEW d \in Holders', connectionID'[d] = connectionId'
        PROVE  /\ d \in Holders /\ connectionID[d] = connectionId
               /\ StreamMarks'[d] = StreamMarks[d]
               /\ Written[d] <= Written'[d]
               /\ Open(d)' => Open(d)
               /\ missed'[queue'[d]] = missed[queue[d]]
    <3>1. /\ d \in Holders /\ d \in Conns /\ connectionID[d] = connectionId
          /\ d # c \/ reused[c]
      BY <1>1, <1>5, <1>9, <2>1, HoldersAreConns
    <3>2. Open(d)' => Open(d)
      BY <1>1, <1>4, <1>8, <3>1 DEF Open, InHandover
    <3> QED BY <1>1, <1>3, <1>8, <2>1, <3>1, <3>2, WrittenIsNat
  <2> QED BY <1>1, <1>6, <2>1, MoveKeepsAll
<1> QED BY <1>6, <1>10, <1>11 DEF StreamInv

----------------------------------------------------------------------------
(* The pumps. *)

LEMMA StartOutcomeMarks ==
  ASSUME Stepping, NEW c \in Conns, pc[c] = "registered", NEW r, r = StartOutcome(c)
  PROVE  /\ r.outcome # "notFound" =>
              /\ SentMarks(r.sent, Sequence[c]) \subseteq SlotMarks(deadQueue[queue[c]], Written[c])
              /\ r.sent # <<>> => /\ reused[c] /\ Sequence[c] = request[c].seq
                                  /\ Kept(SentMarks(r.sent, Sequence[c]), Sequence[c], Written[c])
         /\ r.outcome = "notFound" =>
              /\ \A x : SlotMarks(r.queue, x) \subseteq {Mark(0, 0)}
              /\ SentMarks(r.sent, 0) = {Mark(0, 0)}
<1>1. c \in Holders /\ queue[c] \in Conns
  BY DEF Holders, Holds, Running, Stepping, Given, TypeOK
<1>2. /\ deadQueue[queue[c]] \in Queues /\ deadQueuePointer[c] \in Slots
      /\ Written[c] \in Nat /\ Sequence[c] \in Nat /\ lastId \in Nat
      /\ KeptRing(deadQueue[queue[c]], deadQueuePointer[c], Written[c])
      /\ HelloIsZero(deadQueue[queue[c]])
  BY <1>1, WrittenIsNat DEF Stepping, Given, TypeOK, Queues, NumberInv, RingsInv
<1>3. /\ ~ reused[c] => Sequence[c] = 0
      /\ reused[c] => /\ Sequence[c] = request[c].seq /\ Sequence[c] # 0
                      /\ Sequence[c] <= Written[c]
  BY <1>1 DEF Stepping, Given, NumberInv, FreshInv, IdInv, AheadInv
<1>4. CASE Sequence[c] = 0
  <2>1. r.sent = <<>> /\ r.outcome # "notFound"
    BY <1>4 DEF StartOutcome
  <2> QED BY <2>1, EmptyMarks
<1>5. CASE Sequence[c] # 0
  <2> DEFINE hello == SetSequence(HelloMsg(lastId + 1), 0)
  <2>1. hello \in SentMessage /\ hello.seq = 0 /\ hello.pub = 0 /\ hello.id # NoId
    BY <1>2, MaxEventsAssumption DEF SetSequence, HelloMsg, SentMessage, NoId
  <2>2. r = Prologue(deadQueue[queue[c]], deadQueuePointer[c], Sequence[c], hello)
    BY <1>5 DEF StartOutcome
  <2> HIDE DEF hello
  <2>4. Sequence[c] <= Written[c] /\ reused[c] /\ Sequence[c] = request[c].seq
    BY <1>3, <1>5
  <2>5. /\ r.outcome # "notFound" =>
             SentMarks(r.sent, Sequence[c]) \subseteq SlotMarks(deadQueue[queue[c]], Written[c])
        /\ r.outcome = "notFound" =>
             /\ \A x : SlotMarks(r.queue, x) \subseteq {Mark(0, 0)}
             /\ SentMarks(r.sent, 0) = {Mark(0, 0)}
    <3> DEFINE dq == deadQueue[queue[c]]
               ptr == deadQueuePointer[c]
               n == Written[c]
               s == Sequence[c]
    <3>1. /\ dq \in Queues /\ ptr \in Slots /\ n \in Nat /\ s \in Nat /\ KeptRing(dq, ptr, n)
          /\ HelloIsZero(dq) /\ s # 0 /\ s <= n /\ r = Prologue(dq, ptr, s, hello)
      BY <1>2, <1>5, <2>2, <2>4
    <3> HIDE DEF dq, ptr, n, s
    <3>2. /\ r.outcome # "notFound" => SentMarks(r.sent, s) \subseteq SlotMarks(dq, n)
          /\ r.outcome = "notFound" =>
               /\ \A x : SlotMarks(r.queue, x) \subseteq {Mark(0, 0)}
               /\ SentMarks(r.sent, 0) = {Mark(0, 0)}
      BY <2>1, <3>1, ReplayMarks
    <3> QED BY <3>2 DEF dq, n, s
  <2>6. r.outcome # "notFound" => Kept(SentMarks(r.sent, Sequence[c]), Sequence[c], Written[c])
    <3>1. Written[c] # 0
      BY <1>2, <1>5, <2>4
    <3>2. /\ r.sent \in Seq(SentMessage)
          /\ r.outcome # "notFound" => HasAll(r.sent, Sequence[c], Written[c])
      BY <3>1, StartOutcomeOnRing DEF Stepping, Given
    <3> QED BY <1>2, <3>2, SentIsKept
  <2> QED BY <2>4, <2>5, <2>6
<1> QED BY <1>4, <1>5

\* A channel whose ring is replaced by a hello message: its events are later.
LEMMA RestartOrdered ==
  ASSUME NEW p \in Nat, NEW ch, NEW n \in Nat, DOMAIN ch \subseteq Nat \ {0},
         Ordered(ChanMarks(ch, n), p), \A k \in DOMAIN ch : ch[k].pub # 0,
         NEW T, T \subseteq {Mark(0, 0)} \cup ChanMarks(ch, 1)
  PROVE  Ordered(T, p)
<1> DEFINE S == ChanMarks(ch, n)
<1>1. ASSUME NEW x \in T
      PROVE  \/ x.seq = 0 /\ x.pub = 0
             \/ \E k \in DOMAIN ch : x.seq = k /\ x.pub = ch[k].pub
  <2>1. CASE x = Mark(0, 0)
    BY <2>1 DEF Mark
  <2>2. CASE x \in ChanMarks(ch, 1)
    <3>1. PICK k \in DOMAIN ch : x = Mark(1 + k - 1, ch[k].pub)
      BY <2>2 DEF ChanMarks
    <3>2. 1 + k - 1 = k
      OBVIOUS
    <3> QED BY <3>1, <3>2 DEF Mark
  <2> QED BY <2>1, <2>2
<1>2. \A k \in DOMAIN ch : Mark(n + k - 1, ch[k].pub) \in S
  BY DEF ChanMarks
<1>3. ASSUME NEW k \in DOMAIN ch
      PROVE  ch[k].pub \in Nat /\ ch[k].pub <= p /\ ch[k].pub > 0
  <2> DEFINE m == Mark(n + k - 1, ch[k].pub)
  <2>1. m \in S /\ m.pub = ch[k].pub
    BY <1>2 DEF Mark
  <2> HIDE DEF m, S
  <2>2. m.pub \in Nat /\ m.pub <= p
    BY <2>1 DEF Ordered, S
  <2> QED BY <2>1, <2>2
<1>4. ASSUME NEW j \in DOMAIN ch, NEW k \in DOMAIN ch
      PROVE  j < k <=> ch[j].pub < ch[k].pub
  <2>1. /\ Mark(n + j - 1, ch[j].pub).seq = n + j - 1 /\ Mark(n + j - 1, ch[j].pub).pub = ch[j].pub
        /\ Mark(n + k - 1, ch[k].pub).seq = n + k - 1 /\ Mark(n + k - 1, ch[k].pub).pub = ch[k].pub
    BY DEF Mark
  <2>2. n + j - 1 < n + k - 1 <=> ch[j].pub < ch[k].pub
    BY <1>2, <2>1 DEF Ordered
  <2> QED BY <2>2
<1>5. \A x \in T : /\ x.seq \in Int /\ x.pub \in Nat /\ x.pub <= p
                   /\ x.seq = 0 => x.pub = 0
  BY <1>1, <1>3
<1>6. ASSUME NEW x \in T, NEW y \in T PROVE x.seq < y.seq <=> x.pub < y.pub
  <2>1. CASE x.seq = 0 /\ x.pub = 0 /\ y.seq = 0 /\ y.pub = 0
    BY <2>1
  <2>2. ASSUME x.seq = 0 /\ x.pub = 0, NEW k \in DOMAIN ch, y.seq = k, y.pub = ch[k].pub
        PROVE  x.seq < y.seq <=> x.pub < y.pub
    BY <1>3, <2>2
  <2>3. ASSUME y.seq = 0 /\ y.pub = 0, NEW k \in DOMAIN ch, x.seq = k, x.pub = ch[k].pub
        PROVE  x.seq < y.seq <=> x.pub < y.pub
    BY <1>3, <2>3
  <2>4. ASSUME NEW j \in DOMAIN ch, x.seq = j, x.pub = ch[j].pub,
               NEW k \in DOMAIN ch, y.seq = k, y.pub = ch[k].pub
        PROVE  x.seq < y.seq <=> x.pub < y.pub
    BY <1>4, <2>4
  <2> QED BY <1>1, <2>1, <2>2, <2>3, <2>4
<1> QED BY <1>5, <1>6 DEF Ordered

LEMMA StartPumpStream ==
  ASSUME Stepping, NEW c \in Conns, StartPump(c)
  PROVE  StreamInv'
<1> DEFINE q == queue[c]
<1> Given
  BY DEF Stepping
<1>1. PICK r : /\ r = StartOutcome(c)
               /\ deadQueue' = [deadQueue EXCEPT ![q] = r.queue]
               /\ deadQueuePointer' = [deadQueuePointer EXCEPT ![c] = r.pointer]
               /\ Sequence' = [Sequence EXCEPT ![c] = r.sequence]
               /\ IF r.outcome = "notFound"
                    THEN /\ lastId' = lastId + 1
                         /\ connectionID' = [connectionID EXCEPT ![c] = lastId + 1]
                    ELSE UNCHANGED <<lastId, connectionID>>
               /\ written' = [written EXCEPT ![q] = IF r.outcome = "notFound" THEN 1 ELSE @]
               /\ \/ WriteOk(c, r.sent) /\ pc' = [pc EXCEPT ![c] = "pump"]
                  \/ r.sent # <<>> /\ WriteError(c) /\ pc' = [pc EXCEPT ![c] = "ended"]
  BY DEF StartPump, StartOutcome
<1>2. /\ pc[c] = "registered"
      /\ UNCHANGED <<request, index, reused, queue, send, conn, connectionId, serverSequence,
                     view, lastEvent, published, missed>>
  BY DEF StartPump, clientVars, historyVars
<1>3. /\ r.sent \in Seq(SentMessage)
      /\ r.outcome = "notFound" =>
           /\ Written[c] # 0
           /\ Len(r.sent) = 1 /\ Head(r.sent).id = lastId + 1 /\ Head(r.sent).seq = 0
           /\ KeptRing(r.queue, r.pointer, 1) /\ ~ Frayed(r.queue, 1)
      /\ r.outcome # "notFound" =>
           /\ r.queue = deadQueue[q] /\ r.pointer = deadQueuePointer[c]
           /\ \A k \in DOMAIN r.sent : r.sent[k].id = NoId
  BY <1>1, <1>2, StartOutcomeOnRing DEF Stepping, Given
<1>4. c \in Holders /\ q \in Conns
  BY <1>2 DEF Holders, Holds, Running, Stepping, Given, TypeOK
<1>5. pc'[c] \in {"pump", "ended"} /\ \A e \in Conns : e # c => pc'[e] = pc[e]
  <2>1. pc' = [pc EXCEPT ![c] = "pump"] \/ pc' = [pc EXCEPT ![c] = "ended"]
    BY <1>1
  <2>2. pc \in [Conns -> PCs]
    BY DEF Stepping, Given, TypeOK
  <2> QED BY <2>1, <2>2
<1>6. \A e \in Conns : e \in Holders' <=> e \in Holders
  BY <1>2, <1>4, <1>5 DEF Holders, Holds, Running
<1>7. /\ deadQueue'[q] = r.queue
      /\ \A e \in Conns : e # q => deadQueue'[e] = deadQueue[e] /\ written'[e] = written[e]
      /\ written'[q] = IF r.outcome = "notFound" THEN 1 ELSE written[q]
      /\ \A e \in Conns : e # c => connectionID'[e] = connectionID[e]
  <2>1. /\ deadQueue \in [Conns -> [Slots -> SentMessage \cup {Nil}]]
        /\ connectionID \in [Conns -> Nat]
        /\ written \in [Conns -> Nat]
    BY DEF Stepping, Given, TypeOK
  <2>2. \A e \in Conns : e # c => connectionID'[e] = connectionID[e]
    BY <1>1, <2>1
  <2> QED BY <1>1, <1>4, <2>1, <2>2
<1>8. \A e \in Holders : e # c => e \in Conns /\ queue[e] \in Conns /\ queue[e] # q
  BY <1>4, OneHolder, HoldersAreConns DEF Stepping, Given, TypeOK
<1>9. /\ Written'[c] = IF r.outcome = "notFound" THEN 1 ELSE Written[c]
      /\ \A e \in Holders : e # c => Written'[e] = Written[e]
  BY <1>2, <1>4, <1>7, <1>8 DEF Written
<1>10. /\ wire[c] = <<>> /\ (linked[c] => c = conn)
       /\ c = conn => request[c].id = connectionId
       /\ reused[c] => connectionID[c] = request[c].id
  <2>1. c # NoConn
    BY DEF Conns, NoConn
  <2>2. wire[c] = <<>>
    BY <1>2 DEF Stepping, Given, NumberInv, FreshInv
  <2>3. (linked[c] => c = conn) /\ (c = conn => request[c].id = connectionId)
    BY <1>2, <2>1 DEF Stepping, Given, NumberInv, LinkInv
  <2>4. reused[c] => connectionID[c] = request[c].id
    BY <1>2 DEF Stepping, Given, NumberInv, IdInv
  <2> QED BY <2>2, <2>3, <2>4
<1>11. /\ linked' = linked
       /\ \A e \in Conns : e # c => wire'[e] = wire[e]
       /\ wire'[c] = IF linked[c] THEN r.sent ELSE <<>>
  <2>1. /\ linked' = linked
        /\ wire' = IF linked[c] THEN [wire EXCEPT ![c] = @ \o r.sent] ELSE wire
    BY <1>1 DEF WriteOk, WriteError, networkVars
  <2>2. <<>> \o r.sent = r.sent
    BY <1>3
  <2> QED BY <1>10, <2>1, <2>2 DEF Stepping, Given, TypeOK
<1>12. /\ lastId \in Nat /\ connectionId \in Nat /\ WireId \in Nat
       /\ connectionId <= lastId /\ WireId <= lastId
       /\ \A e \in Conns : request[e].id \in Nat /\ request[e].id <= lastId
       /\ \A e \in Holders : /\ connectionID[e] \in Nat /\ connectionID[e] # NoId
                             /\ connectionID[e] <= lastId
  BY WireIdIsNat, HoldersAreConns DEF Stepping, Given, NumberInv, IdInv, TypeOK
<1>13. /\ r.outcome = "notFound" => lastId' = lastId + 1 /\ connectionID'[c] = lastId + 1
       /\ r.outcome # "notFound" => lastId' = lastId /\ connectionID'[c] = connectionID[c]
  <2>1. connectionID \in [Conns -> Nat]
    BY DEF Stepping, Given, TypeOK
  <2> QED BY <1>1, <2>1
<1>14. /\ c = conn /\ linked[c] /\ r.outcome = "notFound" => WireId' = lastId + 1
       /\ ~ (c = conn /\ linked[c] /\ r.outcome = "notFound") => WireId' = WireId
  <2>1. CASE c # conn
    BY <1>2, <1>11, <2>1 DEF WireId, Stepping, Given, TypeOK
  <2>2. CASE c = conn
    <3>1. conn # NoConn /\ WireId = connectionId
      BY <1>10, <2>2 DEF WireId, StreamOf, NoConn, Conns
    <3>2. WireId' = StreamOf(wire'[c], connectionId)
      BY <1>2, <2>2, <3>1 DEF WireId
    <3>3. linked[c] /\ r.outcome = "notFound" => StreamOf(r.sent, connectionId) = lastId + 1
      <4>1. r.outcome = "notFound" => r.sent # <<>>
        BY <1>3
      <4> QED BY <1>3, <1>12, <4>1 DEF StreamOf, NoId
    <3>4. r.outcome # "notFound" => StreamOf(r.sent, connectionId) = connectionId
      <4>1. r.sent # <<>> => 1 \in DOMAIN r.sent /\ Head(r.sent) = r.sent[1]
        BY <1>3
      <4> QED BY <1>3, <4>1 DEF StreamOf
    <3>5. StreamOf(<<>>, connectionId) = connectionId
      BY DEF StreamOf
    <3> QED BY <1>11, <2>2, <3>1, <3>2, <3>3, <3>4, <3>5
  <2> QED BY <2>1, <2>2
<1> HIDE DEF q
<1>15. \A d \in Holders' : d \in Holders /\ d \in Conns
  BY <1>6, HoldersAreConns
<1>16. /\ r.outcome # "notFound" =>
            /\ SentMarks(r.sent, Sequence[c]) \subseteq SlotMarks(deadQueue[q], Written[c])
            /\ r.sent # <<>> => /\ reused[c] /\ Sequence[c] = request[c].seq
                                /\ Kept(SentMarks(r.sent, Sequence[c]), Sequence[c], Written[c])
       /\ r.outcome = "notFound" =>
            /\ \A x : SlotMarks(r.queue, x) \subseteq {Mark(0, 0)}
            /\ SentMarks(r.sent, 0) = {Mark(0, 0)}
  BY <1>1, <1>2, StartOutcomeMarks DEF q
<1>17. /\ c = conn /\ linked[c] =>
            /\ SocketMarks = {} /\ SocketMarks' = SentMarks(r.sent, Start')
            /\ WireId = connectionId /\ request[c].seq = serverSequence
       /\ ~ (c = conn /\ linked[c]) =>
            /\ SocketMarks' = SocketMarks
            /\ conn # NoConn => wire'[conn] = wire[conn]
       /\ Start' = IF WireId' = connectionId THEN serverSequence ELSE 0
  <2>1. c = conn => conn # NoConn
    BY DEF Conns, NoConn
  <2>2. conn # NoConn => conn \in Conns
    BY DEF Stepping, Given, TypeOK
  <2>3. c = conn => WireId = connectionId /\ request[c].seq = serverSequence
    BY <1>2, <1>10, <2>1 DEF WireId, StreamOf, Stepping, Given, NumberInv, LinkInv
  <2>4. Start' = IF WireId' = connectionId THEN serverSequence ELSE 0
    BY <1>2 DEF Start
  <2>5. ~ (c = conn /\ linked[c]) => Start' = Start
    BY <1>2, <1>14 DEF Start
  <2> QED BY <1>2, <1>10, <1>11, <2>1, <2>2, <2>3, <2>4, <2>5, EmptyMarks DEF SocketMarks
<1>18. ClientMark' = ClientMark /\ ViewInv'
  BY <1>2 DEF ClientMark, Stepping, StreamInv, ViewInv
<1>19. \A e \in Conns : InHandover(e)' => InHandover(e) /\ e # c
  BY <1>2, <1>5 DEF InHandover
<1>20. ASSUME NEW d \in Holders, d # c
       PROVE  /\ QueueMarks'[d] = QueueMarks[d] /\ NextMarks'[d] = NextMarks[d]
              /\ Torn'[d] = Torn[d]
  <2>1. /\ deadQueue'[queue'[d]] = deadQueue[queue[d]] /\ send'[queue'[d]] = send[queue[d]]
        /\ Written'[d] = Written[d] /\ d \in Conns
    BY <1>2, <1>7, <1>8, <1>9, <1>20
  <2> QED BY <2>1, SameQueue
<1>21. CASE r.outcome # "notFound"
  <2>1. \A d \in Holders : /\ QueueMarks'[d] = QueueMarks[d] /\ Written'[d] = Written[d]
                           /\ NextMarks'[d] = NextMarks[d] /\ Torn'[d] = Torn[d]
                           /\ connectionID'[d] = connectionID[d] /\ d \in Conns
    <3>1. ASSUME NEW d \in Holders PROVE connectionID'[d] = connectionID[d] /\ Written'[d] = Written[d]
      BY <1>7, <1>9, <1>13, <1>21, HoldersAreConns
    <3>2. /\ QueueMarks'[c] = QueueMarks[c] /\ NextMarks'[c] = NextMarks[c]
          /\ Torn'[c] = Torn[c]
      <4>1. /\ deadQueue'[queue'[c]] = deadQueue[queue[c]] /\ send'[queue'[c]] = send[queue[c]]
            /\ Written'[c] = Written[c]
        BY <1>2, <1>3, <1>7, <1>9, <1>21 DEF q
      <4> QED BY <4>1, SameQueue
    <3> QED BY <1>20, <3>1, <3>2, HoldersAreConns
  <2>2. WireId' = WireId
    BY <1>14, <1>21
  <2>3. r.sent # <<>> => reused[c] /\ connectionID[c] = request[c].id
    BY <1>10, <1>16, <1>21
  <2>4. c = conn /\ linked[c] /\ r.sent # <<>> => connectionID[c] = connectionId /\ WireId = connectionId
    BY <1>10, <1>17, <2>3
  <2>5. \/ SocketMarks' = SocketMarks
        \/ /\ c = conn /\ linked[c] /\ r.sent # <<>>
           /\ SocketMarks = {} /\ SocketMarks' \subseteq QueueMarks[c]
           /\ Kept(SocketMarks', serverSequence, Written[c])
    <3>1. SentMarks(r.sent, Sequence[c]) \subseteq QueueMarks[c]
      BY <1>16, <1>21, StreamParts DEF q
    <3>2. CASE ~ (c = conn /\ linked[c])
      BY <1>17, <3>2
    <3>3. CASE c = conn /\ linked[c] /\ r.sent = <<>>
      BY <1>17, <3>3, EmptyMarks
    <3>4. CASE c = conn /\ linked[c] /\ r.sent # <<>>
      <4>1. Start' = serverSequence /\ Sequence[c] = serverSequence
        BY <1>16, <1>17, <1>21, <2>2, <3>4
      <4> QED BY <1>16, <1>17, <1>21, <3>1, <3>4, <4>1
    <3> QED BY <3>2, <3>3, <3>4
  <2>6. ASSUME NEW d \in Holders PROVE StreamMarks'[d] = StreamMarks[d]
    <3>1. /\ StreamMarks'[d] = QueueMarks[d]
                     \cup (IF connectionID[d] = WireId THEN SocketMarks' ELSE {})
                     \cup (IF connectionID[d] = connectionId THEN {ClientMark} ELSE {})
          /\ StreamMarks[d] = QueueMarks[d]
                     \cup (IF connectionID[d] = WireId THEN SocketMarks ELSE {})
                     \cup (IF connectionID[d] = connectionId THEN {ClientMark} ELSE {})
      BY <1>2, <1>18, <2>1, <2>2, StreamParts, StreamPartsNext
    <3>2. CASE SocketMarks' = SocketMarks
      BY <3>1, <3>2
    <3>3. CASE /\ c = conn /\ linked[c] /\ r.sent # <<>>
               /\ SocketMarks = {} /\ SocketMarks' \subseteq QueueMarks[c]
      <4>1. connectionID[d] = WireId => d = c
        BY <1>4, <2>4, <3>3 DEF Stepping, Given, NumberInv, IdInv
      <4> QED BY <3>1, <3>3, <4>1
    <3> QED BY <2>5, <3>2, <3>3
  <2>7. ReadMarks' \subseteq ReadMarks \/ ReadMarks' \subseteq StreamMarks[c]
    <3>1. /\ ReadMarks' = SocketMarks' \cup (IF WireId = connectionId THEN {ClientMark} ELSE {})
          /\ ReadMarks = SocketMarks \cup (IF WireId = connectionId THEN {ClientMark} ELSE {})
      BY <1>2, <1>18, <2>2 DEF ReadMarks
    <3>2. CASE SocketMarks' = SocketMarks
      BY <3>1, <3>2
    <3>3. CASE /\ c = conn /\ linked[c] /\ r.sent # <<>>
               /\ SocketMarks = {} /\ SocketMarks' \subseteq QueueMarks[c]
      <4>1. QueueMarks[c] \subseteq StreamMarks[c] /\ ClientMark \in StreamMarks[c]
        BY <2>4, <3>3, StreamParts
      <4> QED BY <3>1, <3>3, <4>1
    <3> QED BY <2>5, <3>2, <3>3
  <2>8. OrderInv'
    <3>1. \A d \in Holders' : \E f \in Holders : /\ StreamMarks'[d] \subseteq StreamMarks[f]
                                                 /\ NextMarks'[d] \subseteq NextMarks[f]
      BY <1>15, <2>1, <2>6
    <3>2. published' = published
      BY <1>2
    <3> QED BY <1>4, <2>7, <3>1, <3>2, MoveKeepsOrder
  <2>9. QueueComplete'
    <3>1. ASSUME NEW d \in Holders', connectionID'[d] = connectionId'
          PROVE  /\ d \in Holders /\ connectionID[d] = connectionId
                 /\ StreamMarks'[d] = StreamMarks[d]
                 /\ Written[d] <= Written'[d]
                 /\ Open(d)' => Open(d)
                 /\ missed'[queue'[d]] = missed[queue[d]]
      <4>1. Open(d)' => Open(d)
        BY <1>2, <1>15, <1>19, <2>1 DEF Open
      <4> QED BY <1>2, <1>15, <2>1, <2>6, <3>1, <4>1, WrittenIsNat
    <3> QED BY <1>2, <1>18, <3>1, MoveKeepsAll
  <2>10. SocketComplete'
    <3>1. CASE SocketMarks' = SocketMarks
      <4>1. /\ published' = published /\ view' = view /\ connectionId' = connectionId
            /\ missed' = missed /\ queue' = queue /\ conn' = conn
        BY <1>2
      <4> QED BY <2>2, <3>1, <4>1 DEF Stepping, StreamInv, SocketComplete
    <3>2. CASE /\ c = conn /\ linked[c] /\ r.sent # <<>>
               /\ Kept(SocketMarks', serverSequence, Written[c])
      <4>1. c \in Holders' /\ connectionID'[c] = WireId' /\ conn' = c
        BY <1>2, <1>4, <1>6, <2>1, <2>2, <2>4, <3>2
      <4>2. Kept(SocketMarks', serverSequence', Written'[c])
        BY <1>2, <1>4, <2>1, <3>2
      <4> QED BY <1>18, <2>8, <2>9, <4>1, <4>2, SocketFromQueue
    <3> QED BY <2>5, <3>1, <3>2
  <2> QED BY <1>18, <2>8, <2>9, <2>10 DEF StreamInv
<1>22. CASE r.outcome = "notFound"
  <2>1. connectionID'[c] = lastId + 1 /\ connectionID'[c] # connectionId /\ connectionID'[c] # WireId
    BY <1>12, <1>13, <1>22
  <2>2. \/ c = conn /\ linked[c] /\ WireId' = lastId + 1 /\ SocketMarks = {} /\ SocketMarks' = {Mark(0, 0)}
        \/ ~ (c = conn /\ linked[c]) /\ WireId' = WireId /\ SocketMarks' = SocketMarks
    <3>1. CASE c = conn /\ linked[c]
      <4>1. WireId' = lastId + 1 /\ lastId + 1 # connectionId
        BY <1>12, <1>14, <1>22, <3>1
      <4>2. Start' = 0
        BY <1>17, <4>1
      <4> QED BY <1>16, <1>17, <1>22, <3>1, <4>1, <4>2
    <3>2. CASE ~ (c = conn /\ linked[c])
      BY <1>14, <1>17, <3>2
    <3> QED BY <3>1, <3>2
  <2>3. ASSUME NEW d \in Holders, d # c
        PROVE  /\ StreamMarks'[d] = StreamMarks[d] /\ Written'[d] = Written[d]
               /\ connectionID'[d] = connectionID[d]
    <3>1. /\ connectionID'[d] = connectionID[d] /\ Written'[d] = Written[d] /\ d \in Conns
          /\ connectionID[d] # lastId + 1 /\ connectionId' = connectionId
      BY <1>2, <1>7, <1>8, <1>9, <1>12, <2>3
    <3>2. /\ StreamMarks'[d] = QueueMarks[d]
                     \cup (IF connectionID[d] = WireId' THEN SocketMarks' ELSE {})
                     \cup (IF connectionID[d] = connectionId THEN {ClientMark} ELSE {})
          /\ StreamMarks[d] = QueueMarks[d]
                     \cup (IF connectionID[d] = WireId THEN SocketMarks ELSE {})
                     \cup (IF connectionID[d] = connectionId THEN {ClientMark} ELSE {})
      BY <1>18, <1>20, <2>3, <3>1, StreamParts, StreamPartsNext
    <3> QED BY <2>2, <3>1, <3>2
  <2>4. /\ StreamMarks'[c] \subseteq {Mark(0, 0)} \cup ChanMarks(send[q], 1)
        /\ NextMarks'[c] = ChanMarks(send[q], 1)
    <3>1. /\ QueueMarks'[c] \subseteq {Mark(0, 0)} \cup ChanMarks(send[q], 1)
          /\ NextMarks'[c] = ChanMarks(send[q], 1)
      <4>1. queue'[c] = q /\ deadQueue'[q] = r.queue /\ send' = send /\ Written'[c] = 1
        BY <1>2, <1>7, <1>9, <1>22 DEF q
      <4> QED BY <1>16, <1>22, <4>1, StreamPartsNext
    <3>2. connectionID'[c] = WireId' => SocketMarks' \subseteq {Mark(0, 0)}
      BY <2>1, <2>2
    <3> QED BY <1>2, <2>1, <3>1, <3>2, StreamPartsNext
  <2>5. Ordered(StreamMarks'[c], published) /\ Ordered(NextMarks'[c], published)
    <3> DEFINE ch == send[q]
               n == Written[c]
               T == StreamMarks'[c]
               U == NextMarks'[c]
    <3>1. published \in Nat /\ n \in Nat /\ n # 0
      BY <1>3, <1>4, <1>22, SteppingTypes, WrittenIsNat
    <3>2. Ordered(ChanMarks(ch, n), published)
      <4>1. ChanMarks(ch, n) = NextMarks[c]
        BY StreamParts DEF q
      <4> QED BY <1>4, <4>1 DEF Stepping, StreamInv, OrderInv
    <3>3. \A k \in DOMAIN ch : ch[k].pub # 0
      <4>1. HelloUnnumbered(ch, n, connectionID[c])
        BY <1>4 DEF Stepping, Given, NumberInv, ChanInv, q
      <4> QED BY <3>1, <4>1 DEF HelloUnnumbered
    <3>4. DOMAIN ch \subseteq Nat \ {0}
      <4>1. ch \in Seq(Message)
        BY <1>4 DEF Stepping, Given, TypeOK
      <4> HIDE DEF ch
      <4> QED BY <4>1
    <3>5. T \subseteq {Mark(0, 0)} \cup ChanMarks(ch, 1) /\ U \subseteq {Mark(0, 0)} \cup ChanMarks(ch, 1)
      BY <2>4
    <3> HIDE DEF ch, n, T, U
    <3>6. Ordered(T, published) /\ Ordered(U, published)
      BY <3>1, <3>2, <3>3, <3>4, <3>5, RestartOrdered
    <3> QED BY <3>6 DEF T, U
  <2>6. OrderInv'
    <3>1. published' = published /\ published \in Nat
      BY <1>2, SteppingTypes
    <3>2. ASSUME NEW d \in Holders'
          PROVE  Ordered(StreamMarks'[d], published') /\ Ordered(NextMarks'[d], published')
      BY <1>15, <1>20, <2>3, <2>5, <3>1 DEF Stepping, StreamInv, OrderInv
    <3>3. Ordered(ReadMarks', published')
      <4>1. CASE c = conn /\ linked[c] /\ WireId' = lastId + 1 /\ SocketMarks' = {Mark(0, 0)}
        <5>1. ReadMarks' = {Mark(0, 0)}
          BY <1>2, <1>12, <4>1 DEF ReadMarks
        <5> QED BY <3>1, <5>1, OrderedHello
      <4>2. CASE WireId' = WireId /\ SocketMarks' = SocketMarks
        <5>1. ReadMarks' = ReadMarks
          BY <1>2, <1>18, <4>2 DEF ReadMarks
        <5> QED BY <3>1, <5>1 DEF Stepping, StreamInv, OrderInv
      <4> QED BY <2>2, <4>1, <4>2
    <3> QED BY <3>2, <3>3 DEF OrderInv
  <2>7. QueueComplete'
    <3>1. ASSUME NEW d \in Holders', connectionID'[d] = connectionId'
          PROVE  /\ d \in Holders /\ connectionID[d] = connectionId
                 /\ StreamMarks'[d] = StreamMarks[d]
                 /\ Written[d] <= Written'[d]
                 /\ Open(d)' => Open(d)
                 /\ missed'[queue'[d]] = missed[queue[d]]
      <4>1. d \in Holders /\ d # c /\ d \in Conns
        BY <1>2, <1>15, <2>1, <3>1
      <4>2. Open(d)' => Open(d)
        BY <1>2, <1>19, <1>20, <4>1 DEF Open
      <4> QED BY <1>2, <2>3, <3>1, <4>1, <4>2, WrittenIsNat
    <3> QED BY <1>2, <1>18, <3>1, MoveKeepsAll
  <2>8. SocketComplete'
    <3>1. CASE WireId' = lastId + 1
      BY <1>2, <1>12, <3>1 DEF SocketComplete
    <3>2. CASE WireId' = WireId /\ SocketMarks' = SocketMarks
      <4>1. /\ view' = view /\ connectionId' = connectionId
            /\ missed' = missed /\ queue' = queue /\ conn' = conn
        BY <1>2
      <4> QED BY <3>2, <4>1 DEF Stepping, StreamInv, SocketComplete
    <3> QED BY <2>2, <3>1, <3>2
  <2> QED BY <1>18, <2>6, <2>7, <2>8 DEF StreamInv
<1> QED BY <1>21, <1>22

LEMMA PumpMessageStream ==
  ASSUME Stepping, NEW c \in Conns, PumpMessage(c)
  PROVE  StreamInv'
<1> DEFINE q == queue[c]
           n == Written[c]
           s == Sequence[c]
           n2 == IF s = n THEN n + 1 ELSE n
           m == Head(send[q])
           evt == SetSequence(m, s)
<1> Given
  BY DEF Stepping
<1>1. /\ pc[c] = "pump" /\ send[q] # <<>>
      /\ send' = [send EXCEPT ![q] = Tail(@)]
      /\ deadQueue' = [deadQueue EXCEPT ![q] = AddToDeadQueue(@, deadQueuePointer[c], evt)]
      /\ written' = [written EXCEPT ![q] = IF s = @ THEN @ + 1 ELSE @]
      /\ \/ WriteOk(c, <<evt>>) /\ UNCHANGED pc
         \/ WriteError(c) /\ pc' = [pc EXCEPT ![c] = "ended"]
      /\ UNCHANGED <<request, index, connectionID, reused, queue, lastId, conn,
                     connectionId, serverSequence, view, lastEvent, published, missed>>
  BY DEF PumpMessage, clientVars
<1>2. c \in Holders /\ q \in Conns /\ c # NoConn
  BY <1>1 DEF Holders, Holds, Running, Stepping, Given, TypeOK, Conns, NoConn
<1>3. /\ KeptRing(deadQueue[q], deadQueuePointer[c], n) /\ n \in Nat
      /\ s \in Nat /\ s >= n /\ (Frayed(deadQueue[q], n) => s > n)
  <2>1. /\ KeptRing(deadQueue[q], deadQueuePointer[c], n)
        /\ s >= n /\ (Frayed(deadQueue[q], n) => s > n)
    BY <1>1, <1>2 DEF Stepping, Given, NumberInv, RingsInv
  <2>2. s \in Nat
    BY DEF Stepping, Given, TypeOK
  <2> QED BY <2>1, <2>2, KeptRingTypes
<1>4. send[q] \in Seq(Message) /\ m \in Message
  <2>1. send[q] \in Seq(Message)
    BY <1>2 DEF Stepping, Given, TypeOK
  <2> QED BY <1>1, <2>1
<1>5. evt \in SentMessage /\ evt.seq = s /\ evt.pub = m.pub /\ evt.id = m.id /\ evt # Nil
  BY <1>3, <1>4, NumberedMessage, NilAssumption DEF SetSequence
<1>6. /\ m.id # NoId <=> n = 0
      /\ s = 0 <=> n = 0
      /\ m.id # NoId => m.id = connectionID[c]
  <2>1. /\ HelloUnnumbered(send[q], n, connectionID[c])
        /\ n = 0 => HelloNext(send[q]) /\ s = 0
    BY <1>1, <1>2 DEF Stepping, Given, NumberInv, ChanInv
  <2>2. n = 0 => m.id # NoId
    BY <2>1 DEF HelloNext
  <2> QED BY <1>1, <1>3, <1>4, <2>1, <2>2, ChannelTail
<1> HIDE DEF q, n, m, evt, s
<1>7. /\ deadQueue'[q] = AddToDeadQueue(deadQueue[q], deadQueuePointer[c], evt)
      /\ send'[q] = Tail(send[q])
      /\ \A e \in Conns : e # q => /\ deadQueue'[e] = deadQueue[e] /\ send'[e] = send[e]
                                   /\ written'[e] = written[e]
      /\ written'[q] = n2
  <2>1. /\ deadQueue \in [Conns -> [Slots -> SentMessage \cup {Nil}]]
        /\ send \in [Conns -> Seq(Message)]
        /\ written \in [Conns -> Nat]
    BY DEF Stepping, Given, TypeOK
  <2>2. written[q] = n
    BY DEF Written, n, q
  <2> QED BY <1>1, <1>2, <1>3, <2>1, <2>2
<1>8. /\ s = n => n2 = n + 1 /\ ~ Frayed(deadQueue[q], n) /\ ~ Frayed(deadQueue'[q], n + 1)
      /\ s # n => n2 = n /\ s > n /\ n # 0 /\ Frayed(deadQueue'[q], n)
      /\ n2 \in Nat /\ n <= n2 /\ n2 # 0
  <2>1. CASE s = n
    <3>1. evt.seq = n /\ evt.seq \in Nat /\ ~ Frayed(deadQueue[q], n)
      BY <1>3, <1>5, <2>1
    <3>2. ~ Frayed(deadQueue'[q], n + 1)
      BY <1>3, <1>5, <1>7, <3>1, AddKeeps
    <3> QED BY <1>3, <2>1, <3>1, <3>2
  <2>2. CASE s # n
    <3>1. evt.seq > n /\ evt.seq \in Nat
      BY <1>3, <1>5, <2>2
    <3>2. Frayed(deadQueue'[q], n)
      BY <1>3, <1>5, <1>7, <3>1, AddKeeps
    <3> QED BY <1>3, <1>6, <2>2, <3>2
  <2> QED BY <2>1, <2>2
<1> HIDE DEF n2
<1>10. pc'[c] \in {"pump", "ended"} /\ \A e \in Conns : e # c => pc'[e] = pc[e]
  <2>1. pc \in [Conns -> PCs]
    BY DEF Stepping, Given, TypeOK
  <2> QED BY <1>1, <2>1
<1>11. \A e \in Conns : e \in Holders' <=> e \in Holders
  BY <1>1, <1>2, <1>10 DEF Holders, Holds, Running
<1>12. \A d \in Holders' : d \in Holders /\ d \in Conns
  BY <1>11, HoldersAreConns
<1>13. \A e \in Holders : e # c => e \in Conns /\ queue[e] \in Conns /\ queue[e] # q
  BY <1>2, OneHolder, HoldersAreConns DEF Stepping, Given, TypeOK, q
<1>14. /\ Written'[c] = n2 /\ queue'[c] = q
       /\ \A e \in Holders : e # c => Written'[e] = Written[e]
  <2>1. queue'[c] = q
    BY <1>1 DEF q
  <2> QED BY <1>1, <1>7, <1>13, <2>1 DEF Written
<1>15. linked[c] => c = conn
  BY DEF Stepping, Given, NumberInv, LinkInv
<1>16. /\ linked' = linked
       /\ linked[c] => wire'[c] = wire[c] \o <<evt>> /\ pc'[c] = "pump"
       /\ \A e \in Conns : e # c \/ ~ linked[c] => wire'[e] = wire[e]
  <2>1. /\ linked' = linked
        /\ wire' = IF linked[c] THEN [wire EXCEPT ![c] = @ \o <<evt>>] ELSE wire
        /\ linked[c] => pc' = pc
    BY <1>1 DEF WriteOk, WriteError, networkVars
  <2>2. wire \in [Conns -> Seq(SentMessage)]
    BY DEF Stepping, Given, TypeOK
  <2> QED BY <1>1, <2>1, <2>2
<1> DEFINE new == Mark(n, m.pub)
<1>17. ASSUME linked[c]
       PROVE  /\ WireId' = connectionID[c]
              /\ n = 0 => SocketMarks = {}
              /\ n # 0 => WireId = connectionID[c]
              /\ SocketMarks' = IF s = n THEN SocketMarks \cup {new} ELSE SocketMarks
              /\ Kept(SocketMarks', Start', n2)
  <2>1. c = conn
    BY <1>15, <1>17
  <2>2. IF n = 0 THEN wire[c] = <<>>
                 ELSE /\ WireId = connectionID[c]
                      /\ HasAll(wire[c], Start, n)
                      /\ s = n => Len(wire[c]) = n - Start
    BY <1>1, <1>2, <1>17, <2>1 DEF Stepping, Given, NumberInv, WireInv, n, s
  <2>3. wire'[c] \in Seq(SentMessage) /\ wire[c] \in Seq(SentMessage)
    BY DEF Stepping, Given, TypeOK
  <2>4. /\ WireId' = connectionID[c]
        /\ HasAll(wire'[c], Start', n2)
    <3>1. c \in Holders' /\ conn' = c /\ linked'[c] /\ pc'[c] = "pump" /\ connectionID' = connectionID
      BY <1>1, <1>2, <1>11, <1>16, <1>17, <2>1
    <3> QED BY <1>2, <1>8, <1>14, <3>1 DEF Stepping, NumberInv, WireInv
  <2>5. n = 0 => Start' = 0
    <3>1. connectionID[c] = connectionId => serverSequence <= n /\ serverSequence # 0
      BY <1>2 DEF Stepping, Given, NumberInv, AheadInv, IdInv, n
    <3>2. serverSequence \in Nat
      BY DEF Stepping, Given, TypeOK
    <3> QED BY <1>1, <2>4, <3>1, <3>2 DEF Start
  <2>6. n # 0 => Start' = Start
    BY <1>1, <2>2, <2>4 DEF Start
  <2>7. /\ SocketMarks = SentMarks(wire[c], Start)
        /\ SocketMarks' = SentMarks(wire[c] \o <<evt>>, Start')
    BY <1>1, <1>2, <1>16, <1>17, <2>1 DEF SocketMarks
  <2>8. Kept(SocketMarks', Start', n2)
    <3>1. SocketMarks' = SentMarks(wire'[c], Start')
      BY <1>16, <1>17, <2>7
    <3> QED BY <1>8, <2>3, <2>4, <3>1, StartIsNat, SentIsKept
  <2>9. SocketMarks' = IF s = n THEN SocketMarks \cup {new} ELSE SocketMarks
    <3>1. CASE n = 0
      <4>1. evt.seq = 0 /\ s = n
        BY <1>5, <1>6, <3>1
      <4>2. <<>> \o <<evt>> = <<evt>>
        OBVIOUS
      <4>3. SocketMarks = {}
        BY <2>2, <2>7, <3>1, EmptyMarks
      <4>4. SocketMarks' = {Mark(0, evt.pub)}
        BY <2>2, <2>5, <2>7, <3>1, <4>1, <4>2, SentOneMark
      <4> QED BY <1>5, <3>1, <4>1, <4>3, <4>4
    <3>2. CASE n # 0
      <4>1. /\ s # n => SentMarks(wire[c] \o <<evt>>, Start) = SentMarks(wire[c], Start)
            /\ s = n => SentMarks(wire[c] \o <<evt>>, Start)
                          = SentMarks(wire[c], Start) \cup {Mark(n, evt.pub)}
        <5>1. HasAll(wire[c], Start, n) /\ (s = n => Len(wire[c]) = n - Start)
          BY <2>2, <3>2
        <5>2. s # n => evt.seq > n
          BY <1>5, <1>8
        <5> DEFINE w == wire[c]
                   f == Start
        <5>3. /\ w \in Seq(SentMessage) /\ f \in Nat /\ HasAll(w, f, n)
              /\ s = n => Len(w) = n - f
          BY <2>3, <5>1, StartIsNat
        <5> HIDE DEF w, f
        <5>4. s = n => SentMarks(w \o <<evt>>, f) = SentMarks(w, f) \cup {Mark(n, evt.pub)}
          BY <1>3, <1>5, <5>3, SentAppendMarks
        <5>5. s # n => SentMarks(w \o <<evt>>, f) = SentMarks(w, f)
          BY <1>3, <1>5, <5>2, <5>3, SentAppendMarks
        <5> QED BY <5>4, <5>5 DEF w, f
      <4> QED BY <1>5, <2>6, <2>7, <3>2, <4>1
    <3> QED BY <3>1, <3>2
  <2>10. n = 0 => SocketMarks = {}
    BY <2>2, <2>7, EmptyMarks
  <2> QED BY <2>2, <2>4, <2>8, <2>9, <2>10
<1>18. ~ linked[c] => wire' = wire /\ WireId' = WireId /\ SocketMarks' = SocketMarks
  <2>1. ~ linked[c] => wire' = wire
    BY <1>1 DEF WriteOk, WriteError, networkVars
  <2> QED BY <1>1, <2>1 DEF WireId, Start, SocketMarks
<1>19. /\ QueueMarks[c] = SlotMarks(deadQueue[q], n) \cup (IF Torn[c] THEN {} ELSE NextMarks[c])
       /\ QueueMarks'[c] = SlotMarks(deadQueue'[q], n2) \cup (IF Torn'[c] THEN {} ELSE NextMarks'[c])
       /\ NextMarks[c] = ChanMarks(send[q], n) /\ NextMarks'[c] = ChanMarks(Tail(send[q]), n2)
       /\ Torn[c] = Frayed(deadQueue[q], n) /\ Torn'[c] = Frayed(deadQueue'[q], n2)
  BY <1>7, <1>14, StreamParts, StreamPartsNext DEF q, n
<1>20. deadQueue[q] \in Queues /\ deadQueuePointer[c] \in Slots /\ deadQueue'[q] \in Queues
  BY <1>2 DEF Stepping, Given, TypeOK, Queues
\* In sequence, the message moves from the channel to the dead queue.
<1>21. ASSUME s = n
       PROVE  /\ ~ Torn[c]
              /\ QueueMarks'[c] \subseteq QueueMarks[c] /\ NextMarks'[c] \subseteq NextMarks[c]
              /\ new \in QueueMarks[c] /\ new \in QueueMarks'[c]
              /\ \A x \in QueueMarks[c] : x.seq >= n2 => x \in QueueMarks'[c]
  <2>1. ChanMarks(send[q], n) = {new} \cup ChanMarks(Tail(send[q]), n + 1)
    BY <1>1, <1>3, <1>4, ChanTailMarks DEF m
  <2>2. /\ SlotMarks(deadQueue'[q], n + 1) \subseteq SlotMarks(deadQueue[q], n) \cup {new}
        /\ new \in SlotMarks(deadQueue'[q], n + 1)
    BY <1>3, <1>5, <1>7, <1>8, <1>20, <1>21, SlotAddMarks
  <2>3. ~ Torn[c] /\ ~ Torn'[c] /\ n2 = n + 1
    <3>1. ~ Frayed(deadQueue[q], n) /\ ~ Frayed(deadQueue'[q], n2) /\ n2 = n + 1
      BY <1>8, <1>21
    <3> QED BY <1>19, <3>1
  <2>4. ASSUME NEW x \in SlotMarks(deadQueue[q], n) \cup {new} PROVE ~ x.seq >= n + 1
    <3>1. CASE x = new
      BY <1>3, <3>1 DEF Mark
    <3>2. CASE x \in SlotMarks(deadQueue[q], n)
      <4>1. x.seq \in Nat /\ x.seq < n
        BY <1>20, <3>2, RingMarks
      <4> QED BY <1>3, <4>1
    <3> QED BY <3>1, <3>2
  <2> HIDE DEF new
  <2>5. /\ QueueMarks[c] = SlotMarks(deadQueue[q], n) \cup ChanMarks(send[q], n)
        /\ QueueMarks'[c] = SlotMarks(deadQueue'[q], n + 1) \cup ChanMarks(Tail(send[q]), n + 1)
        /\ NextMarks[c] = ChanMarks(send[q], n) /\ NextMarks'[c] = ChanMarks(Tail(send[q]), n + 1)
    BY <1>19, <2>3
  <2> QED BY <2>1, <2>2, <2>3, <2>4, <2>5
\* Past a gap, it is one that the client will never read.
<1>22. ASSUME s # n
       PROVE  /\ Torn'[c]
              /\ QueueMarks'[c] \subseteq QueueMarks[c]
              /\ Ordered(NextMarks'[c], published)
              /\ \A x \in QueueMarks'[c] : x.seq < n2
  <2>1. n2 = n /\ s > n /\ n # 0 /\ Frayed(deadQueue'[q], n2)
    BY <1>8, <1>22
  <2>2. Torn'[c] /\ QueueMarks'[c] = SlotMarks(deadQueue'[q], n)
    BY <1>19, <2>1
  <2>3. SlotMarks(deadQueue'[q], n) \subseteq SlotMarks(deadQueue[q], n)
    <3>1. evt.seq \in Nat /\ evt.seq > n
      BY <1>3, <1>5, <2>1
    <3> QED BY <1>3, <1>5, <1>7, <1>20, <3>1, SlotAddMarks
  <2>4. \A x \in SlotMarks(deadQueue'[q], n) : x.seq < n
    BY <1>20, RingMarks
  <2>5. Ordered(ChanMarks(Tail(send[q]), n), published)
    <3>1. Ordered(ChanMarks(send[q], n), published)
      BY <1>2, <1>19 DEF Stepping, StreamInv, OrderInv
    <3> QED BY <1>1, <1>3, <1>4, <2>1, <3>1, SteppingTypes, DropKeepsOrdered
  <2> QED BY <1>19, <2>1, <2>2, <2>3, <2>4, <2>5
<1> HIDE DEF new
<1>23. ClientMark' = ClientMark /\ ViewInv'
  BY <1>1 DEF ClientMark, Stepping, StreamInv, ViewInv
<1>24. ASSUME NEW d \in Holders, d # c
       PROVE  /\ StreamMarks'[d] = StreamMarks[d] /\ NextMarks'[d] = NextMarks[d]
              /\ Torn'[d] = Torn[d]
  <2>1. /\ QueueMarks'[d] = QueueMarks[d] /\ NextMarks'[d] = NextMarks[d]
        /\ Torn'[d] = Torn[d] /\ d \in Conns
    <3>1. /\ deadQueue'[queue'[d]] = deadQueue[queue[d]] /\ send'[queue'[d]] = send[queue[d]]
          /\ Written'[d] = Written[d] /\ d \in Conns
      BY <1>1, <1>7, <1>13, <1>14, <1>24
    <3> QED BY <3>1, SameQueue
  <2>2. /\ StreamMarks'[d] = QueueMarks[d]
                     \cup (IF connectionID[d] = WireId' THEN SocketMarks' ELSE {})
                     \cup (IF connectionID[d] = connectionId THEN {ClientMark} ELSE {})
        /\ StreamMarks[d] = QueueMarks[d]
                     \cup (IF connectionID[d] = WireId THEN SocketMarks ELSE {})
                     \cup (IF connectionID[d] = connectionId THEN {ClientMark} ELSE {})
    <3>1. connectionID' = connectionID /\ connectionId' = connectionId
      BY <1>1
    <3> QED BY <1>23, <2>1, <3>1, StreamParts, StreamPartsNext
  <2>3. CASE linked[c]
    <3>1. connectionID[d] # connectionID[c]
      BY <1>2, <1>24 DEF Stepping, Given, NumberInv, IdInv
    <3> QED BY <1>17, <2>1, <2>2, <2>3, <3>1
  <2>4. CASE ~ linked[c]
    BY <1>18, <2>1, <2>2, <2>4
  <2> QED BY <2>3, <2>4
<1>25. /\ StreamMarks'[c] \subseteq StreamMarks[c]
       /\ linked[c] => SocketMarks' \subseteq StreamMarks[c]
       /\ s = n => \A x \in StreamMarks[c] : x.seq >= n2 => x \in StreamMarks'[c]
       /\ s # n => \A x \in StreamMarks'[c] : x.seq < n2
  <2>1. /\ StreamMarks'[c] = QueueMarks'[c]
                     \cup (IF connectionID[c] = WireId' THEN SocketMarks' ELSE {})
                     \cup (IF connectionID[c] = connectionId THEN {ClientMark} ELSE {})
        /\ StreamMarks[c] = QueueMarks[c]
                     \cup (IF connectionID[c] = WireId THEN SocketMarks ELSE {})
                     \cup (IF connectionID[c] = connectionId THEN {ClientMark} ELSE {})
    <3>1. connectionID' = connectionID /\ connectionId' = connectionId
      BY <1>1
    <3> QED BY <1>23, <3>1, StreamParts, StreamPartsNext
  <2>2. s # n => n # 0
    BY <1>8
  <2>3. linked[c] => SocketMarks' \subseteq StreamMarks[c]
    BY <1>17, <1>21, <2>1, <2>2
  <2>4. StreamMarks'[c] \subseteq StreamMarks[c]
    BY <1>17, <1>18, <1>21, <1>22, <2>1, <2>3
  <2>5. (connectionID[c] = WireId => SocketMarks \subseteq SocketMarks')
          /\ (connectionID[c] = WireId /\ ~ linked[c] => WireId' = WireId)
    BY <1>17, <1>18
  <2>6. s = n => \A x \in StreamMarks[c] : x.seq >= n2 => x \in StreamMarks'[c]
    BY <1>17, <1>21, <2>1, <2>5
  <2>7. ASSUME s # n, NEW x \in StreamMarks'[c] PROVE x.seq < n2
    <3>1. n2 = n /\ n # 0
      BY <1>8, <2>7
    <3>2. /\ connectionID[c] = WireId => \A y \in SocketMarks : y.seq < n
          /\ connectionID[c] = connectionId => ClientMark.seq < n
      BY <1>2, StreamMarksBelow DEF n
    <3>3. connectionID[c] = WireId' => WireId' = WireId /\ SocketMarks' = SocketMarks
      BY <1>17, <1>18, <2>7, <3>1
    <3> QED BY <1>22, <2>1, <2>7, <3>1, <3>2, <3>3
  <2> QED BY <2>3, <2>4, <2>6, <2>7
<1>26. OrderInv'
  <2>1. \A d \in Holders' : \E f \in Holders : StreamMarks'[d] \subseteq StreamMarks[f]
    BY <1>2, <1>12, <1>24, <1>25
  <2>2. ReadMarks' \subseteq ReadMarks \/ ReadMarks' \subseteq StreamMarks[c]
    <3>1. ReadMarks' = SocketMarks' \cup (IF WireId' = connectionId THEN {ClientMark} ELSE {})
      BY <1>1, <1>23 DEF ReadMarks
    <3>2. CASE linked[c]
      <4>1. connectionID[c] = connectionId => ClientMark \in StreamMarks[c]
        BY StreamParts
      <4> QED BY <1>17, <1>25, <3>1, <3>2, <4>1
    <3>3. CASE ~ linked[c]
      BY <1>18, <3>1, <3>3 DEF ReadMarks
    <3> QED BY <3>2, <3>3
  <2>3. ASSUME NEW d \in Holders'
        PROVE  \/ Ordered(NextMarks'[d], published')
               \/ \E f \in Holders : NextMarks'[d] \subseteq NextMarks[f]
    <3>1. CASE d = c /\ s # n
      BY <1>1, <1>22, <3>1
    <3>2. CASE d = c /\ s = n
      BY <1>2, <1>21, <3>2
    <3>3. CASE d # c
      BY <1>12, <1>24, <3>3
    <3> QED BY <3>1, <3>2, <3>3
  <2> QED BY <1>1, <1>2, <2>1, <2>2, <2>3, MoveKeepsOrder
<1>27. QueueComplete'
  <2>1. ASSUME NEW d \in Holders', connectionID'[d] = connectionId'
        PROVE  /\ d \in Holders /\ connectionID[d] = connectionId
               /\ StreamMarks'[d] \subseteq StreamMarks[d]
               /\ Written[d] <= Written'[d]
               /\ \/ \A x \in StreamMarks[d] : x.seq >= Written'[d] => x \in StreamMarks'[d]
                  \/ Torn'[d] /\ \A x \in StreamMarks'[d] : x.seq < Written'[d]
               /\ Open(d)' => Open(d)
               /\ missed'[queue'[d]] = missed[queue[d]]
    <3>1. d \in Holders /\ d \in Conns /\ connectionID[d] = connectionId
      BY <1>1, <1>12, <2>1
    <3>2. ~ Torn'[d] => ~ Torn[d]
      BY <1>21, <1>22, <1>24, <3>1
    <3>3. Open(d)' => Open(d)
      BY <1>1, <1>10, <3>1, <3>2 DEF Open, InHandover
    <3>4. CASE d = c
      <4>1. \/ \A x \in StreamMarks[d] : x.seq >= Written'[d] => x \in StreamMarks'[d]
            \/ Torn'[d] /\ \A x \in StreamMarks'[d] : x.seq < Written'[d]
        BY <1>14, <1>22, <1>25, <3>4
      <4>2. Written[d] <= Written'[d]
        BY <1>8, <1>14, <3>4 DEF n
      <4> QED BY <1>1, <1>25, <3>1, <3>3, <3>4, <4>1, <4>2
    <3>5. CASE d # c
      BY <1>1, <1>14, <1>24, <3>1, <3>3, <3>5, WrittenIsNat
    <3> QED BY <3>4, <3>5
  <2> QED BY <1>1, <1>23, <2>1, MoveKeepsAll
<1>29. SocketComplete'
  <2>1. CASE ~ linked[c]
    <3>1. conn # NoConn => /\ wire'[conn] = wire[conn]
                           /\ wire[conn] # <<>> => missed[queue[conn]] \subseteq missed'[queue'[conn]]
      BY <1>1, <1>18, <2>1
    <3> QED BY <1>1, <3>1, SameSocket, SteppingTypes
  <2>2. CASE linked[c]
    <3>1. c = conn' /\ c \in Holders' /\ connectionID'[c] = WireId'
      BY <1>1, <1>2, <1>11, <1>15, <1>17, <2>2
    <3>2. WireId' = connectionId' => Kept(SocketMarks', serverSequence', Written'[c])
      BY <1>14, <1>17, <2>2 DEF Start
    <3> QED BY <1>23, <1>26, <1>27, <3>1, <3>2, SocketFromQueue
  <2> QED BY <2>1, <2>2
<1> QED BY <1>23, <1>26, <1>27, <1>29 DEF StreamInv

\* The event that is dropped is one that the client's queue will never have; the
\* others of the channel move up to its number.
LEMMA PumpEncodeErrorStream ==
  ASSUME Stepping, NEW c \in Conns, PumpEncodeError(c)
  PROVE  StreamInv'
<1> DEFINE q == queue[c]
           n == Written[c]
           ch == send[q]
           lost == Head(ch).pub
<1> Given
  BY DEF Stepping
<1>1. /\ pc[c] = "pump" /\ ch # <<>> /\ Head(ch).id = NoId
      /\ send' = [send EXCEPT ![q] = Tail(@)]
      /\ missed' = [missed EXCEPT ![q] = @ \cup {lost}]
      /\ UNCHANGED <<pc, index, connectionID, reused, queue, deadQueue, wire, conn,
                     connectionId, serverSequence, view, lastEvent, published, written>>
  BY DEF PumpEncodeError, networkVars, clientVars
<1>2. c \in Holders /\ q \in Conns /\ ch \in Seq(Message) /\ n \in Nat
  <2>1. c \in Holders /\ q \in Conns
    BY <1>1 DEF Holders, Holds, Running, Stepping, Given, TypeOK
  <2>2. ch \in Seq(Message)
    BY <2>1 DEF Stepping, Given, TypeOK
  <2> QED BY <2>1, <2>2, WrittenIsNat
<1>3. n # 0
  <2>1. n = 0 => HelloNext(ch)
    BY <1>1, <1>2 DEF Stepping, Given, NumberInv, ChanInv
  <2> QED BY <1>1, <2>1 DEF HelloNext
<1> HIDE DEF q, n, ch, lost
<1>4. /\ send'[q] = Tail(ch) /\ missed'[q] = missed[q] \cup {lost}
      /\ \A e \in Conns : e # q => send'[e] = send[e] /\ missed'[e] = missed[e]
  <2>1. send \in [Conns -> Seq(Message)] /\ missed \in [Conns -> SUBSET (1 .. MaxEvents)]
    BY DEF Stepping, Given, TypeOK
  <2> QED BY <1>1, <1>2, <2>1 DEF ch
<1>5. Written' = Written /\ Holders' = Holders
  BY <1>1 DEF Written, Holders, Holds, Running
<1>6. \A e \in Holders : e # c => e \in Conns /\ queue[e] \in Conns /\ queue[e] # q
  BY <1>2, OneHolder, HoldersAreConns DEF Stepping, Given, TypeOK, q
<1>7. /\ SocketMarks' = SocketMarks /\ ClientMark' = ClientMark
      /\ WireId' = WireId /\ ReadMarks' = ReadMarks
      /\ ViewInv' /\ SocketComplete'
  <2>1. conn # NoConn => missed[queue[conn]] \subseteq missed'[queue'[conn]]
    BY <1>1, <1>4 DEF Stepping, Given, TypeOK
  <2> QED BY <1>1, <2>1, SameSocket, SteppingTypes
<1>8. ASSUME NEW d \in Holders, d # c
      PROVE  /\ StreamMarks'[d] = StreamMarks[d] /\ NextMarks'[d] = NextMarks[d]
             /\ Torn'[d] = Torn[d] /\ missed'[queue'[d]] = missed[queue[d]]
  <2>1. /\ deadQueue'[queue'[d]] = deadQueue[queue[d]] /\ send'[queue'[d]] = send[queue[d]]
        /\ Written'[d] = Written[d] /\ connectionID'[d] = connectionID[d] /\ d \in Conns
        /\ missed'[queue'[d]] = missed[queue[d]]
    BY <1>1, <1>4, <1>5, <1>6, <1>8
  <2> QED BY <1>1, <1>7, <2>1, SameStream
\* All marks of c but those of its channel.
<1> DEFINE A == SlotMarks(deadQueue[q], n)
                  \cup (IF connectionID[c] = WireId THEN SocketMarks ELSE {})
                  \cup (IF connectionID[c] = connectionId THEN {ClientMark} ELSE {})
<1>9. /\ NextMarks[c] = ChanMarks(ch, n) /\ NextMarks'[c] = ChanMarks(Tail(ch), n)
      /\ Torn'[c] = Torn[c]
      /\ StreamMarks[c] = A \cup (IF Torn[c] THEN {} ELSE ChanMarks(ch, n))
      /\ StreamMarks'[c] = A \cup (IF Torn[c] THEN {} ELSE ChanMarks(Tail(ch), n))
  <2>1. /\ queue'[c] = q /\ deadQueue' = deadQueue /\ Written'[c] = n
        /\ connectionID' = connectionID /\ connectionId' = connectionId
    BY <1>1, <1>5 DEF q, n
  <2>2. /\ NextMarks[c] = ChanMarks(ch, n) /\ Torn[c] = Frayed(deadQueue[q], n)
        /\ QueueMarks[c] = SlotMarks(deadQueue[q], n) \cup (IF Torn[c] THEN {} ELSE NextMarks[c])
    BY StreamParts DEF q, n, ch
  <2>3. /\ NextMarks'[c] = ChanMarks(Tail(ch), n) /\ Torn'[c] = Frayed(deadQueue[q], n)
        /\ QueueMarks'[c] = SlotMarks(deadQueue[q], n) \cup (IF Torn'[c] THEN {} ELSE NextMarks'[c])
    BY <1>4, <2>1, StreamPartsNext
  <2>4. StreamMarks[c] = A \cup (IF Torn[c] THEN {} ELSE ChanMarks(ch, n))
    <3>1. QueueMarks[c] = SlotMarks(deadQueue[q], n) \cup (IF Torn[c] THEN {} ELSE ChanMarks(ch, n))
      BY <2>2
    <3> QED BY <3>1, StreamParts
  <2>5. StreamMarks'[c] = A \cup (IF Torn[c] THEN {} ELSE ChanMarks(Tail(ch), n))
    <3>1. QueueMarks'[c] = SlotMarks(deadQueue[q], n)
                             \cup (IF Torn[c] THEN {} ELSE ChanMarks(Tail(ch), n))
      BY <2>2, <2>3
    <3> QED BY <1>7, <2>1, <3>1, StreamPartsNext
  <2> QED BY <2>2, <2>3, <2>4, <2>5
<1>10. \A x \in A : x.seq < n
  BY <1>2, StreamMarksBelow DEF q, n
<1>11. /\ \A x \in ChanMarks(Tail(ch), n) :
            x.seq >= n /\ Mark(x.seq + 1, x.pub) \in ChanMarks(ch, n)
       /\ \A x \in ChanMarks(ch, n) :
            x.pub = lost \/ \E y \in ChanMarks(Tail(ch), n) : y.pub = x.pub
  BY <1>1, <1>2, ChanDropMarks DEF lost
<1> HIDE DEF A
<1>12. OrderInv'
  <2>1. /\ published' = published /\ published \in Nat
        /\ Ordered(StreamMarks[c], published) /\ Ordered(NextMarks[c], published)
        /\ Ordered(ReadMarks, published)
    BY <1>1, <1>2, SteppingTypes DEF Stepping, StreamInv, OrderInv
  <2>2. Ordered(NextMarks'[c], published)
    <3>1. Ordered(ChanMarks(ch, n), published)
      BY <1>9, <2>1
    <3>2. Ordered(ChanMarks(Tail(ch), n), published)
      BY <1>1, <1>2, <1>3, <2>1, <3>1, DropKeepsOrdered
    <3> QED BY <1>9, <3>2
  <2>3. Ordered(StreamMarks'[c], published)
    <3>1. CASE Torn[c]
      BY <1>9, <2>1, <3>1
    <3>2. CASE ~ Torn[c]
      <4>1. Ordered(A \cup ChanMarks(ch, n), published)
        BY <1>9, <2>1, <3>2
      <4>2. Ordered(A \cup ChanMarks(Tail(ch), n), published)
        BY <1>1, <1>2, <1>3, <1>10, <2>1, <4>1, DropOrdered
      <4> QED BY <1>9, <3>2, <4>2
    <3> QED BY <3>1, <3>2
  <2>4. ASSUME NEW d \in Holders'
        PROVE  Ordered(StreamMarks'[d], published') /\ Ordered(NextMarks'[d], published')
    <3>1. CASE d = c
      BY <2>1, <2>2, <2>3, <3>1
    <3>2. CASE d # c
      BY <1>5, <1>8, <2>1, <3>2 DEF Stepping, StreamInv, OrderInv
    <3> QED BY <3>1, <3>2
  <2> QED BY <1>7, <2>1, <2>4 DEF OrderInv
<1>13. \A d \in Holders : Open(d)' <=> Open(d)
  <2> SUFFICES ASSUME NEW d \in Holders PROVE Open(d)' <=> Open(d)
    OBVIOUS
  <2>1. Torn'[d] = Torn[d]
    BY <1>8, <1>9
  <2> QED BY <1>1, <2>1 DEF Open, InHandover
<1>14. QueueComplete'
  <2> SUFFICES ASSUME NEW d \in Holders, connectionID[d] = connectionId,
                      Kept(StreamMarks'[d], serverSequence, Written[d]),
                      NEW e \in view + 1 .. published, Reached(d, e)'
               PROVE  Accounted(StreamMarks'[d], missed'[queue[d]], e)
    BY <1>1, <1>5 DEF QueueComplete
  <2>1. CASE d # c
    <3>1. Reached(d, e)
      BY <1>8, <1>13, <2>1 DEF Reached
    <3>2. Accounted(StreamMarks[d], missed[queue[d]], e)
      BY <1>8, <2>1, <3>1 DEF Stepping, StreamInv, QueueComplete
    <3>3. StreamMarks'[d] = StreamMarks[d] /\ missed'[queue[d]] = missed[queue[d]]
      BY <1>1, <1>8, <2>1
    <3> QED BY <3>2, <3>3
  <2>2. CASE d = c
    <3>1. Kept(StreamMarks[c], serverSequence, n)
      <4> SUFFICES ASSUME NEW k \in Int, serverSequence <= k, k < n
                   PROVE  \E x \in StreamMarks[c] : x.seq = k
        BY DEF Kept
      <4>1. PICK x \in StreamMarks'[c] : x.seq = k
        BY <2>2 DEF Kept, n
      <4>2. x \notin ChanMarks(Tail(ch), n)
        BY <1>2, <1>11, <4>1
      <4> QED BY <1>9, <4>1, <4>2
    <3>2. Reached(c, e)
      <4>1. CASE Open(c)
        BY <4>1 DEF Reached
      <4>2. CASE ~ Open(c)
        <5>1. PICK x \in StreamMarks'[c] : e < x.pub
          BY <1>2, <1>13, <2>2, <4>2 DEF Reached
        <5>2. \E y \in StreamMarks[c] : y.pub = x.pub
          <6>1. CASE x \in A
            BY <1>9, <6>1
          <6>2. CASE x \notin A
            <7>1. ~ Torn[c] /\ x \in ChanMarks(Tail(ch), n)
              BY <1>9, <5>1, <6>2
            <7>2. Mark(x.seq + 1, x.pub) \in StreamMarks[c]
              BY <1>9, <1>11, <7>1
            <7>3. Mark(x.seq + 1, x.pub).pub = x.pub
              BY DEF Mark
            <7> QED BY <7>2, <7>3
          <6> QED BY <6>1, <6>2
        <5> QED BY <5>1, <5>2 DEF Reached
      <4> QED BY <4>1, <4>2
    <3>3. Accounted(StreamMarks[c], missed[q], e)
      BY <1>2, <2>2, <3>1, <3>2 DEF Stepping, StreamInv, QueueComplete, q, n
    <3>4. CASE e \in missed[q]
      BY <1>4, <2>2, <3>4 DEF Accounted, q
    <3>5. ASSUME NEW x \in StreamMarks[c], x.pub = e
          PROVE  e \in missed'[q] \/ \E y \in StreamMarks'[c] : y.pub = e
      <4>1. CASE x \in A
        BY <1>9, <3>5, <4>1
      <4>2. CASE x \notin A
        <5>1. ~ Torn[c] /\ x \in ChanMarks(ch, n)
          BY <1>9, <3>5, <4>2
        <5>2. e = lost \/ \E y \in ChanMarks(Tail(ch), n) : y.pub = e
          BY <1>11, <3>5, <5>1
        <5> QED BY <1>4, <1>9, <5>1, <5>2
      <4> QED BY <4>1, <4>2
    <3> QED BY <2>2, <3>3, <3>4, <3>5 DEF Accounted, q
  <2> QED BY <2>1, <2>2
<1> QED BY <1>7, <1>12, <1>14 DEF StreamInv

----------------------------------------------------------------------------
(* The hub. *)

LEMMA BroadcastStream ==
  ASSUME Stepping, Broadcast
  PROVE  StreamInv'
<1> DEFINE m == EventMsg(published + 1)
           p == published + 1
<1> Given
  BY DEF Stepping
<1>1. /\ index' = {d \in index : HasRoom(d)}
      /\ published' = p
      /\ UNCHANGED <<pc, connectionID, reused, queue, deadQueuePointer, deadQueue, wire,
                     conn, connectionId, serverSequence, view, lastEvent, written>>
  BY DEF Broadcast, networkVars, clientVars
<1>2. PICK reached :
        /\ reached = {queue[c] : c \in {d \in index : HasRoom(d)}}
        /\ send' = [q \in Conns |-> IF q \in reached THEN Append(send[q], m) ELSE send[q]]
  BY DEF Broadcast
<1>3. PICK passed :
        /\ passed = {queue[c] : c \in {d \in Conns : InHandover(d)}}
        /\ missed' = [q \in Conns |-> IF q \in passed THEN missed[q] \cup {p} ELSE missed[q]]
  BY DEF Broadcast
<1>4. published \in Nat /\ p \in Nat /\ published <= p /\ m.pub = p
  BY SteppingTypes DEF EventMsg
<1> HIDE DEF m, p
<1>5. Written' = Written
  BY <1>1 DEF Written
<1>6. \A e \in Holders' : e \in Holders /\ e \in Conns
  BY <1>1 DEF Holders, Holds, Running
<1>7. \A q \in Conns : missed[q] \subseteq missed'[q]
  BY <1>3 DEF Stepping, Given, TypeOK
<1>8. /\ SocketMarks' = SocketMarks /\ ClientMark' = ClientMark
      /\ WireId' = WireId /\ ReadMarks' = ReadMarks
      /\ ViewInv' /\ SocketComplete'
  <2>1. conn # NoConn => /\ wire'[conn] = wire[conn]
                         /\ wire[conn] # <<>> => missed[queue[conn]] \subseteq missed'[queue'[conn]]
    BY <1>1, <1>7 DEF Stepping, Given, TypeOK
  <2>2. published <= published'
    BY <1>1, <1>4
  <2>3. UNCHANGED <<conn, connectionId, serverSequence, view, lastEvent>>
    BY <1>1
  <2> QED BY <2>1, <2>2, <2>3, SameSocket
\* The event goes to the end of the channels of the index that have room.
<1>9. ASSUME NEW d \in Holders
      PROVE  /\ queue[d] \in Conns /\ send[queue[d]] \in Seq(Message)
             /\ queue[d] \in reached <=> d \in index /\ HasRoom(d)
             /\ queue[d] \in passed <=> InHandover(d)
  <2>1. queue[d] \in Conns /\ send[queue[d]] \in Seq(Message) /\ d \in Conns
    BY HoldersAreConns DEF Stepping, Given, TypeOK
  <2>2. \A c \in index : c \in Holders
    BY DEF Stepping, Given, TypeOK, Holders, Holds
  <2>3. \A c \in Conns : InHandover(c) => c \in Holders
    BY DEF InHandover, Holders, Holds
  <2>4. queue[d] \in reached <=> d \in index /\ HasRoom(d)
    BY <1>2, <2>2, OneHolder
  <2>5. queue[d] \in passed <=> InHandover(d)
    BY <1>3, <2>1, <2>3, OneHolder
  <2> QED BY <2>1, <2>4, <2>5
<1>10. ASSUME NEW d \in Holders, ~ (d \in index /\ HasRoom(d))
       PROVE  /\ StreamMarks'[d] = StreamMarks[d] /\ NextMarks'[d] = NextMarks[d]
              /\ Torn'[d] = Torn[d]
  <2>1. /\ deadQueue'[queue'[d]] = deadQueue[queue[d]] /\ send'[queue'[d]] = send[queue[d]]
        /\ Written'[d] = Written[d] /\ connectionID'[d] = connectionID[d]
        /\ connectionId' = connectionId /\ d \in Conns
    BY <1>1, <1>2, <1>5, <1>9, <1>10, HoldersAreConns
  <2> QED BY <1>8, <2>1, SameStream
<1>11. ASSUME NEW d \in Holders, d \in index, HasRoom(d)
       PROVE  \E s \in Nat :
                /\ s # 0 /\ s >= Written[d]
                /\ \A x \in NextMarks[d] : x.seq < s
                /\ NextMarks'[d] = NextMarks[d] \cup {Mark(s, p)}
                /\ Torn'[d] = Torn[d]
                /\ Torn[d] => StreamMarks'[d] = StreamMarks[d]
                /\ ~ Torn[d] => /\ \A x \in StreamMarks[d] : x.seq < s
                                /\ StreamMarks'[d] = StreamMarks[d] \cup {Mark(s, p)}
  <2> DEFINE ch == send[queue[d]]
             n == Written[d]
             s == n + Len(ch)
             sl == SlotMarks(deadQueue[queue[d]], n)
  <2>1. n \in Nat /\ ch \in Seq(Message) /\ d \in Conns
    BY <1>9, <1>11, WrittenIsNat, HoldersAreConns
  <2>2. /\ ChanMarks(Append(ch, m), n) = ChanMarks(ch, n) \cup {Mark(s, p)}
        /\ \A x \in ChanMarks(ch, n) : x.seq < s /\ x.seq >= n
        /\ Len(ch) \in Nat
    <3> HIDE DEF ch, n
    <3> QED BY <1>4, <2>1, ChanAppendMarks
  <2>3. s \in Nat /\ s >= n
    BY <2>1, <2>2
  <2>4. s # 0
    <3>1. CASE n = 0
      <4>1. pc[d] # "checked"
        BY <1>11 DEF Stepping, Given, OwnerInv, IndexedIsStarted, Running
      <4>2. HelloNext(ch)
        BY <1>11, <3>1, <4>1 DEF Stepping, Given, NumberInv, ChanInv
      <4>3. ch # <<>>
        BY <4>2 DEF HelloNext
      <4> HIDE DEF ch, n
      <4>4. Len(ch) # 0
        BY <2>1, <4>3
      <4> QED BY <2>1, <2>2, <4>4
    <3>2. CASE n # 0
      BY <2>1, <2>2, <3>2
    <3> QED BY <3>1, <3>2
  <2>5. /\ deadQueue'[queue'[d]] = deadQueue[queue[d]] /\ send'[queue'[d]] = Append(ch, m)
        /\ Written'[d] = n
    BY <1>1, <1>2, <1>5, <1>9, <1>11
  <2>6. /\ NextMarks[d] = ChanMarks(ch, n) /\ NextMarks'[d] = ChanMarks(Append(ch, m), n)
        /\ Torn[d] = Frayed(deadQueue[queue[d]], n)
        /\ Torn'[d] = Frayed(deadQueue[queue[d]], n)
    BY <2>1, <2>5, StreamParts, StreamPartsNext
  <2>7. /\ QueueMarks[d] = sl \cup (IF Torn[d] THEN {} ELSE NextMarks[d])
        /\ QueueMarks'[d] = sl \cup (IF Torn'[d] THEN {} ELSE NextMarks'[d])
    BY <2>1, <2>5, StreamParts, StreamPartsNext
  <2>8. connectionID'[d] = connectionID[d] /\ connectionId' = connectionId
    BY <1>1
  <2>9. /\ StreamMarks[d] = QueueMarks[d]
                     \cup (IF connectionID[d] = WireId THEN SocketMarks ELSE {})
                     \cup (IF connectionID[d] = connectionId THEN {ClientMark} ELSE {})
        /\ StreamMarks'[d] = QueueMarks'[d]
                     \cup (IF connectionID[d] = WireId THEN SocketMarks ELSE {})
                     \cup (IF connectionID[d] = connectionId THEN {ClientMark} ELSE {})
    BY <1>8, <2>1, <2>8, StreamParts, StreamPartsNext
  <2>10. /\ \A x \in sl : x.seq < n
         /\ connectionID[d] = WireId => \A x \in SocketMarks : x.seq < n
         /\ connectionID[d] = connectionId => ClientMark.seq < n
    BY <1>11, StreamMarksBelow
  <2> HIDE DEF n, s, ch, sl
  <2>11. Torn'[d] = Torn[d] /\ NextMarks'[d] = NextMarks[d] \cup {Mark(s, p)}
    BY <2>2, <2>6
  <2>12. Torn[d] => StreamMarks'[d] = StreamMarks[d]
    BY <2>7, <2>9, <2>11
  <2>13. ~ Torn[d] => StreamMarks'[d] = StreamMarks[d] \cup {Mark(s, p)}
    BY <2>7, <2>9, <2>11
  <2>14. \A x \in NextMarks[d] : x.seq < s
    BY <2>2, <2>6
  <2>15. ASSUME NEW x \in StreamMarks[d] PROVE x.seq < s
    <3>1. x.seq < n \/ x.seq < s
      BY <2>7, <2>9, <2>10, <2>14, <2>15
    <3>2. x.seq \in Int
      BY <1>11, <2>15 DEF Stepping, StreamInv, OrderInv, Ordered
    <3> QED BY <2>1, <2>3, <3>1, <3>2
  <2>16. s >= Written[d]
    BY <2>3 DEF n
  <2> QED BY <2>3, <2>4, <2>11, <2>12, <2>13, <2>14, <2>15, <2>16
<1>12. OrderInv'
  <2>1. ASSUME NEW d \in Holders'
        PROVE  Ordered(StreamMarks'[d], p) /\ Ordered(NextMarks'[d], p)
    <3>1. /\ d \in Holders /\ Ordered(StreamMarks[d], published)
          /\ Ordered(NextMarks[d], published)
      BY <1>6 DEF Stepping, StreamInv, OrderInv
    <3>2. CASE ~ (d \in index /\ HasRoom(d))
      BY <1>4, <1>10, <3>1, <3>2, OrderedSubset
    <3>3. CASE d \in index /\ HasRoom(d)
      <4>1. PICK s \in Nat :
              /\ s # 0
              /\ \A x \in NextMarks[d] : x.seq < s
              /\ NextMarks'[d] = NextMarks[d] \cup {Mark(s, p)}
              /\ Torn[d] => StreamMarks'[d] = StreamMarks[d]
              /\ ~ Torn[d] => /\ \A x \in StreamMarks[d] : x.seq < s
                              /\ StreamMarks'[d] = StreamMarks[d] \cup {Mark(s, p)}
        BY <1>11, <3>1, <3>3
      <4>2. NextMarks'[d] \subseteq NextMarks[d] \cup {Mark(s, published + 1)}
        BY <4>1 DEF p
      <4>3. Ordered(NextMarks'[d], published + 1)
        BY <1>4, <3>1, <4>1, <4>2, OrderedAppend
      <4>4. CASE Torn[d]
        BY <1>4, <3>1, <4>1, <4>3, <4>4, OrderedSubset DEF p
      <4>5. CASE ~ Torn[d]
        <5>1. StreamMarks'[d] \subseteq StreamMarks[d] \cup {Mark(s, published + 1)}
          BY <4>1, <4>5 DEF p
        <5>2. Ordered(StreamMarks'[d], published + 1)
          BY <1>4, <3>1, <4>1, <4>5, <5>1, OrderedAppend
        <5> QED BY <4>3, <5>2 DEF p
      <4> QED BY <4>4, <4>5
    <3> QED BY <3>2, <3>3
  <2>2. Ordered(ReadMarks', p)
    <3>1. Ordered(ReadMarks, published)
      BY DEF Stepping, StreamInv, OrderInv
    <3> QED BY <1>4, <1>8, <3>1, OrderedSubset
  <2> QED BY <1>1, <2>1, <2>2 DEF OrderInv
<1>13. QueueComplete'
  <2> SUFFICES ASSUME NEW d \in Holders', connectionID[d] = connectionId,
                      Kept(StreamMarks'[d], serverSequence, Written[d]),
                      NEW e \in view + 1 .. p, Reached(d, e)'
               PROVE  Accounted(StreamMarks'[d], missed'[queue[d]], e)
    BY <1>1, <1>5 DEF QueueComplete
  <2>1. d \in Holders /\ d \in Conns
    BY <1>6
  <2>2. /\ StreamMarks[d] \subseteq StreamMarks'[d]
        /\ \A x \in StreamMarks'[d] :
             x \in StreamMarks[d] \/ (Open(d) /\ x.pub = p /\ x.seq >= Written[d])
    <3>1. CASE ~ (d \in index /\ HasRoom(d))
      BY <1>10, <2>1, <3>1
    <3>2. CASE d \in index /\ HasRoom(d)
      <4>1. PICK s \in Nat :
              /\ s >= Written[d]
              /\ \/ StreamMarks'[d] = StreamMarks[d]
                 \/ ~ Torn[d] /\ StreamMarks'[d] = StreamMarks[d] \cup {Mark(s, p)}
        BY <1>11, <2>1, <3>2
      <4>2. Mark(s, p).pub = p /\ Mark(s, p).seq = s
        BY DEF Mark
      <4>3. ~ Torn[d] => Open(d)
        BY <3>2 DEF Open
      <4> QED BY <4>1, <4>2, <4>3
    <3> QED BY <3>1, <3>2
  <2>3. Kept(StreamMarks[d], serverSequence, Written[d])
    <3> SUFFICES ASSUME NEW k \in Int, serverSequence <= k, k < Written[d]
                 PROVE  \E x \in StreamMarks[d] : x.seq = k
      BY DEF Kept
    <3>1. PICK x \in StreamMarks'[d] : x.seq = k
      BY DEF Kept
    <3>2. Written[d] \in Nat
      BY <2>1, WrittenIsNat
    <3> QED BY <2>2, <3>1, <3>2
  <2>4. e \in Int /\ view \in Nat /\ view < e /\ e <= p
    BY <1>4, SteppingTypes
  <2>5. Open(d)' => Open(d) /\ (InHandover(d) \/ (d \in index /\ HasRoom(d)))
    <3>1. d \in index' => d \in index /\ HasRoom(d)
      BY <1>1
    <3>2. InHandover(d)' => InHandover(d)
      BY <1>1 DEF InHandover
    <3>3. Torn'[d] = Torn[d]
      BY <1>10, <1>11, <2>1
    <3> QED BY <3>1, <3>2, <3>3 DEF Open
  <2>6. CASE e = p
    <3>1. CASE Open(d) /\ d \in index /\ HasRoom(d)
      <4>1. PICK s \in Nat : StreamMarks'[d] = StreamMarks[d] \cup {Mark(s, p)}
        BY <1>11, <2>1, <3>1 DEF Open
      <4>2. Mark(s, p) \in StreamMarks'[d] /\ Mark(s, p).pub = e
        BY <2>6, <4>1 DEF Mark
      <4> QED BY <4>2 DEF Accounted
    <3>2. CASE InHandover(d)
      <4>1. e \in missed'[queue[d]]
        BY <1>3, <1>9, <2>1, <2>6, <3>2
      <4> QED BY <4>1 DEF Accounted
    <3>3. ASSUME NEW x \in StreamMarks'[d], e < x.pub PROVE FALSE
      <4>1. x.pub \in Nat /\ x.pub <= p
        BY <1>1, <1>12 DEF OrderInv, Ordered
      <4> QED BY <1>4, <2>6, <3>3, <4>1
    <3> QED BY <2>5, <3>1, <3>2, <3>3 DEF Reached
  <2>7. CASE e # p
    <3>1. e \in view + 1 .. published
      BY <1>4, <2>4, <2>7 DEF p
    <3>2. Reached(d, e)
      <4>1. CASE Open(d)'
        BY <2>5, <4>1 DEF Reached
      <4>2. ASSUME NEW x \in StreamMarks'[d], e < x.pub PROVE Reached(d, e)
        BY <2>2, <4>2 DEF Reached
      <4> QED BY <4>1, <4>2 DEF Reached
    <3>3. Accounted(StreamMarks[d], missed[queue[d]], e)
      BY <2>1, <2>3, <3>1, <3>2 DEF Stepping, StreamInv, QueueComplete
    <3> QED BY <1>7, <1>9, <2>1, <2>2, <3>3 DEF Accounted
  <2> QED BY <2>6, <2>7
<1> QED BY <1>8, <1>12, <1>13 DEF StreamInv

----------------------------------------------------------------------------
(* The client. *)

\* The client gives its socket up, or has one at which nothing was written yet.
LEMMA NoSocketStream ==
  ASSUME Stepping, SocketMarks' = {}, WireId' = connectionId,
         Holders' = Holders,
         UNCHANGED <<index, connectionID, reused, queue, deadQueuePointer, send, deadQueue,
                     connectionId, serverSequence, view, lastEvent, published, missed,
                     written>>,
         \A d \in Holders : pc'[d] = pc[d]
  PROVE  StreamInv'
<1>1. Written' = Written
  BY DEF Written
<1>2. ClientMark' = ClientMark /\ ViewInv'
  BY DEF ClientMark, Stepping, StreamInv, ViewInv
<1>3. ASSUME NEW d \in Holders
      PROVE  /\ StreamMarks'[d] \subseteq StreamMarks[d]
             /\ \A x \in StreamMarks[d] : x.seq >= Written'[d] => x \in StreamMarks'[d]
             /\ NextMarks'[d] = NextMarks[d] /\ Torn'[d] = Torn[d]
  <2>1. /\ d \in Conns /\ QueueMarks'[d] = QueueMarks[d]
        /\ NextMarks'[d] = NextMarks[d] /\ Torn'[d] = Torn[d]
    <3>1. /\ deadQueue'[queue'[d]] = deadQueue[queue[d]] /\ send'[queue'[d]] = send[queue[d]]
          /\ Written'[d] = Written[d] /\ d \in Conns
      BY <1>1, HoldersAreConns
    <3> QED BY <3>1, SameQueue
  <2>2. /\ StreamMarks'[d] = QueueMarks[d]
                     \cup (IF connectionID[d] = connectionId THEN {ClientMark} ELSE {})
        /\ StreamMarks[d] = QueueMarks[d]
                     \cup (IF connectionID[d] = WireId THEN SocketMarks ELSE {})
                     \cup (IF connectionID[d] = connectionId THEN {ClientMark} ELSE {})
    BY <1>2, <2>1, StreamParts, StreamPartsNext
  <2>3. /\ connectionID[d] = WireId => \A x \in SocketMarks : x.seq < Written[d]
        /\ Written[d] \in Nat
    BY StreamMarksBelow, WrittenIsNat
  <2>4. \A x \in StreamMarks[d] : x.seq \in Int
    BY DEF Stepping, StreamInv, OrderInv, Ordered
  <2> QED BY <1>1, <2>1, <2>2, <2>3, <2>4
<1>4. OrderInv'
  <2>1. Ordered(ReadMarks', published)
    <3>1. ReadMarks' = {ClientMark}
      BY <1>2 DEF ReadMarks
    <3> QED BY <3>1 DEF Stepping, StreamInv, ViewInv
  <2>2. \A d \in Holders : Ordered(StreamMarks'[d], published) /\ Ordered(NextMarks'[d], published)
    <3>1. published \in Nat
      BY SteppingTypes
    <3>2. \A d \in Holders : Ordered(StreamMarks[d], published) /\ Ordered(NextMarks[d], published)
      BY DEF Stepping, StreamInv, OrderInv
    <3> QED BY <1>3, <3>1, <3>2, OrderedSubset
  <2> QED BY <2>1, <2>2 DEF OrderInv
<1>5. QueueComplete'
  <2>1. ASSUME NEW d \in Holders', connectionID'[d] = connectionId'
        PROVE  /\ d \in Holders /\ connectionID[d] = connectionId
               /\ StreamMarks'[d] \subseteq StreamMarks[d]
               /\ Written[d] <= Written'[d]
               /\ \A x \in StreamMarks[d] : x.seq >= Written'[d] => x \in StreamMarks'[d]
               /\ Open(d)' => Open(d)
               /\ missed'[queue'[d]] = missed[queue[d]]
    <3>1. d \in Holders /\ connectionID[d] = connectionId /\ Written[d] <= Written'[d]
      BY <1>1, <2>1, WrittenIsNat
    <3>2. InHandover(d)' => InHandover(d)
      BY <3>1 DEF InHandover
    <3>3. Open(d)' => Open(d)
      BY <1>3, <3>1, <3>2 DEF Open
    <3> QED BY <1>3, <3>1, <3>3
  <2> QED BY <1>2, <2>1, MoveKeepsAll
<1>6. SocketComplete'
  BY DEF SocketComplete
<1> QED BY <1>2, <1>4, <1>5, <1>6 DEF StreamInv

LEMMA ConnectStream ==
  ASSUME Stepping, Connect
  PROVE  StreamInv'
<1> Given
  BY DEF Stepping
<1>1. PICK c \in Conns :
        /\ pc[c] = "unused"
        /\ conn' = c
        /\ pc' = [pc EXCEPT ![c] = "handshake"]
  BY DEF Connect
<1>2. /\ conn = NoConn
      /\ UNCHANGED <<index, connectionID, reused, queue, deadQueuePointer, send, deadQueue,
                     wire, connectionId, serverSequence, view, lastEvent, published, missed,
                     written>>
  BY DEF Connect, historyVars
<1>3. /\ pc'[c] = "handshake"
      /\ \A e \in Conns : e # c => pc'[e] = pc[e]
  BY <1>1 DEF Stepping, Given, TypeOK
<1>4. Holders' = Holders
  BY <1>1, <1>2, <1>3 DEF Holders, Holds, Running
<1>5. wire'[c] = <<>> /\ c # NoConn
  BY <1>2 DEF Stepping, Given, NumberInv, LinkInv, NoConn, Conns
<1>6. SocketMarks' = {} /\ WireId' = connectionId
  BY <1>1, <1>2, <1>5, EmptyMarks DEF SocketMarks, WireId, StreamOf
<1>7. \A d \in Holders : pc'[d] = pc[d]
  <2>1. c \notin Holders
    BY <1>1, WaitingHoldsNothing DEF Waiting
  <2> QED BY <1>3, <2>1, HoldersAreConns
<1> QED BY <1>1, <1>2, <1>3, <1>4, <1>6, <1>7, NoSocketStream

LEMMA DisconnectStream ==
  ASSUME Stepping, conn # NoConn, Disconnect,
         UNCHANGED <<serverVars, connectionId, serverSequence, view, lastEvent, published, missed,
                     written>>
  PROVE  StreamInv'
<1>1. UNCHANGED <<pc, index, connectionID, reused, queue, deadQueuePointer, send, deadQueue>>
  BY DEF serverVars
<1>2. conn' = NoConn
  BY DEF Disconnect
<1>3. SocketMarks' = {} /\ WireId' = connectionId
  BY <1>2 DEF SocketMarks, WireId
<1>4. Holders' = Holders
  BY <1>1 DEF Holders, Holds, Running
<1> QED BY <1>1, <1>2, <1>3, <1>4, NoSocketStream

\* What reading a message does to the client's socket.
LEMMA ReadMarksStep ==
  ASSUME Stepping, conn # NoConn, wire[conn] # <<>>,
         wire' = [wire EXCEPT ![conn] = Tail(@)], conn' = conn,
         connectionId' = WireId, Head(wire[conn]).seq = Start, serverSequence' = Start + 1
  PROVE  /\ Head(wire[conn]) \in SentMessage
         /\ SocketMarks = {Mark(Head(wire[conn]).seq, Head(wire[conn]).pub)} \cup SocketMarks'
         /\ WireId' = WireId
<1> DEFINE w == wire[conn]
<1>1. conn \in Conns /\ w \in Seq(SentMessage) /\ wire'[conn] = Tail(w) /\ w # <<>>
  BY DEF Stepping, Given, TypeOK
<1>2. HelloFirst(w)
  BY DEF Stepping, Given, NumberInv, WireInv
<1>3. WireId' = StreamOf(Tail(w), WireId)
  BY <1>1 DEF WireId
<1> DEFINE s == Start
<1>4. s \in Nat /\ Head(w).seq = s
  BY StartIsNat
<1>5. SocketMarks = SentMarks(w, s)
  BY DEF SocketMarks
<1>6. SocketMarks' = SentMarks(Tail(w), Start')
  BY <1>1 DEF SocketMarks
<1>7. serverSequence' = s + 1
  OBVIOUS
<1> HIDE DEF w, s
<1>8. Head(w) \in SentMessage
  BY <1>1
<1>9. SentMarks(w, s) = {Mark(Head(w).seq, Head(w).pub)} \cup SentMarks(Tail(w), s + 1)
  BY <1>1, <1>4, SentTailMarks
<1>10. WireId' = WireId
  BY <1>1, <1>2, <1>3, <1>4, SocketTail
<1>11. Start' = s + 1
  BY <1>7, <1>10 DEF Start
<1> QED BY <1>5, <1>6, <1>8, <1>9, <1>10, <1>11 DEF w

\* A message that is read becomes the client's mark.
LEMMA ReadMovesMarks ==
  ASSUME Stepping, conn # NoConn, wire[conn] # <<>>,
         wire' = [wire EXCEPT ![conn] = Tail(@)], conn' = conn,
         connectionId' = WireId, Head(wire[conn]).seq = Start, serverSequence' = Start + 1,
         ClientMark' = Mark(Head(wire[conn]).seq, Head(wire[conn]).pub),
         UNCHANGED <<serverVars, published, written>>
  PROVE  /\ Written' = Written /\ Holders' = Holders
         /\ OrderInv' /\ Ordered({ClientMark'}, published)
         /\ \A d \in Holders :
              /\ Torn'[d] = Torn[d]
              /\ connectionID[d] # connectionId' => StreamMarks'[d] = QueueMarks[d]
              /\ connectionID[d] = connectionId' =>
                   StreamMarks'[d] = QueueMarks[d] \cup SocketMarks
<1>1. /\ SocketMarks = {ClientMark'} \cup SocketMarks'
      /\ WireId' = WireId
  BY ReadMarksStep
<1>2. UNCHANGED <<pc, index, connectionID, reused, queue, deadQueuePointer, send, deadQueue>>
  BY DEF serverVars
<1>3. Written' = Written /\ Holders' = Holders
  BY <1>2 DEF Written, Holders, Holds, Running
<1>4. ASSUME NEW d \in Holders
      PROVE  /\ StreamMarks'[d] = IF connectionID[d] = WireId THEN QueueMarks[d] \cup SocketMarks
                                                              ELSE QueueMarks[d]
             /\ StreamMarks'[d] \subseteq StreamMarks[d]
             /\ NextMarks'[d] = NextMarks[d] /\ Torn'[d] = Torn[d]
  <2>1. /\ d \in Conns /\ QueueMarks'[d] = QueueMarks[d]
        /\ NextMarks'[d] = NextMarks[d] /\ Torn'[d] = Torn[d]
    <3>1. /\ deadQueue'[queue'[d]] = deadQueue[queue[d]] /\ send'[queue'[d]] = send[queue[d]]
          /\ Written'[d] = Written[d] /\ d \in Conns
      BY <1>2, <1>3, HoldersAreConns
    <3> QED BY <3>1, SameQueue
  <2>2. connectionID'[d] = connectionID[d] /\ connectionId' = WireId
    BY <1>2
  <2>3. /\ StreamMarks'[d] = QueueMarks[d]
                     \cup (IF connectionID[d] = WireId THEN SocketMarks' ELSE {})
                     \cup (IF connectionID[d] = WireId THEN {ClientMark'} ELSE {})
        /\ StreamMarks[d] = QueueMarks[d]
                     \cup (IF connectionID[d] = WireId THEN SocketMarks ELSE {})
                     \cup (IF connectionID[d] = connectionId THEN {ClientMark} ELSE {})
    BY <1>1, <2>1, <2>2, StreamParts, StreamPartsNext
  <2> QED BY <1>1, <2>1, <2>3
<1>5. ReadMarks' \subseteq ReadMarks /\ {ClientMark'} \subseteq ReadMarks
  BY <1>1 DEF ReadMarks
<1>6. OrderInv'
  BY <1>3, <1>4, <1>5, MoveKeepsOrder
<1>7. Ordered({ClientMark'}, published)
  <2>1. Ordered(ReadMarks, published) /\ published \in Nat
    BY SteppingTypes DEF Stepping, StreamInv, OrderInv
  <2> QED BY <1>5, <2>1, OrderedSubset
<1> QED BY <1>3, <1>4, <1>6, <1>7

LEMMA OnHelloStream ==
  ASSUME Stepping, OnHello
  PROVE  StreamInv'
<1> Given
  BY DEF Stepping
<1> DEFINE m == Head(wire[conn])
           h == Mark(m.seq, m.pub)
<1>1. /\ conn # NoConn /\ wire[conn] # <<>> /\ m.id # NoId
      /\ connectionId' = m.id
      /\ IF NewStream(m) THEN view' = Refetched /\ lastEvent' = 0
                         ELSE UNCHANGED <<view, lastEvent>>
      /\ \/ m.seq # Expected(m) /\ Disconnect /\ serverSequence' = Expected(m)
         \/ /\ m.seq = Expected(m)
            /\ serverSequence' = m.seq + 1
            /\ wire' = [wire EXCEPT ![conn] = Tail(@)]
            /\ UNCHANGED <<linked, conn>>
      /\ UNCHANGED <<serverVars, published, missed, written>>
  BY DEF OnHello, historyVars
<1>2. WireId = m.id
  BY <1>1 DEF WireId, StreamOf
<1>3. m.seq = 0
  <2>1. wire[conn] \in Seq(SentMessage) /\ HelloFirst(wire[conn])
    BY <1>1 DEF Stepping, Given, TypeOK, NumberInv, WireInv
  <2> QED BY <1>1, <2>1, SocketTail
<1>4. connectionId = NoId <=> serverSequence = 0
  BY DEF Stepping, Given, NumberInv, IdInv
<1>5. published \in Nat
  BY SteppingTypes
<1> HIDE DEF m, h
<1>6. CASE m.seq # Expected(m) /\ Disconnect /\ serverSequence' = Expected(m)
  <2>1. ~ NewStream(m)
    BY <1>3, <1>4, <1>6 DEF Expected
  <2>2. connectionId' = connectionId /\ serverSequence' = serverSequence
    BY <1>1, <1>6, <2>1 DEF Expected, NewStream
  <2> QED BY <1>1, <1>6, <2>1, <2>2, DisconnectStream
<1>7. CASE /\ m.seq = Expected(m)
           /\ serverSequence' = m.seq + 1
           /\ wire' = [wire EXCEPT ![conn] = Tail(@)]
           /\ UNCHANGED <<linked, conn>>
  <2>1. NewStream(m)
    BY <1>1, <1>3, <1>4, <1>7 DEF Expected, NewStream
  <2>2. view' = published /\ lastEvent' = 0 /\ serverSequence' = 1
    BY <1>1, <1>3, <1>7, <2>1 DEF Refetched
  <2> DEFINE s == Start
  <2>0. s = 0 /\ m.seq = s /\ serverSequence' = s + 1
    BY <1>2, <1>3, <2>1, <2>2 DEF Start, NewStream
  <2> HIDE DEF s
  <2>3. /\ SocketMarks = {h} \cup SocketMarks' /\ WireId' = WireId
    BY <1>1, <1>2, <1>7, <2>0, ReadMarksStep DEF h, m, s
  <2>4. h.seq = 0 /\ h = Mark(0, 0)
    <3>1. Ordered(ReadMarks, published) /\ h \in ReadMarks
      BY <2>3 DEF Stepping, StreamInv, OrderInv, ReadMarks
    <3>2. h.seq = m.seq /\ h.pub = m.pub
      BY DEF h, Mark
    <3>3. m.pub = 0
      BY <1>3, <3>1, <3>2 DEF Ordered
    <3> QED BY <1>3, <3>2, <3>3 DEF h
  <2>5. ClientMark' = Mark(0, 0)
    BY <2>2 DEF ClientMark
  <2>6. /\ OrderInv' /\ Ordered({ClientMark'}, published) /\ Written' = Written
    BY <1>1, <1>2, <1>7, <2>0, <2>4, <2>5, ReadMovesMarks DEF h, m, s
  <2>7. ViewInv'
    BY <1>1, <1>5, <2>2, <2>6 DEF ViewInv
  <2>8. QueueComplete'
    <3>1. view' + 1 .. published' = {}
      BY <1>1, <1>5, <2>2
    <3> QED BY <3>1 DEF QueueComplete
  <2>9. SocketComplete'
    <3>1. ASSUME NEW x \in SocketMarks' PROVE view' + 1 .. x.pub - 1 = {}
      <4>1. x.pub \in Nat /\ x.pub <= published
        BY <2>3, <3>1 DEF Stepping, StreamInv, OrderInv, ReadMarks, Ordered
      <4> DEFINE b == x.pub
      <4>2. b \in Nat /\ b <= published /\ view' = published
        BY <2>2, <4>1
      <4> HIDE DEF b
      <4>3. view' + 1 .. b - 1 = {}
        BY <1>5, <4>2
      <4> QED BY <4>3 DEF b
    <3> QED BY <3>1 DEF SocketComplete
  <2> QED BY <2>6, <2>7, <2>8, <2>9 DEF StreamInv
<1> QED BY <1>1, <1>6, <1>7

LEMMA OnEventStream ==
  ASSUME Stepping, OnEvent
  PROVE  StreamInv'
<1> Given
  BY DEF Stepping
<1> DEFINE m == Head(wire[conn])
           h == Mark(m.seq, m.pub)
<1>1. /\ conn # NoConn /\ wire[conn] # <<>> /\ m.id = NoId /\ m.seq = serverSequence
      /\ serverSequence' = m.seq + 1
      /\ lastEvent' = m.pub
      /\ view' = IF m.pub > view THEN m.pub ELSE view
      /\ wire' = [wire EXCEPT ![conn] = Tail(@)]
      /\ UNCHANGED <<serverVars, conn, connectionId, published, missed, written>>
  BY DEF OnEvent, historyVars
<1>2. WireId = connectionId
  BY <1>1 DEF WireId, StreamOf
<1>0. m.seq = Start /\ serverSequence' = Start + 1
  BY <1>1, <1>2 DEF Start
<1>3. /\ SocketMarks = {h} \cup SocketMarks' /\ WireId' = WireId
      /\ m \in SentMessage
  BY <1>0, <1>1, <1>2, ReadMarksStep
<1> HIDE DEF m, h
<1>4. h.seq = serverSequence /\ h.pub = m.pub /\ m.pub \in Nat /\ m.seq \in Nat
  BY <1>1, <1>3, MaxEventsAssumption DEF h, Mark, SentMessage
<1>5. ClientMark' = h
  <2>1. serverSequence' - 1 = m.seq
    BY <1>1, <1>4
  <2> QED BY <1>1, <2>1 DEF ClientMark, h
<1>6. /\ Written' = Written /\ Holders' = Holders
      /\ OrderInv' /\ Ordered({ClientMark'}, published)
      /\ \A d \in Holders :
           /\ Torn'[d] = Torn[d]
           /\ connectionID[d] # connectionId => StreamMarks'[d] = QueueMarks[d]
           /\ connectionID[d] = connectionId => StreamMarks'[d] = QueueMarks[d] \cup SocketMarks
  BY <1>0, <1>1, <1>2, <1>5, ReadMovesMarks DEF h, m
<1>7. view <= view' /\ lastEvent' <= view' /\ view' \in Nat /\ view \in Nat /\ m.pub <= view'
  BY <1>1, <1>4, SteppingTypes
<1>8. ViewInv'
  BY <1>1, <1>6, <1>7 DEF ViewInv
<1>9. QueueComplete'
  <2>1. ASSUME NEW d \in Holders', connectionID'[d] = connectionId'
        PROVE  /\ d \in Holders /\ connectionID[d] = connectionId
               /\ StreamMarks'[d] \subseteq StreamMarks[d]
               /\ Kept(StreamMarks[d], serverSequence, serverSequence')
               /\ Written[d] <= Written'[d]
               /\ \A x \in StreamMarks[d] : x.seq >= Written'[d] => x \in StreamMarks'[d]
               /\ Open(d)' => Open(d)
               /\ missed'[queue'[d]] = missed[queue[d]]
    <3>1. d \in Holders /\ d \in Conns /\ connectionID[d] = connectionId
      BY <1>1, <1>6, <2>1, HoldersAreConns DEF serverVars
    <3>2. /\ StreamMarks[d] = QueueMarks[d] \cup SocketMarks \cup {ClientMark}
          /\ StreamMarks'[d] = QueueMarks[d] \cup SocketMarks
      BY <1>2, <1>6, <3>1, StreamParts
    <3>3. h \in StreamMarks[d] /\ StreamMarks'[d] \subseteq StreamMarks[d]
      BY <1>3, <3>2
    <3>4. Kept(StreamMarks[d], serverSequence, serverSequence')
      <4> SUFFICES ASSUME NEW k \in Int, serverSequence <= k, k < serverSequence'
                   PROVE  \E x \in StreamMarks[d] : x.seq = k
        BY DEF Kept
      <4>1. k = serverSequence
        BY <1>1, <1>4
      <4> QED BY <1>4, <3>3, <4>1
    <3>5. ClientMark.seq < Written[d] /\ Written[d] \in Nat
      BY <3>1, StreamMarksBelow, WrittenIsNat
    <3>6. \A x \in StreamMarks[d] : x.seq >= Written'[d] => x \in StreamMarks'[d]
      <4>1. ~ ClientMark.seq >= Written[d]
        <5>1. ClientMark.seq \in Int
          BY SteppingTypes DEF ClientMark, Mark
        <5> QED BY <3>5, <5>1
      <4> QED BY <1>6, <3>2, <4>1
    <3>7. Open(d)' => Open(d)
      BY <1>1, <1>6, <3>1 DEF Open, InHandover, serverVars
    <3>8. missed'[queue'[d]] = missed[queue[d]] /\ Written[d] <= Written'[d]
      BY <1>1, <1>6, <3>5 DEF serverVars
    <3> QED BY <3>1, <3>3, <3>4, <3>6, <3>7, <3>8
  <2>2. serverSequence <= serverSequence' /\ published' = published
    BY <1>1, <1>4
  <2> QED BY <1>7, <1>8, <2>1, <2>2, MoveKeepsQueues
<1>10. SocketComplete'
  <2> SUFFICES ASSUME NEW x \in SocketMarks', NEW e \in view' + 1 .. x.pub - 1
               PROVE  Accounted(SocketMarks', missed[queue[conn]], e)
    BY <1>1 DEF SocketComplete, serverVars
  <2>1. x \in SocketMarks /\ e \in view + 1 .. x.pub - 1 /\ e > m.pub /\ e \in Int
    <3> DEFINE b == x.pub
               v == view'
    <3>1. b \in Nat /\ v \in Nat /\ e \in v + 1 .. b - 1 /\ view <= v /\ m.pub <= v
      BY <1>3, <1>7 DEF Stepping, StreamInv, OrderInv, ReadMarks, Ordered
    <3> HIDE DEF b, v
    <3>2. e \in Int /\ e > v /\ e <= b - 1
      BY <3>1
    <3>3. e \in view + 1 .. b - 1
      BY <1>7, <3>1, <3>2
    <3>4. e > m.pub
      BY <1>4, <3>1, <3>2
    <3> QED BY <1>3, <3>2, <3>3, <3>4 DEF b
  <2>2. Accounted(SocketMarks, missed[queue[conn]], e)
    BY <1>1, <1>2, <2>1 DEF Stepping, StreamInv, SocketComplete
  <2>3. h.pub # e
    BY <1>4, <2>1
  <2> QED BY <1>3, <2>2, <2>3 DEF Accounted
<1> QED BY <1>6, <1>8, <1>9, <1>10 DEF StreamInv

----------------------------------------------------------------------------
(* The whole. *)

LEMMA InitStreamInv == Init => StreamInv
<1> SUFFICES ASSUME Init PROVE StreamInv
  OBVIOUS
<1>1. /\ Holders = {} /\ conn = NoConn /\ view = 0 /\ lastEvent = 0
      /\ serverSequence = 0 /\ published = 0
  BY DEF Init, Holders, Holds, Running
<1>2. ClientMark.seq = 0 - 1 /\ ClientMark.pub = 0
  BY <1>1 DEF ClientMark, Mark
<1>3. \A S : S \subseteq {ClientMark} => Ordered(S, published)
  BY <1>1, <1>2 DEF Ordered
<1>4. ReadMarks \subseteq {ClientMark}
  BY <1>1 DEF ReadMarks, SocketMarks
<1>5. OrderInv /\ ViewInv
  BY <1>1, <1>3, <1>4 DEF OrderInv, ViewInv
<1>6. QueueComplete /\ SocketComplete
  BY <1>1 DEF QueueComplete, SocketComplete
<1> QED BY <1>5, <1>6 DEF StreamInv

LEMMA NextStreamInv ==
  ASSUME OwnerInv, TypeOK, NumberInv, StreamInv, [Next]_vars, TypeOK'
  PROVE  StreamInv'
<1>1. Stepping
  BY NextNumberInv DEF Stepping, Given
<1>2. ASSUME NEW c \in Conns, FreshConn(c) PROVE StreamInv'
  BY <1>1, <1>2, FreshConnStream
<1>3. ASSUME NEW c \in Conns, ResumeConn(c) PROVE StreamInv'
  BY <1>1, <1>3, ResumeConnStream
<1>4. ASSUME NEW c \in Conns, Register(c) PROVE StreamInv'
  BY <1>1, <1>4, RegisterStream
<1>5. ASSUME NEW c \in Conns, StartPump(c) PROVE StreamInv'
  BY <1>1, <1>5, StartPumpStream
<1>6. ASSUME NEW c \in Conns, PumpMessage(c) PROVE StreamInv'
  BY <1>1, <1>6, PumpMessageStream
<1>7. ASSUME NEW c \in Conns,
             RegisterFails(c) \/ PumpClosed(c) \/ PumpEnd(c) \/ Unregister(c)
      PROVE  StreamInv'
  <2>1. /\ pc[c] = "checked" \/ Running(c)
        /\ pc' = [pc EXCEPT ![c] = "ended"] \/ pc' = [pc EXCEPT ![c] = "gone"]
        /\ Running(c)' => Running(c)
        /\ UNCHANGED <<index, reused, connectionID, queue, deadQueuePointer, send, deadQueue,
                       wire, conn, connectionId, serverSequence, view, lastEvent, published,
                       missed, written>>
    BY <1>7 DEF RegisterFails, PumpClosed, PumpEnd, Unregister, Running, networkVars,
                clientVars, historyVars, TypeOK
  <2>2. pc'[c] \in {"ended", "gone"} /\ \A e \in Conns : e # c => pc'[e] = pc[e]
    BY <2>1 DEF TypeOK
  <2>3. \A e \in Holders' : e \in Holders
    BY <2>1, <2>2 DEF Holders, Holds, Running
  <2>4. \A e \in Conns : InHandover(e)' => InHandover(e)
    BY <2>1, <2>2 DEF InHandover
  <2> QED BY <1>1, <2>1, <2>3, <2>4, WeakerKeepsStream
<1>8. CASE Reap \/ HubPanic \/ Break \/ UNCHANGED vars
  <2>1. /\ index' \subseteq index
        /\ UNCHANGED <<pc, reused, connectionID, queue, deadQueuePointer, send, deadQueue,
                       wire, conn, connectionId, serverSequence, view, lastEvent, published,
                       missed, written>>
    BY <1>8 DEF Reap, HubPanic, Break, vars, serverVars, networkVars, clientVars, historyVars
  <2>2. \A e \in Holders' : e \in Holders
    BY <2>1 DEF Holders, Holds, Running
  <2>3. \A e \in Conns : InHandover(e)' => InHandover(e)
    BY <2>1 DEF InHandover
  <2> QED BY <1>1, <2>1, <2>2, <2>3, WeakerKeepsStream
<1>9. CASE ServerRestart
  <2>1. /\ index' = {}
        /\ \A e \in Conns : pc'[e] \in {"unused", "gone"}
        /\ UNCHANGED <<reused, connectionID, queue, deadQueuePointer, send, deadQueue,
                       wire, conn, connectionId, serverSequence, view, lastEvent, published,
                       missed, written>>
    BY <1>9 DEF ServerRestart, clientVars
  <2>2. \A e \in Holders' : e \in Holders
    BY <2>1 DEF Holders, Holds, Running
  <2>3. \A e \in Conns : InHandover(e)' => InHandover(e)
    BY <2>1 DEF InHandover
  <2>4. index' \subseteq index
    BY <2>1
  <2> QED BY <1>1, <2>1, <2>2, <2>3, <2>4, WeakerKeepsStream
<1>10. CASE Broadcast
  BY <1>1, <1>10, BroadcastStream
<1>11. CASE Connect
  BY <1>1, <1>11, ConnectStream
<1>12. CASE OnClose \/ PingTimeout \/ OnWrongSequence
  <2>1. /\ conn # NoConn /\ Disconnect
        /\ UNCHANGED <<serverVars, connectionId, serverSequence, view, lastEvent, published,
                       missed, written>>
    BY <1>12 DEF OnClose, PingTimeout, OnWrongSequence, historyVars
  <2> QED BY <1>1, <2>1, DisconnectStream
<1>13. CASE OnHello
  BY <1>1, <1>13, OnHelloStream
<1>14. CASE OnEvent
  BY <1>1, <1>14, OnEventStream
<1>15. ASSUME NEW c \in Conns, PumpEncodeError(c) PROVE StreamInv'
  BY <1>1, <1>15, PumpEncodeErrorStream
<1> QED
  BY <1>2, <1>3, <1>4, <1>5, <1>6, <1>7, <1>8, <1>9, <1>10, <1>11, <1>12, <1>13, <1>14, <1>15
     DEF Next, Handler, Client, Failures

IInv == OwnerInv /\ TypeOK /\ NumberInv /\ StreamInv

LEMMA InitIInv == Init => IInv
  BY InitOwnerInv, InitTypeOK, InitNumberInv, InitStreamInv DEF IInv

LEMMA NextIInv ==
  ASSUME IInv, [Next]_vars
  PROVE  IInv'
<1>1. OwnerInv' /\ TypeOK'
  BY NextOwnerInv, NextTypeOK DEF IInv
<1>2. NumberInv'
  BY <1>1, NextNumberInv DEF IInv
<1>3. StreamInv'
  BY <1>1, NextStreamInv DEF IInv
<1> QED BY <1>1, <1>2, <1>3 DEF IInv

\* The event that is read is the one after the client's last, up to lost ones.
LEMMA EventInOrder ==
  ASSUME IInv, OnEvent
  PROVE  /\ lastEvent' > lastEvent
         /\ lastEvent' \in 1 .. published
         /\ (view + 1 .. lastEvent' - 1) \subseteq missed[queue[conn]]
<1> DEFINE m == Head(wire[conn])
           h == Mark(m.seq, m.pub)
           k == ClientMark
<1>1. /\ conn # NoConn /\ wire[conn] # <<>> /\ m.id = NoId /\ m.seq = serverSequence
      /\ lastEvent' = m.pub
  BY DEF OnEvent
<1>2. wire[conn] \in Seq(SentMessage)
  BY <1>1 DEF IInv, TypeOK
<1>3. m \in SentMessage
  BY <1>1, <1>2
<1>4. WireId = connectionId
  BY <1>1 DEF WireId, StreamOf
<1>5. h \in SocketMarks
  <2> DEFINE s == Start
             w == wire[conn]
  <2>1. s \in Nat /\ Head(w).seq = s /\ w \in Seq(SentMessage) /\ w # <<>>
    <3>1. serverSequence \in Nat
      BY DEF IInv, TypeOK
    <3>2. s = serverSequence
      BY <1>4 DEF Start
    <3> HIDE DEF s
    <3> QED BY <1>1, <1>2, <3>1, <3>2
  <2>2. SocketMarks = SentMarks(w, s)
    BY <1>1 DEF SocketMarks
  <2>3. h = Mark(s, Head(w).pub)
    BY <2>1
  <2> HIDE DEF h, s, w
  <2>4. SentMarks(w, s) = {Mark(s, Head(w).pub)} \cup SentMarks(Tail(w), s + 1)
    BY <2>1, SentTailMarks
  <2> QED BY <2>2, <2>3, <2>4
<1>6. /\ h.seq = serverSequence /\ h.pub = lastEvent' /\ serverSequence \in Nat
      /\ k.seq = serverSequence - 1 /\ k.pub = lastEvent
      /\ lastEvent \in Nat /\ lastEvent' \in Nat /\ view \in Nat /\ published \in Nat
      /\ lastEvent <= view
  BY <1>1, <1>3, MaxEventsAssumption DEF Mark, ClientMark, SentMessage, IInv, TypeOK, StreamInv,
                                         ViewInv
<1>7. /\ SocketMarks \subseteq ReadMarks /\ k \in ReadMarks
      /\ Ordered(ReadMarks, published)
  BY <1>4 DEF ReadMarks, IInv, StreamInv, OrderInv
<1> HIDE DEF m, h, k
<1>8. lastEvent' > lastEvent
  <2>1. k.seq < h.seq <=> k.pub < h.pub
    BY <1>5, <1>7 DEF Ordered
  <2> QED BY <1>6, <2>1
<1>9. lastEvent' <= published
  BY <1>5, <1>6, <1>7 DEF Ordered
<1>10. ASSUME NEW e \in view + 1 .. lastEvent' - 1
       PROVE  e \in missed[queue[conn]]
  <2> DEFINE l == lastEvent'
  <2>1. e \in view + 1 .. l - 1 /\ l \in Nat
    BY <1>6
  <2> HIDE DEF l
  <2>2. e \in Int /\ view < e /\ e < l
    BY <1>6, <2>1
  <2>3. Accounted(SocketMarks, missed[queue[conn]], e)
    BY <1>1, <1>4, <1>5, <1>6 DEF IInv, StreamInv, SocketComplete
  <2>4. ASSUME NEW y \in SocketMarks, y.pub = e PROVE FALSE
    <3>1. /\ y.seq \in Int
          /\ k.seq < y.seq <=> k.pub < y.pub
          /\ y.seq < h.seq <=> y.pub < h.pub
      BY <1>5, <1>7 DEF Ordered
    <3>2. k.pub < y.pub /\ y.pub < h.pub
      BY <1>6, <2>2, <2>4 DEF l
    <3> QED BY <1>6, <3>1, <3>2
  <2> QED BY <2>3, <2>4 DEF Accounted
<1>11. lastEvent' \in 1 .. published
  BY <1>6, <1>8, <1>9
<1>12. (view + 1 .. lastEvent' - 1) \subseteq missed[queue[conn]]
  BY <1>10
<1> QED BY <1>8, <1>11, <1>12

----------------------------------------------------------------------------
(* The theorems. *)

\* Under one connection ID, onmessage gets the events in the order of their
\* publication and none twice, over any number of reconnects and replays.
THEOREM InOrderOnceTheorem ==
  Spec => InOrderOnce
<1>1. IInv /\ [Next]_vars => IInv'
  BY NextIInv
<1>2. IInv /\ [Next]_vars => [OnEvent => lastEvent' > lastEvent]_vars
  BY EventInOrder
<1> QED BY InitIInv, <1>1, <1>2, PTL DEF Spec, InOrderOnce

\* onmessage passes over an event that the client lacks only if the event was
\* published while the client's queue was between CheckConn and the hub's register,
\* or could not be encoded by writePump.
THEOREM NoSilentLossTheorem ==
  Spec => NoSilentLoss
<1>1. IInv /\ [Next]_vars => IInv'
  BY NextIInv
<1>2. IInv /\ [Next]_vars => [OnEvent => (view + 1 .. view' - 1) \subseteq missed[queue[conn]]]_vars
  <2> SUFFICES ASSUME IInv, OnEvent
               PROVE  (view + 1 .. view' - 1) \subseteq missed[queue[conn]]
    OBVIOUS
  <2>1. (view + 1 .. lastEvent' - 1) \subseteq missed[queue[conn]]
    BY EventInOrder
  <2>2. view' = lastEvent' \/ view' = view
    BY DEF OnEvent
  <2>3. view \in Nat
    BY DEF IInv, TypeOK
  <2> QED BY <2>1, <2>2, <2>3
<1> QED BY InitIInv, <1>1, <1>2, PTL DEF Spec, NoSilentLoss

\* What cannot be encoded is an event that was published.
LEMMA EncodedWasPublished ==
  ASSUME IInv, NEW c \in Conns, PumpEncodeError(c)
  PROVE  Head(send[queue[c]]).pub \in 1 .. published
<1> DEFINE q == queue[c]
           ch == send[q]
           n == Written[c]
           p == Head(ch).pub
<1>1. /\ pc[c] = "pump" /\ ch # <<>>
      /\ missed' = [missed EXCEPT ![q] = @ \cup {p}]
  BY DEF PumpEncodeError
<1>2. c \in Holders /\ q \in Conns /\ ch \in Seq(Message) /\ published \in Nat
  BY <1>1 DEF Holders, Holds, Running, IInv, TypeOK
<1>3. p \in 1 .. MaxEvents
  <2>1. TypeOK'
    <3>1. [Next]_vars
      BY DEF Next, Failures
    <3> QED BY <3>1, NextTypeOK DEF IInv
  <2>2. p \in missed'[q] /\ missed'[q] \subseteq 1 .. MaxEvents
    <3> HIDE DEF p, q
    <3> QED BY <1>1, <1>2, <2>1 DEF IInv, TypeOK
  <2> QED BY <2>2
<1>4. p <= published
  <2>1. Ordered(NextMarks[c], published)
    BY <1>2 DEF IInv, StreamInv, OrderInv
  <2>2. NextMarks[c] = ChanMarks(ch, n)
    BY StreamParts
  <2>3. 1 \in DOMAIN ch /\ ch[1].pub = p
    <3> HIDE DEF ch
    <3> QED BY <1>1, <1>2
  <2>4. Mark(n + 1 - 1, p) \in NextMarks[c]
    BY <2>2, <2>3 DEF ChanMarks
  <2>5. Mark(n + 1 - 1, p).pub = p
    BY DEF Mark
  <2> QED BY <2>1, <2>4, <2>5 DEF Ordered
<1> QED BY <1>2, <1>3, <1>4

LEMMA StepImplementsStream ==
  ASSUME IInv, [Next]_vars
  PROVE  [Stream!Next]_(Stream!vars)
<1>1. TypeOK
  BY DEF IInv
<1>2. ASSUME UNCHANGED <<published, view, missed>> PROVE [Stream!Next]_(Stream!vars)
  BY <1>2 DEF Stream!vars
<1>3. ASSUME NEW c \in Conns, Handler(c) PROVE UNCHANGED <<published, view, missed>>
  BY <1>3 DEF Handler, FreshConn, ResumeConn, Register, StartPump, PumpMessage, PumpClosed,
              PumpEnd, Unregister, clientVars, historyVars
<1>4. ASSUME NEW c \in Conns, RegisterFails(c) PROVE UNCHANGED <<published, view, missed>>
  BY <1>4 DEF RegisterFails, clientVars
<1>5. CASE Reap \/ HubPanic \/ ServerRestart \/ Break \/ UNCHANGED vars
  <2>1. UNCHANGED <<published, view, missed>>
    BY <1>5 DEF Reap, HubPanic, ServerRestart, Break, vars, clientVars, historyVars
  <2> QED BY <1>2, <2>1
<1>6. CASE Connect \/ OnClose \/ PingTimeout \/ OnWrongSequence
  <2>1. UNCHANGED <<published, view, missed>>
    BY <1>6 DEF Connect, OnClose, PingTimeout, OnWrongSequence, historyVars
  <2> QED BY <1>2, <2>1
<1>7. CASE Broadcast
  <2>1. published < MaxEvents /\ published' = published + 1 /\ view' = view
    BY <1>7 DEF Broadcast, clientVars
  <2>2. PICK passed :
          missed' = [q \in Conns |-> IF q \in passed THEN missed[q] \cup {published + 1}
                                                     ELSE missed[q]]
    BY <1>7 DEF Broadcast
  <2>3. \A q \in Conns : missed'[q] = IF q \in passed THEN missed[q] \cup {published + 1}
                                                      ELSE missed[q]
    BY <2>2
  <2>4. (UNION {missed'[q] : q \in Conns})
          \in {UNION {missed[q] : q \in Conns},
               (UNION {missed[q] : q \in Conns}) \cup {published + 1}}
    <3>1. CASE \E q \in Conns : q \in passed
      <4> DEFINE p == published + 1
      <4>1. \A q \in Conns : missed'[q] = IF q \in passed THEN missed[q] \cup {p} ELSE missed[q]
        BY <2>3
      <4> HIDE DEF p
      <4>2. (UNION {missed'[q] : q \in Conns}) = (UNION {missed[q] : q \in Conns}) \cup {p}
        <5>1. p \in UNION {missed'[q] : q \in Conns}
          BY <3>1, <4>1
        <5>2. \A e : e # p => (e \in UNION {missed'[q] : q \in Conns}
                               <=> e \in UNION {missed[q] : q \in Conns})
          BY <4>1
        <5> QED BY <5>1, <5>2
      <4> QED BY <4>2 DEF p
    <3>2. CASE \A q \in Conns : q \notin passed
      BY <2>3, <3>2
    <3> QED BY <3>1, <3>2
  <2> QED BY <2>1, <2>4 DEF Stream!Next, Stream!Publish
<1>8. CASE OnHello
  <2>1. UNCHANGED <<published, missed>> /\ (view' = view \/ view' = published)
    BY <1>8 DEF OnHello, Refetched, historyVars
  <2>2. CASE view' = published
    BY <2>1, <2>2 DEF Stream!Next, Stream!Resync
  <2>3. CASE view' = view
    BY <1>2, <2>1, <2>3
  <2> QED BY <2>1, <2>2, <2>3
<1>9. CASE OnEvent
  <2> DEFINE l == lastEvent'
  <2>1. /\ UNCHANGED <<published, missed>> /\ conn \in Conns
        /\ view' = IF l > view THEN l ELSE view
    <3>1. conn # NoConn
      BY <1>9 DEF OnEvent
    <3> QED BY <1>1, <1>9, <3>1 DEF OnEvent, historyVars, TypeOK
  <2>2. l \in 1 .. published /\ (view + 1 .. l - 1) \subseteq missed[queue[conn]]
    BY <1>9, EventInOrder
  <2> HIDE DEF l
  <2>3. queue[conn] \in Conns /\ published \in 0 .. MaxEvents
    BY <1>1, <2>1 DEF TypeOK
  <2>4. Stream!Deliver(l)
    <3>1. missed[queue[conn]] \subseteq UNION {missed[q] : q \in Conns}
      BY <2>3
    <3>2. missed' = missed /\ published' = published
      BY <2>1
    <3> QED BY <2>1, <2>2, <3>1, <3>2 DEF Stream!Deliver
  <2>5. l \in 1 .. MaxEvents
    BY <2>2, <2>3, MaxEventsAssumption
  <2> QED BY <2>4, <2>5 DEF Stream!Next
<1>10. ASSUME NEW c \in Conns, PumpEncodeError(c) PROVE [Stream!Next]_(Stream!vars)
  <2> DEFINE q == queue[c]
             p == Head(send[q]).pub
  <2>1. /\ q \in Conns /\ send[q] # <<>> /\ Head(send[q]).id = NoId
        /\ missed' = [missed EXCEPT ![q] = @ \cup {p}]
        /\ UNCHANGED <<published, view>>
    BY <1>1, <1>10 DEF PumpEncodeError, clientVars, TypeOK
  <2>2. p \in 1 .. published
    BY <1>10, EncodedWasPublished
  <2> HIDE DEF q, p
  <2>3. (UNION {missed'[d] : d \in Conns}) = (UNION {missed[d] : d \in Conns}) \cup {p}
    <3>1. \A d \in Conns : missed'[d] = IF d = q THEN missed[d] \cup {p} ELSE missed[d]
      BY <1>1, <2>1 DEF TypeOK
    <3>2. p \in UNION {missed'[d] : d \in Conns}
      BY <2>1, <3>1
    <3>3. \A e : e # p => (e \in UNION {missed'[d] : d \in Conns}
                           <=> e \in UNION {missed[d] : d \in Conns})
      BY <3>1
    <3> QED BY <3>2, <3>3
  <2>4. p \in 1 .. MaxEvents
    BY <1>1, <2>2, MaxEventsAssumption DEF TypeOK
  <2> QED BY <2>1, <2>2, <2>3, <2>4 DEF Stream!Next, Stream!Lose
<1> QED
  BY <1>2, <1>3, <1>4, <1>5, <1>6, <1>7, <1>8, <1>9, <1>10 DEF Next, Client, Failures

\* To the application the websocket is an event stream: events come in the order
\* of their publication, one after the other up to lost ones, or it is resynced.
THEOREM EventStreamTheorem ==
  Spec => ImplementsEventStream
<1>1. Init => Stream!Init
  <2> SUFFICES ASSUME Init PROVE Stream!Init
    OBVIOUS
  <2>1. published = 0 /\ view = 0 /\ \A q \in Conns : missed[q] = {}
    BY DEF Init
  <2>2. UNION {missed[q] : q \in Conns} = {}
    BY <2>1
  <2> QED BY <2>1, <2>2 DEF Stream!Init
<1>2. IInv /\ [Next]_vars => IInv'
  BY NextIInv
<1>3. IInv /\ [Next]_vars => [Stream!Next]_(Stream!vars)
  BY StepImplementsStream
<1> QED BY InitIInv, <1>1, <1>2, <1>3, PTL DEF Spec, ImplementsEventStream, Stream!Spec
=============================================================================
