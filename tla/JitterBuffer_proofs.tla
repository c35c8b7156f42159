-------------------------- MODULE JitterBuffer_proofs --------------------------
(***************************************************************************)
(* Proofs about JitterBuffer, for any set of streams and timestamps and    *)
(* any number of packets.  The inductive invariant IInv adds to the        *)
(* invariants of JitterBuffer that node numbers are unique and that a      *)
(* stream's queued and delivered timestamps are bounded by its newest one. *)
(***************************************************************************)
EXTENDS JitterBuffer, SequenceTheorems, WellFoundedInduction, TLAPS

(* Every node has a number of its own, given out in order of arrival. *)
IdsUnique ==
    /\ \A i, j \in DOMAIN packet_buffer :
          packet_buffer[i].id = packet_buffer[j].id => i = j
    /\ \A i \in DOMAIN packet_buffer : packet_buffer[i].id <= added
    /\ \A i \in DOMAIN out : out[i].id <= added

(* A monotone stream's queued packets are no newer than its newest. *)
NewestBounds ==
    monotone => \A i \in DOMAIN packet_buffer :
                    packet_buffer[i].pts <= newest[packet_buffer[i].type]

IInv == /\ TypeOK
        /\ PointersConsistent
        /\ IdsUnique
        /\ StreamFIFO
        /\ SortedWhileMonotone
        /\ NewestBounds

(* What InsertAt does: the elements before place k stay, x is at k, and the *)
(* elements from k on move up by one.  It is the shape of the list after    *)
(* interleave_add_packet linked a node.                                     *)
LEMMA InsertAtProperties ==
    ASSUME NEW S, NEW q \in Seq(S), NEW k \in 1..(Len(q) + 1), NEW x \in S
    PROVE  /\ InsertAt(q, k, x) \in Seq(S)
           /\ Len(InsertAt(q, k, x)) = Len(q) + 1
           /\ \A j \in 1..(Len(q) + 1) :
                 InsertAt(q, k, x)[j] = IF j < k THEN q[j]
                                        ELSE IF j = k THEN x ELSE q[j - 1]
<1> DEFINE a == SubSeq(q, 1, k - 1)
           c == SubSeq(q, k, Len(q))
           ax == a \o <<x>>
<1>1. /\ a \in Seq(S)
      /\ Len(a) = k - 1
      /\ \A j \in 1..(k - 1) : a[j] = q[j]
  OBVIOUS
<1>2. /\ c \in Seq(S)
      /\ Len(c) = Len(q) - k + 1
      /\ \A j \in 1..(Len(q) - k + 1) : c[j] = q[k + j - 1]
  OBVIOUS
<1> HIDE DEF a, c
<1>3. /\ ax \in Seq(S)
      /\ Len(ax) = k
      /\ \A j \in 1..k : ax[j] = IF j < k THEN a[j] ELSE x
  BY <1>1
<1> HIDE DEF ax
<1>4. /\ ax \o c \in Seq(S)
      /\ Len(ax \o c) = Len(ax) + Len(c)
      /\ \A j \in 1..(Len(ax) + Len(c)) :
            (ax \o c)[j] = IF j <= Len(ax) THEN ax[j] ELSE c[j - Len(ax)]
  BY <1>2, <1>3, ConcatProperties
<1>5. InsertAt(q, k, x) = ax \o c
  BY DEF InsertAt, ax, a, c
<1>6. Len(ax) + Len(c) = Len(q) + 1
  BY <1>2, <1>3
<1>7. ASSUME NEW j \in 1..(Len(q) + 1)
      PROVE  (ax \o c)[j] = IF j < k THEN q[j]
                            ELSE IF j = k THEN x ELSE q[j - 1]
  <2>1. CASE j <= k
    BY <1>1, <1>3, <1>4, <1>6, <2>1
  <2>2. CASE j > k
    <3>1. (ax \o c)[j] = c[j - k]
      BY <1>3, <1>4, <1>6, <2>2
    <3>2. j - k \in 1..(Len(q) - k + 1) /\ k + (j - k) - 1 = j - 1
      BY <2>2
    <3>3. c[j - k] = q[k + (j - k) - 1]
      BY <1>2, <3>2
    <3>4. QED
      BY <2>2, <3>1, <3>2, <3>3
  <2>3. j <= k \/ j > k
    OBVIOUS
  <2>4. QED
    BY <2>1, <2>2, <2>3, Zenon
<1>8. QED
  BY <1>4, <1>5, <1>6, <1>7

(* Identifiers being unique, Index finds the place a node is at. *)
LEMMA IndexOfNode ==
    ASSUME IdsUnique, NEW i \in DOMAIN packet_buffer
    PROVE  Index(packet_buffer[i].id) = i
  BY DEF IdsUnique, Index

(* What the type invariant says of the list, spelled out for the provers. *)
LEMMA BufferTypes ==
    ASSUME TypeOK
    PROVE  /\ Len(packet_buffer) \in Nat
           /\ DOMAIN packet_buffer = 1..Len(packet_buffer)
           /\ \A i \in 1..Len(packet_buffer) :
                 /\ packet_buffer[i] \in Node
                 /\ packet_buffer[i].id \in 1..MaxPackets
                 /\ packet_buffer[i].type \in Stream
                 /\ packet_buffer[i].pts \in Pts
                 /\ packet_buffer[i].pts \in Nat
<1>1. packet_buffer \in Seq(Node)
  BY DEF TypeOK
<1>2. \A i \in 1..Len(packet_buffer) : packet_buffer[i] \in Node
  BY <1>1
<1>3. \A n \in Node : /\ n.id \in 1..MaxPackets
                     /\ n.type \in Stream
                     /\ n.pts \in Pts
                     /\ n.pts \in Nat
  BY PtsAssumption DEF Node
<1>4. /\ Len(packet_buffer) \in Nat
      /\ DOMAIN packet_buffer = 1..Len(packet_buffer)
  BY <1>1
<1>5. QED
  BY <1>2, <1>3, <1>4, Zenon

(* What the type invariant says of the packets already given to packet_cb. *)
LEMMA OutTypes ==
    ASSUME TypeOK
    PROVE  /\ Len(out) \in Nat
           /\ DOMAIN out = 1..Len(out)
           /\ \A i \in 1..Len(out) : /\ out[i].id \in Nat
                                     /\ out[i].type \in Stream
                                     /\ out[i].pts \in Nat
<1>1. out \in Seq(Output)
  BY DEF TypeOK
<1>2. \A i \in 1..Len(out) : out[i] \in Output
  BY <1>1
<1>3. \A r \in Output : /\ r.id \in 1..MaxPackets
                       /\ r.type \in Stream
                       /\ r.pts \in Pts
  BY DEF Output
<1>4. Len(out) \in Nat /\ DOMAIN out = 1..Len(out)
  BY <1>1
<1>5. 1..MaxPackets \subseteq Nat /\ Pts \subseteq Nat
  BY PtsAssumption
<1>6. QED
  BY <1>2, <1>3, <1>4, <1>5, Zenon

(* A set of numbers has a smallest element: the while loop that searches   *)
(* for a node with a greater timestamp stops at the first one.             *)
LEMMA SmallestOfSet ==
    ASSUME NEW S \in SUBSET Nat, S # {}
    PROVE  \E i \in S : \A j \in S : i <= j
<1>1. PICK i \in S : \A j \in S : ~(<<j, i>> \in OpToRel(<, Nat))
  BY NatLessThanWellFounded, WFMin
<1>2. \A j \in S : ~(j < i)
  BY <1>1 DEF OpToRel
<1>3. QED
  BY <1>2

(* The search of interleave_add_packet starts after the stream's own last  *)
(* packet, so every packet of the stream lies before it.                   *)
LEMMA SearchFromProperties ==
    ASSUME TypeOK, IdsUnique, LastIsLastOfStream, NEW s \in Stream
    PROVE  /\ SearchFrom(s) \in 1..(Len(packet_buffer) + 1)
           /\ \A i \in DOMAIN packet_buffer :
                 packet_buffer[i].type = s => i < SearchFrom(s)
           /\ SearchFrom(s) > 1 => packet_buffer[SearchFrom(s) - 1].type = s
<1>1. DOMAIN packet_buffer = 1..Len(packet_buffer) /\ Len(packet_buffer) \in Nat
  BY DEF TypeOK
<1>2. CASE last_pktl[s] = NULL
  <2>1. SearchFrom(s) = 1 /\ \A i \in DOMAIN packet_buffer : packet_buffer[i].type # s
    BY <1>2 DEF SearchFrom, LastIsLastOfStream
  <2>2. QED
    BY <1>1, <2>1
<1>3. CASE last_pktl[s] # NULL
  <2>1. PICK i \in DOMAIN packet_buffer : IsLastOf(s, i)
    BY <1>3 DEF LastIsLastOfStream
  <2>2. Index(last_pktl[s]) = i
    BY <2>1, IndexOfNode DEF IsLastOf
  <2>3. SearchFrom(s) = i + 1
    BY <1>3, <2>2 DEF SearchFrom
  <2>4. \A j \in DOMAIN packet_buffer : packet_buffer[j].type = s => j < i + 1
    BY <1>1, <2>1 DEF IsLastOf
  <2>5. QED
    BY <1>1, <2>1, <2>3, <2>4 DEF IsLastOf
<1>4. QED
  BY <1>2, <1>3

(* Where the new packet goes: after every packet of its own stream, before *)
(* a packet with a greater timestamp, and past none whose timestamp is     *)
(* greater once the search has begun.                                      *)
LEMMA InsertPointProperties ==
    ASSUME TypeOK, IdsUnique, PointersConsistent, NEW s \in Stream, NEW p \in Pts
    PROVE  /\ InsertPoint(s, p) \in 1..(Len(packet_buffer) + 1)
           /\ SearchFrom(s) <= InsertPoint(s, p)
           /\ InsertPoint(s, p) <= Len(packet_buffer) =>
                 packet_buffer[InsertPoint(s, p)].pts > p
           /\ InsertPoint(s, p) <= Len(packet_buffer) =>
                 \A i \in DOMAIN packet_buffer :
                    SearchFrom(s) <= i /\ i < InsertPoint(s, p) =>
                        packet_buffer[i].pts <= p
           /\ InsertPoint(s, p) > Len(packet_buffer) =>
                 \/ SearchFrom(s) > Len(packet_buffer)
                 \/ packet_buffer[Len(packet_buffer)].pts <= p
<1> DEFINE k == InsertPoint(s, p)
           L == Len(packet_buffer)
<1>1. DOMAIN packet_buffer = 1..L /\ L \in Nat
  BY DEF TypeOK
<1>2. SearchFrom(s) \in 1..(L + 1)
  BY SearchFromProperties DEF PointersConsistent
<1>3. \A i \in 1..L : packet_buffer[i].pts \in Nat
  BY BufferTypes
<1>4. p \in Nat
  BY PtsAssumption
<1>5. CASE /\ SearchFrom(s) <= L
           /\ ComparePts(PtsOf(buffer_end), p)
           /\ Later(s, p) # {}
  <2>1. k = CHOOSE i \in Later(s, p) : \A j \in Later(s, p) : i <= j
    BY <1>5 DEF InsertPoint
  <2>2. Later(s, p) \subseteq Nat
    BY <1>1 DEF Later
  <2>3. \E i \in Later(s, p) : \A j \in Later(s, p) : i <= j
    BY <1>5, <2>2, SmallestOfSet
  <2>4. k \in Later(s, p) /\ \A j \in Later(s, p) : k <= j
    BY <2>1, <2>3
  <2>5. k \in 1..L /\ SearchFrom(s) <= k /\ packet_buffer[k].pts > p
    BY <1>1, <2>4 DEF Later, ComparePts
  <2>6. ASSUME NEW i \in 1..L, SearchFrom(s) <= i, i < k
        PROVE  packet_buffer[i].pts <= p
    <3>1. i \notin Later(s, p)
      BY <2>4, <2>5, <2>6
    <3>2. QED
      BY <1>1, <1>3, <1>4, <2>6, <3>1 DEF Later, ComparePts
  <2>7. QED
    BY <1>1, <2>5, <2>6
<1>6. CASE ~(/\ SearchFrom(s) <= L
             /\ ComparePts(PtsOf(buffer_end), p)
             /\ Later(s, p) # {})
  <2>1. k = L + 1
    BY <1>6 DEF InsertPoint
  <2>2. CASE SearchFrom(s) > L
    BY <1>1, <1>2, <2>1, <2>2
  <2>3. CASE SearchFrom(s) <= L
    <3>1. L \in 1..L
      BY <1>1, <1>2, <2>3
    <3>2. PtsOf(buffer_end) = packet_buffer[L].pts
      BY <1>1, <3>1, IndexOfNode DEF PointersConsistent, EndIsLast, PtsOf
    <3>3. packet_buffer[L].pts > p => L \in Later(s, p)
      BY <1>1, <2>3, <3>1 DEF Later, ComparePts
    <3>4. packet_buffer[L].pts <= p
      BY <1>3, <1>4, <1>6, <2>3, <3>1, <3>2, <3>3 DEF ComparePts
    <3>5. QED
      BY <1>1, <1>2, <2>1, <3>4
  <2>4. SearchFrom(s) > L \/ SearchFrom(s) <= L
    BY <1>1, <1>2
  <2>5. QED
    BY <2>2, <2>3, <2>4
<1>7. QED
  BY <1>5, <1>6

(* The place found by a search: behind the last node, or at the first node *)
(* from SearchFrom on that is later than the packet.                       *)
LEMMA InsertPointIs ==
    ASSUME TypeOK, NEW s \in Stream, NEW p \in Pts,
           NEW k \in 1..(Len(packet_buffer) + 1), SearchFrom(s) \in Nat,
           \/ /\ k = Len(packet_buffer) + 1
              /\ \/ SearchFrom(s) > Len(packet_buffer)
                 \/ ~ComparePts(PtsOf(buffer_end), p)
                 \/ \A i \in SearchFrom(s)..Len(packet_buffer) : packet_buffer[i].pts <= p
           \/ /\ SearchFrom(s) <= k /\ k <= Len(packet_buffer)
              /\ ComparePts(PtsOf(buffer_end), p)
              /\ packet_buffer[k].pts > p
              /\ \A i \in SearchFrom(s)..(k - 1) : packet_buffer[i].pts <= p
    PROVE  InsertPoint(s, p) = k
<1> DEFINE L == Len(packet_buffer)
           f == SearchFrom(s)
<1>1. DOMAIN packet_buffer = 1..L /\ L \in Nat /\ \A i \in 1..L : packet_buffer[i].pts \in Nat
  BY BufferTypes
<1>2. p \in Nat
  BY PtsAssumption
<1>3. \A i \in Later(s, p) : i \in 1..L /\ f <= i /\ packet_buffer[i].pts > p
  BY <1>1 DEF Later, ComparePts
<1>4. CASE /\ k = L + 1
           /\ f > L \/ ~ComparePts(PtsOf(buffer_end), p)
  BY <1>1, <1>4 DEF InsertPoint
<1>5. CASE k = L + 1 /\ \A i \in f..L : packet_buffer[i].pts <= p
  <2>1. \A i \in Later(s, p) : i \in f..L
    BY <1>1, <1>3
  <2>2. Later(s, p) = {}
    BY <1>1, <1>2, <1>3, <1>5, <2>1
  <2>3. QED
    BY <1>5, <2>2 DEF InsertPoint
<1>6. CASE /\ f <= k /\ k <= L
           /\ ComparePts(PtsOf(buffer_end), p)
           /\ packet_buffer[k].pts > p
           /\ \A i \in f..(k - 1) : packet_buffer[i].pts <= p
  <2>1. k \in Later(s, p)
    BY <1>1, <1>6 DEF Later, ComparePts
  <2>2. ASSUME NEW i \in Later(s, p)
        PROVE  i \in 1..L /\ k <= i
    <3>1. i \in 1..L /\ f <= i /\ packet_buffer[i].pts > p
      BY <1>3
    <3>2. i < k => i \in f..(k - 1)
      BY <1>1, <3>1
    <3>3. i < k => packet_buffer[i].pts <= p
      BY <1>6, <3>2
    <3>4. QED
      BY <1>1, <1>2, <3>1, <3>3
  <2>3. (CHOOSE i \in Later(s, p) : \A j \in Later(s, p) : i <= j) = k
    <3>1. ASSUME NEW i \in Later(s, p), \A j \in Later(s, p) : i <= j
          PROVE  i = k
      <4>1. i <= k
        BY <2>1, <3>1
      <4>2. k <= i /\ i \in 1..L
        BY <2>2
      <4>3. QED
        BY <1>1, <4>1, <4>2
    <3>2. QED
      BY <2>1, <2>2, <3>1
  <2>4. f <= L
    BY <1>1, <1>6
  <2>5. QED
    BY <1>6, <2>1, <2>3, <2>4 DEF InsertPoint
<1>7. QED
  BY <1>4, <1>5, <1>6
-----------------------------------------------------------------------------
(* The buffer the constructor makes satisfies the inductive invariant. *)
LEMMA InitInv == Init => IInv
<1> SUFFICES ASSUME Init PROVE IInv
  OBVIOUS
<1>1. packet_buffer = <<>> /\ DOMAIN packet_buffer = {} /\ Len(packet_buffer) = 0
  BY DEF Init
<1>2. out = <<>> /\ DOMAIN out = {}
  BY DEF Init
<1>3. TypeOK
  BY PtsAssumption, BoundAssumption DEF Init, TypeOK, NULL
<1>4. PointersConsistent
  BY <1>1 DEF Init, PointersConsistent, EndIsLast, LastIsLastOfStream
<1>5. IdsUnique /\ StreamFIFO
  BY <1>1, <1>2 DEF IdsUnique, StreamFIFO
<1>6. SortedWhileMonotone /\ NewestBounds
  BY <1>1 DEF SortedWhileMonotone, NewestBounds
<1>7. QED
  BY <1>3, <1>4, <1>5, <1>6 DEF IInv

(* Linking a packet keeps the inductive invariant. *)
LEMMA AddPacketInv ==
    ASSUME IInv, NEW s \in Stream, NEW p \in Pts, AddPacket(s, p)
    PROVE  IInv'
<1> DEFINE L == Len(packet_buffer)
           node == [id |-> added + 1, type |-> s, pts |-> p]
<1>1. /\ L \in Nat
      /\ DOMAIN packet_buffer = 1..L
      /\ \A i \in 1..L : /\ packet_buffer[i] \in Node
                         /\ packet_buffer[i].id \in 1..MaxPackets
                         /\ packet_buffer[i].type \in Stream
                         /\ packet_buffer[i].pts \in Nat
  BY BufferTypes DEF IInv
<1>2. PICK k \in 1..(L + 1) :
      /\ k = InsertPoint(s, p)
      /\ SearchFrom(s) <= k
      /\ k <= L => packet_buffer[k].pts > p
      /\ k <= L => \A i \in 1..L : SearchFrom(s) <= i /\ i < k =>
                                       packet_buffer[i].pts <= p
      /\ k > L => SearchFrom(s) > L \/ packet_buffer[L].pts <= p
  BY <1>1, InsertPointProperties DEF IInv
<1>3. /\ SearchFrom(s) \in 1..(L + 1)
      /\ \A i \in 1..L : packet_buffer[i].type = s => i < SearchFrom(s)
      /\ SearchFrom(s) > 1 => packet_buffer[SearchFrom(s) - 1].type = s
  BY <1>1, SearchFromProperties DEF IInv, PointersConsistent
<1>4. /\ added \in Nat /\ MaxPackets \in Nat /\ added + 1 \in 1..MaxPackets
      /\ added' = added + 1
      /\ p \in Nat
  BY BoundAssumption, PtsAssumption DEF IInv, TypeOK, AddPacket, NewNode
<1>5. node \in Node /\ node.id = added + 1 /\ node.type = s /\ node.pts = p
  BY <1>4 DEF Node
<1>6. /\ packet_buffer' = InsertAt(packet_buffer, k, node)
      /\ buffer_end' = IF k > L THEN node.id ELSE buffer_end
      /\ last_pktl' = [last_pktl EXCEPT ![s] = node.id]
      /\ newest' = [newest EXCEPT ![s] = p]
      /\ monotone' = (monotone /\ p >= newest[s])
      /\ out' = out /\ ret' = ret /\ pc' = "loop"
  BY <1>2 DEF AddPacket, NewNode
<1> HIDE DEF L, node
<1>7. /\ packet_buffer' \in Seq(Node)
      /\ Len(packet_buffer') = L + 1
      /\ \A j \in 1..(L + 1) :
            packet_buffer'[j] = IF j < k THEN packet_buffer[j]
                                ELSE IF j = k THEN node ELSE packet_buffer[j - 1]
  <2>1. packet_buffer \in Seq(Node) /\ k \in 1..(Len(packet_buffer) + 1)
    BY <1>2 DEF IInv, TypeOK, L
  <2> DEFINE q == InsertAt(packet_buffer, k, node)
  <2>2. /\ q \in Seq(Node)
        /\ Len(q) = Len(packet_buffer) + 1
        /\ \A j \in 1..(Len(packet_buffer) + 1) :
              q[j] = IF j < k THEN packet_buffer[j]
                     ELSE IF j = k THEN node ELSE packet_buffer[j - 1]
    BY <1>5, <2>1, InsertAtProperties
  <2>3. packet_buffer' = q
    BY <1>6
  <2> HIDE DEF q
  <2>4. QED
    BY <2>2, <2>3 DEF L
<1>8. DOMAIN packet_buffer' = 1..(L + 1)
  BY <1>1, <1>7
<1>9. \A j \in 1..(L + 1) :
         \/ j < k /\ j \in 1..L /\ packet_buffer'[j] = packet_buffer[j]
         \/ j = k /\ packet_buffer'[j] = node
         \/ j > k /\ j - 1 \in 1..L /\ packet_buffer'[j] = packet_buffer[j - 1]
  BY <1>1, <1>2, <1>7
<1>10. TypeOK'
  <2>1. /\ last_pktl \in [Stream -> 0..MaxPackets] /\ newest \in [Stream -> Pts]
        /\ buffer_end \in 0..MaxPackets /\ monotone \in BOOLEAN
        /\ ret \in {"drained", "failed"}
        /\ out \in Seq(Output)
    BY DEF IInv, TypeOK
  <2>2. node.id \in 0..MaxPackets
    BY <1>4, <1>5
  <2>3. /\ buffer_end' \in 0..MaxPackets
        /\ last_pktl' \in [Stream -> 0..MaxPackets]
        /\ newest' \in [Stream -> Pts]
    BY <1>6, <2>1, <2>2
  <2>4. added' \in 0..MaxPackets
    BY <1>4
  <2>5. monotone' \in BOOLEAN
    BY <1>6
  <2>6. QED
    BY <1>6, <1>7, <2>1, <2>3, <2>4, <2>5 DEF TypeOK
<1>11. PointersConsistent'
  <2>1. EndIsLast'
    <3>1. packet_buffer' # <<>>
      BY <1>1, <1>7
    <3>2. CASE k > L
      <4>1. packet_buffer'[L + 1] = node
        BY <1>1, <1>2, <1>9, <3>2
      <4>2. QED
        BY <1>6, <1>7, <3>1, <3>2, <4>1 DEF EndIsLast
    <3>3. CASE k <= L
      <4>1. packet_buffer'[L + 1] = packet_buffer[L + 1 - 1] /\ L + 1 - 1 = L
        BY <1>1, <1>2, <1>9, <3>3
      <4>2. buffer_end = packet_buffer[L].id
        BY <1>1, <1>2, <3>3 DEF IInv, PointersConsistent, EndIsLast, L
      <4>3. QED
        BY <1>1, <1>2, <1>6, <1>7, <3>1, <3>3, <4>1, <4>2 DEF EndIsLast
    <3>4. QED
      BY <1>1, <1>2, <3>2, <3>3
  <2>2. LastIsLastOfStream'
    <3> SUFFICES ASSUME NEW t \in Stream
                 PROVE  IF last_pktl'[t] = NULL
                        THEN \A i \in DOMAIN packet_buffer' : packet_buffer'[i].type # t
                        ELSE \E i \in DOMAIN packet_buffer' : IsLastOf(t, i)'
      BY DEF LastIsLastOfStream
    <3>1. CASE t = s
      <4>1. last_pktl'[t] = node.id /\ last_pktl'[t] # NULL
        BY <1>4, <1>5, <1>6, <3>1 DEF IInv, TypeOK, NULL
      <4>2. k \in DOMAIN packet_buffer' /\ packet_buffer'[k] = node
        BY <1>2, <1>8, <1>9
      <4>3. ASSUME NEW j \in 1..(L + 1), j > k
            PROVE  packet_buffer'[j].type # t
        BY <1>1, <1>2, <1>3, <1>9, <3>1, <4>3
      <4>4. IsLastOf(t, k)'
        BY <1>5, <1>8, <3>1, <4>1, <4>2, <4>3 DEF IsLastOf
      <4>5. QED
        BY <4>1, <4>2, <4>4
    <3>2. CASE t # s
      <4>1. last_pktl'[t] = last_pktl[t]
        BY <1>6, <3>2 DEF IInv, TypeOK
      <4>2. CASE last_pktl[t] = NULL
        <5>1. \A i \in 1..L : packet_buffer[i].type # t
          BY <1>1, <4>2 DEF IInv, PointersConsistent, LastIsLastOfStream
        <5>2. \A i \in 1..(L + 1) : packet_buffer'[i].type # t
          BY <1>5, <1>9, <3>2, <5>1
        <5>3. QED
          BY <1>8, <4>1, <4>2, <5>2
      <4>3. CASE last_pktl[t] # NULL
        <5>1. PICK i \in 1..L : IsLastOf(t, i)
          BY <1>1, <4>3 DEF IInv, PointersConsistent, LastIsLastOfStream
        <5>2. PICK i2 \in 1..(L + 1) : i2 = IF i < k THEN i ELSE i + 1
          BY <1>1
        <5>3. packet_buffer'[i2] = packet_buffer[i]
          <6>1. CASE i < k
            BY <1>7, <5>2, <6>1
          <6>2. CASE i >= k
            <7>1. i2 = i + 1 /\ i2 > k /\ i2 - 1 = i
              BY <1>1, <1>2, <5>2, <6>2
            <7>2. packet_buffer'[i2] = packet_buffer[i2 - 1]
              BY <1>1, <1>2, <1>7, <7>1
            <7>3. QED
              BY <7>1, <7>2
          <6>3. QED
            BY <1>1, <1>2, <6>1, <6>2
        <5>4. ASSUME NEW j \in 1..(L + 1), j > i2
              PROVE  packet_buffer'[j].type # t
          <6>1. \A m \in 1..L : m > i => packet_buffer[m].type # t
            BY <1>1, <5>1 DEF IsLastOf
          <6>2. QED
            BY <1>1, <1>2, <1>5, <1>9, <3>2, <5>2, <5>4, <6>1
        <5>5. IsLastOf(t, i2)'
          BY <1>8, <4>1, <5>1, <5>3, <5>4 DEF IsLastOf
        <5>6. QED
          BY <1>8, <4>1, <4>3, <5>5
      <4>4. QED
        BY <4>2, <4>3
    <3>3. QED
      BY <3>1, <3>2
  <2>3. QED
    BY <2>1, <2>2 DEF PointersConsistent
<1>12. IdsUnique'
  <2>1. /\ \A i, j \in 1..L : packet_buffer[i].id = packet_buffer[j].id => i = j
        /\ \A i \in 1..L : packet_buffer[i].id <= added
        /\ \A i \in DOMAIN out : out[i].id <= added
    BY <1>1 DEF IInv, IdsUnique
  <2>2. \A i \in DOMAIN out : out[i].id \in Nat
    BY OutTypes DEF IInv
  <2>3. ASSUME NEW i \in 1..(L + 1), NEW j \in 1..(L + 1), i # j
        PROVE  packet_buffer'[i].id # packet_buffer'[j].id
    <3>1. CASE i = k
      BY <1>1, <1>4, <1>5, <1>9, <2>1, <2>3, <3>1
    <3>2. CASE j = k
      BY <1>1, <1>4, <1>5, <1>9, <2>1, <2>3, <3>2
    <3>3. CASE i # k /\ j # k
      <4> DEFINE f(m) == IF m < k THEN m ELSE m - 1
      <4>1. /\ f(i) \in 1..L /\ packet_buffer'[i] = packet_buffer[f(i)]
            /\ f(j) \in 1..L /\ packet_buffer'[j] = packet_buffer[f(j)]
        BY <1>1, <1>2, <1>9, <3>3
      <4>2. f(i) # f(j)
        BY <1>1, <1>2, <2>3, <3>3
      <4> HIDE DEF f
      <4>3. QED
        BY <2>1, <4>1, <4>2
    <3>4. QED
      BY <3>1, <3>2, <3>3
  <2>4. \A i \in 1..(L + 1) : packet_buffer'[i].id <= added'
    BY SMTT(30), <1>1, <1>4, <1>5, <1>9, <2>1
  <2>5. \A i \in DOMAIN out' : out'[i].id <= added'
    BY <1>4, <1>6, <2>1, <2>2
  <2>6. QED
    BY <1>8, <2>3, <2>4, <2>5 DEF IdsUnique
<1>13. StreamFIFO'
  <2>1. \A i, j \in 1..L : i < j /\ packet_buffer[i].type = packet_buffer[j].type
                              => packet_buffer[i].id < packet_buffer[j].id
    BY <1>1 DEF IInv, StreamFIFO
  <2>2. \A i \in 1..L : packet_buffer[i].id <= added
    BY <1>1 DEF IInv, IdsUnique
  <2>3. ASSUME NEW i \in 1..(L + 1), NEW j \in 1..(L + 1), i < j,
               packet_buffer'[i].type = packet_buffer'[j].type
        PROVE  packet_buffer'[i].id < packet_buffer'[j].id
    <3>1. CASE j = k
      BY <1>1, <1>2, <1>4, <1>5, <1>9, <2>2, <2>3, <3>1
    <3>2. CASE i = k
      BY <1>1, <1>2, <1>3, <1>5, <1>9, <2>3, <3>2
    <3>3. CASE i # k /\ j # k
      <4> DEFINE f(m) == IF m < k THEN m ELSE m - 1
      <4>1. /\ f(i) \in 1..L /\ packet_buffer'[i] = packet_buffer[f(i)]
            /\ f(j) \in 1..L /\ packet_buffer'[j] = packet_buffer[f(j)]
        BY <1>1, <1>2, <1>9, <3>3
      <4>2. f(i) < f(j)
        BY <1>1, <1>2, <2>3, <3>3
      <4> HIDE DEF f
      <4>3. QED
        BY <2>1, <2>3, <4>1, <4>2
    <3>4. QED
      BY <3>1, <3>2, <3>3
  <2>4. ASSUME NEW i \in DOMAIN out, NEW j \in 1..(L + 1),
               out[i].type = packet_buffer'[j].type
        PROVE  out[i].id < packet_buffer'[j].id
    <3>1. out[i].id \in Nat /\ out[i].id <= added
      BY OutTypes DEF IInv, IdsUnique
    <3>2. \A m \in 1..L : out[i].type = packet_buffer[m].type
                             => out[i].id < packet_buffer[m].id
      BY <1>1 DEF IInv, StreamFIFO
    <3>3. QED
      BY <1>4, <1>5, <1>9, <2>4, <3>1, <3>2
  <2>5. QED
    BY <1>6, <1>8, <2>3, <2>4 DEF IInv, StreamFIFO
<1>14. SortedWhileMonotone' /\ NewestBounds'
  <2> SUFFICES ASSUME monotone'
               PROVE  /\ \A i, j \in DOMAIN packet_buffer' : i < j =>
                            packet_buffer'[i].pts <= packet_buffer'[j].pts
                      /\ \A i \in DOMAIN packet_buffer' :
                            packet_buffer'[i].pts <= newest'[packet_buffer'[i].type]
    BY DEF SortedWhileMonotone, NewestBounds
  <2>1. monotone /\ p >= newest[s]
    BY <1>6
  <2>2. \A i, j \in 1..L : i < j => packet_buffer[i].pts <= packet_buffer[j].pts
    BY <1>1, <2>1 DEF IInv, SortedWhileMonotone
  <2>3. \A i \in 1..L : packet_buffer[i].pts <= newest[packet_buffer[i].type]
    BY <1>1, <2>1 DEF IInv, NewestBounds
  <2>4. newest \in [Stream -> Nat] /\ newest[s] \in Nat
    BY PtsAssumption DEF IInv, TypeOK
  <2>5. ASSUME NEW i \in 1..L, i < SearchFrom(s)
        PROVE  packet_buffer[i].pts <= p
    <3> DEFINE m == SearchFrom(s) - 1
    <3>1. m \in 1..L /\ i <= m
      BY <1>1, <1>3, <2>5
    <3>2. packet_buffer[m].type = s
      BY <1>3, <3>1
    <3>3. packet_buffer[m].pts <= p
      BY <1>1, <1>4, <2>1, <2>3, <2>4, <3>1, <3>2
    <3> HIDE DEF m
    <3>4. packet_buffer[i].pts <= packet_buffer[m].pts
      BY <1>1, <2>2, <3>1
    <3>5. QED
      BY <1>1, <1>4, <3>1, <3>3, <3>4
  <2>6. ASSUME NEW i \in 1..L, i < k
        PROVE  packet_buffer[i].pts <= p
    <3>1. CASE k <= L
      BY <1>1, <1>2, <1>3, <2>5, <2>6, <3>1
    <3>2. CASE k > L
      <4>1. L \in 1..L
        BY <1>1
      <4>2. packet_buffer[L].pts <= p
        BY <1>1, <1>2, <1>3, <2>5, <3>2, <4>1
      <4>3. packet_buffer[i].pts <= packet_buffer[L].pts
        BY <1>1, <2>2, <4>1
      <4>4. QED
        BY <1>1, <1>4, <4>1, <4>2, <4>3
    <3>3. QED
      BY <1>1, <1>2, <3>1, <3>2
  <2>7. ASSUME NEW i \in 1..L, i >= k
        PROVE  packet_buffer[i].pts >= p
    <3>1. k \in 1..L /\ packet_buffer[k].pts > p
      BY <1>1, <1>2, <2>7
    <3>2. packet_buffer[k].pts <= packet_buffer[i].pts
      BY <1>1, <2>2, <2>7, <3>1
    <3>3. QED
      BY <1>1, <1>4, <3>1, <3>2
  <2>8. ASSUME NEW i \in 1..(L + 1), NEW j \in 1..(L + 1), i < j
        PROVE  packet_buffer'[i].pts <= packet_buffer'[j].pts
    <3>1. CASE j = k
      BY <1>1, <1>2, <1>5, <1>9, <2>6, <2>8, <3>1
    <3>2. CASE i = k
      BY <1>1, <1>2, <1>5, <1>9, <2>7, <2>8, <3>2
    <3>3. CASE i # k /\ j # k
      BY <1>1, <1>2, <1>9, <2>2, <2>8, <3>3
    <3>4. QED
      BY <3>1, <3>2, <3>3
  <2>9. ASSUME NEW t \in Stream
        PROVE  newest'[t] >= newest[t]
    BY <1>4, <1>6, <2>1, <2>4
  <2>10. newest'[s] = p /\ \A t \in Stream : newest'[t] \in Nat
    BY <1>4, <1>6, <2>4
  <2>11. ASSUME NEW i \in 1..L
         PROVE  packet_buffer[i].pts <= newest'[packet_buffer[i].type]
    BY <1>1, <2>3, <2>4, <2>9, <2>10
  <2>12. \A i \in 1..(L + 1) :
            packet_buffer'[i].pts <= newest'[packet_buffer'[i].type]
    BY <1>4, <1>5, <1>9, <2>10, <2>11
  <2>13. QED
    BY <1>8, <2>8, <2>12
<1>15. QED
  BY <1>10, <1>11, <1>12, <1>13, <1>14 DEF IInv

(* Taking the head off the list keeps the inductive invariant, whether the *)
(* callback succeeds or fails.                                             *)
LEMMA FlushHeadInv ==
    ASSUME IInv, NEW ok \in BOOLEAN, FlushHead(ok)
    PROVE  IInv'
<1> DEFINE L == Len(packet_buffer)
           h == packet_buffer[1]
           reason == IF AllStreamsQueued THEN "all" ELSE "forced"
           o == [id |-> h.id, type |-> h.type, pts |-> h.pts, reason |-> reason]
<1>1. /\ L \in Nat
      /\ DOMAIN packet_buffer = 1..L
      /\ \A i \in 1..L : /\ packet_buffer[i] \in Node
                         /\ packet_buffer[i].id \in 1..MaxPackets
                         /\ packet_buffer[i].type \in Stream
                         /\ packet_buffer[i].pts \in Pts
                         /\ packet_buffer[i].pts \in Nat
  BY BufferTypes DEF IInv
<1>2. L >= 1
  <2>1. PICK s \in Stream : last_pktl[s] # NULL
    BY DEF FlushHead, HeadUnlinked, LastReset, Flush
  <2>2. \E i \in 1..L : TRUE
    BY <1>1, <2>1 DEF IInv, PointersConsistent, LastIsLastOfStream
  <2>3. QED
    BY <1>1, <2>2
<1>3. /\ packet_buffer' = Tail(packet_buffer)
      /\ buffer_end' = IF L = 1 THEN NULL ELSE buffer_end
      /\ last_pktl' = [last_pktl EXCEPT ![h.type] = IF @ = h.id THEN NULL ELSE @]
      /\ out' = Append(out, o)
      /\ pc' = IF ok THEN "loop" ELSE "idle"
      /\ ret' = IF ok THEN ret ELSE "failed"
      /\ added' = added /\ newest' = newest /\ monotone' = monotone
  BY DEF FlushHead, HeadUnlinked, LastReset
<1>4. h.id \in 1..MaxPackets /\ h.type \in Stream /\ h.pts \in Pts /\ h.pts \in Nat
  BY <1>1, <1>2
<1>5. o \in Output /\ o.id = h.id /\ o.type = h.type /\ o.pts = h.pts
  BY <1>4 DEF Output, Reason
<1>6. /\ Len(out) \in Nat
      /\ DOMAIN out = 1..Len(out)
      /\ \A i \in 1..Len(out) : /\ out[i].id \in Nat
                                /\ out[i].type \in Stream
                                /\ out[i].pts \in Nat
  BY OutTypes DEF IInv
<1> HIDE DEF L, h, o, reason
<1>7. /\ packet_buffer' \in Seq(Node)
      /\ Len(packet_buffer') = L - 1
      /\ DOMAIN packet_buffer' = 1..(L - 1)
      /\ \A i \in 1..(L - 1) : packet_buffer'[i] = packet_buffer[i + 1]
  BY <1>2, <1>3 DEF IInv, TypeOK, L
<1>8. /\ out' \in Seq(Output)
      /\ Len(out') = Len(out) + 1
      /\ DOMAIN out' = 1..(Len(out) + 1)
      /\ \A i \in 1..Len(out) : out'[i] = out[i]
      /\ out'[Len(out) + 1] = o
  BY <1>3, <1>5 DEF IInv, TypeOK
<1>9. TypeOK'
  <2>1. /\ last_pktl \in [Stream -> 0..MaxPackets] /\ newest \in [Stream -> Pts]
        /\ buffer_end \in 0..MaxPackets /\ monotone \in BOOLEAN
        /\ ret \in {"drained", "failed"} /\ added \in 0..MaxPackets
    BY DEF IInv, TypeOK
  <2>2. NULL \in 0..MaxPackets
    BY BoundAssumption DEF NULL
  <2>3. QED
    BY <1>3, <1>7, <1>8, <2>1, <2>2 DEF TypeOK
<1>10. EndIsLast'
  <2>1. CASE L = 1
    BY <1>3, <1>7, <2>1 DEF EndIsLast
  <2>2. CASE L > 1
    <3>1. buffer_end = packet_buffer[L].id
      BY <1>2 DEF IInv, PointersConsistent, EndIsLast, L
    <3>2. packet_buffer'[L - 1] = packet_buffer[L - 1 + 1] /\ L - 1 + 1 = L
      BY <1>1, <1>7, <2>2
    <3>3. packet_buffer' # <<>> /\ buffer_end' = buffer_end
      BY <1>1, <1>3, <1>7, <2>2
    <3>4. QED
      BY <1>7, <3>1, <3>2, <3>3 DEF EndIsLast
  <2>3. QED
    BY <1>1, <1>2, <2>1, <2>2
<1>11. LastIsLastOfStream'
  <2> SUFFICES ASSUME NEW t \in Stream
               PROVE  IF last_pktl'[t] = NULL
                      THEN \A i \in DOMAIN packet_buffer' : packet_buffer'[i].type # t
                      ELSE \E i \in DOMAIN packet_buffer' : IsLastOf(t, i)'
    BY DEF LastIsLastOfStream
  <2>1. last_pktl \in [Stream -> 0..MaxPackets]
    BY DEF IInv, TypeOK
  <2>2. CASE last_pktl[t] = NULL
    <3>1. \A i \in 1..L : packet_buffer[i].type # t
      BY <1>1, <2>2 DEF IInv, PointersConsistent, LastIsLastOfStream
    <3>2. last_pktl'[t] = NULL
      BY <1>3, <1>4, <2>1, <2>2
    <3>3. \A i \in 1..(L - 1) : packet_buffer'[i].type # t
      BY <1>1, <1>7, <3>1
    <3>4. QED
      BY <1>7, <3>2, <3>3
  <2>3. CASE last_pktl[t] # NULL
    <3>1. PICK i \in 1..L : IsLastOf(t, i)
      BY <1>1, <2>3 DEF IInv, PointersConsistent, LastIsLastOfStream
    <3>2. \A j \in 1..L : j > i => packet_buffer[j].type # t
      BY <1>1, <3>1 DEF IsLastOf
    <3>3. packet_buffer[i].id = last_pktl[t] /\ packet_buffer[i].type = t
      BY <3>1 DEF IsLastOf
    <3>4. CASE i = 1
      <4>1. last_pktl'[t] = NULL
        BY <1>3, <1>4, <2>1, <3>3, <3>4 DEF h
      <4>2. ASSUME NEW j \in 1..(L - 1)
            PROVE  packet_buffer'[j].type # t
        <5>1. j + 1 \in 1..L /\ j + 1 > i
          BY <1>1, <3>4
        <5>2. QED
          BY <1>7, <3>2, <5>1
      <4>3. QED
        BY <1>7, <4>1, <4>2
    <3>5. CASE i > 1
      <4>1. packet_buffer[i].id # h.id
        BY <1>1, <1>2, <3>5 DEF IInv, IdsUnique, h
      <4>2. last_pktl'[t] = last_pktl[t]
        BY <1>3, <1>4, <2>1, <3>3, <4>1
      <4>3. PICK i2 \in 1..(L - 1) : i2 = i - 1
        BY <1>1, <3>5
      <4>4. packet_buffer'[i2] = packet_buffer[i]
        <5>1. packet_buffer'[i2] = packet_buffer[i2 + 1] /\ i2 + 1 = i
          BY <1>1, <1>7, <4>3
        <5>2. QED
          BY <5>1
      <4>5. ASSUME NEW j \in 1..(L - 1), j > i2
            PROVE  packet_buffer'[j].type # t
        BY <1>1, <1>7, <3>2, <4>3, <4>5
      <4>6. IsLastOf(t, i2)'
        BY <1>7, <3>3, <4>2, <4>4, <4>5 DEF IsLastOf
      <4>7. QED
        BY <1>7, <2>3, <4>2, <4>6
    <3>6. QED
      BY <3>4, <3>5
  <2>4. QED
    BY <2>2, <2>3
<1>12. IdsUnique'
  <2>1. /\ \A i, j \in 1..L : packet_buffer[i].id = packet_buffer[j].id => i = j
        /\ \A i \in 1..L : packet_buffer[i].id <= added
        /\ \A i \in 1..Len(out) : out[i].id <= added
    BY <1>1, <1>6 DEF IInv, IdsUnique
  <2>2. ASSUME NEW i \in 1..(L - 1), NEW j \in 1..(L - 1),
               packet_buffer'[i].id = packet_buffer'[j].id
        PROVE  i = j
    <3>1. i + 1 \in 1..L /\ j + 1 \in 1..L
      BY <1>1
    <3>2. i + 1 = j + 1
      BY <1>7, <2>1, <2>2, <3>1
    <3>3. QED
      BY <3>2
  <2>3. \A i \in 1..(L - 1) : packet_buffer'[i].id <= added
    BY <1>1, <1>7, <2>1
  <2>4. h.id <= added
    BY <1>1, <1>2, <2>1 DEF h
  <2>5. \A i \in 1..(Len(out) + 1) : out'[i].id <= added
    BY <1>5, <1>6, <1>8, <2>1, <2>4
  <2>6. QED
    BY <1>3, <1>7, <1>8, <2>2, <2>3, <2>5 DEF IdsUnique
<1>13. StreamFIFO'
  <2>1. /\ \A i, j \in 1..L : i < j /\ packet_buffer[i].type = packet_buffer[j].type
                               => packet_buffer[i].id < packet_buffer[j].id
        /\ \A i, j \in 1..Len(out) : i < j /\ out[i].type = out[j].type
                                     => out[i].id < out[j].id
        /\ \A i \in 1..Len(out), j \in 1..L : out[i].type = packet_buffer[j].type
                                              => out[i].id < packet_buffer[j].id
    BY <1>1, <1>6 DEF IInv, StreamFIFO
  <2>2. ASSUME NEW i \in 1..(L - 1), NEW j \in 1..(L - 1), i < j,
               packet_buffer'[i].type = packet_buffer'[j].type
        PROVE  packet_buffer'[i].id < packet_buffer'[j].id
    <3>1. i + 1 \in 1..L /\ j + 1 \in 1..L /\ i + 1 < j + 1
      BY <1>1, <2>2
    <3>2. QED
      BY <1>7, <2>1, <2>2, <3>1
  <2>3. ASSUME NEW i \in 1..(Len(out) + 1), NEW j \in 1..(Len(out) + 1), i < j,
               out'[i].type = out'[j].type
        PROVE  out'[i].id < out'[j].id
    <3>1. i \in 1..Len(out)
      BY <1>6, <2>3
    <3>2. CASE j \in 1..Len(out)
      BY <1>8, <2>1, <2>3, <3>1, <3>2
    <3>3. CASE j = Len(out) + 1
      BY SMTT(30), <1>1, <1>2, <1>5, <1>8, <2>1, <2>3, <3>1, <3>3 DEF h
    <3>4. QED
      BY <1>6, <3>2, <3>3
  <2>4. ASSUME NEW i \in 1..(Len(out) + 1), NEW j \in 1..(L - 1),
               out'[i].type = packet_buffer'[j].type
        PROVE  out'[i].id < packet_buffer'[j].id
    <3>1. j + 1 \in 1..L /\ 1 < j + 1 /\ packet_buffer'[j] = packet_buffer[j + 1]
      BY <1>1, <1>7
    <3>2. CASE i \in 1..Len(out)
      BY <1>8, <2>1, <2>4, <3>1, <3>2
    <3>3. CASE i = Len(out) + 1
      BY <1>1, <1>2, <1>5, <1>8, <2>1, <2>4, <3>1, <3>3 DEF h
    <3>4. QED
      BY <1>6, <3>2, <3>3
  <2>5. QED
    BY <1>7, <1>8, <2>2, <2>3, <2>4 DEF StreamFIFO
<1>14. SortedWhileMonotone' /\ NewestBounds'
  <2> SUFFICES ASSUME monotone
               PROVE  /\ \A i, j \in 1..(L - 1) : i < j =>
                            packet_buffer'[i].pts <= packet_buffer'[j].pts
                      /\ \A i \in 1..(L - 1) :
                            packet_buffer'[i].pts <= newest[packet_buffer'[i].type]
    BY <1>3, <1>7 DEF SortedWhileMonotone, NewestBounds
  <2>1. /\ \A i, j \in 1..L : i < j => packet_buffer[i].pts <= packet_buffer[j].pts
        /\ \A i \in 1..L : packet_buffer[i].pts <= newest[packet_buffer[i].type]
    BY <1>1 DEF IInv, SortedWhileMonotone, NewestBounds
  <2>2. \A i \in 1..(L - 1) : i + 1 \in 1..L
    BY <1>1
  <2>3. QED
    BY <1>1, <1>7, <2>1, <2>2
<1>15. QED
  BY <1>9, <1>10, <1>11, <1>12, <1>13, <1>14 DEF IInv, PointersConsistent

(* A return from add_packet and a stutter keep the inductive invariant. *)
LEMMA OtherStepInv ==
    ASSUME IInv, Return \/ UNCHANGED vars
    PROVE  IInv'
<1>1. UNCHANGED <<packet_buffer, buffer_end, last_pktl, added, out, newest, monotone>>
  BY DEF Return, vars, list
<1>2. pc' \in {"idle", "loop"} /\ ret' \in {"drained", "failed"}
  BY DEF Return, vars, IInv, TypeOK
<1>3. TypeOK'
  BY <1>1, <1>2 DEF IInv, TypeOK
<1>4. PointersConsistent'
  BY <1>1 DEF IInv, PointersConsistent, EndIsLast, LastIsLastOfStream, IsLastOf
<1>5. IdsUnique' /\ StreamFIFO'
  BY <1>1 DEF IInv, IdsUnique, StreamFIFO
<1>6. SortedWhileMonotone' /\ NewestBounds'
  BY <1>1 DEF IInv, SortedWhileMonotone, NewestBounds
<1>7. QED
  BY <1>3, <1>4, <1>5, <1>6 DEF IInv

(* Every step keeps the inductive invariant. *)
LEMMA NextInv == IInv /\ [Next]_vars => IInv'
<1> SUFFICES ASSUME IInv, [Next]_vars PROVE IInv'
  OBVIOUS
<1>1. CASE \E s \in Stream, p \in Pts : AddPacket(s, p)
  BY <1>1, AddPacketInv
<1>2. CASE \E ok \in BOOLEAN : FlushHead(ok)
  BY <1>2, FlushHeadInv
<1>3. CASE Return \/ UNCHANGED vars
  BY <1>3, OtherStepInv
<1>4. QED
  BY <1>1, <1>2, <1>3 DEF Next

(* The inductive invariant holds in every reachable state. *)
THEOREM Invariance == Spec => []IInv
  BY InitInv, NextInv, PTL DEF Spec

(* Every variable keeps its type. *)
THEOREM TypeCorrect == Spec => []TypeOK
<1>1. IInv => TypeOK
  BY DEF IInv
<1>2. QED
  BY <1>1, Invariance, PTL

(* The end pointer and the per-stream pointers always designate the last   *)
(* node and each stream's last node: the assertion of                      *)
(* interleave_add_packet holds and no pointer outlives its node.           *)
THEOREM PointersCorrect == Spec => []PointersConsistent
<1>1. IInv => PointersConsistent
  BY DEF IInv
<1>2. QED
  BY <1>1, Invariance, PTL

(* Each stream's packets come out in the order they went in. *)
THEOREM StreamOrder == Spec => []StreamFIFO
<1>1. IInv => StreamFIFO
  BY DEF IInv
<1>2. QED
  BY <1>1, Invariance, PTL

(* Monotone streams are queued in timestamp order. *)
THEOREM QueueSorted == Spec => []SortedWhileMonotone
<1>1. IInv => SortedWhileMonotone
  BY DEF IInv
<1>2. QED
  BY <1>1, Invariance, PTL
-----------------------------------------------------------------------------
(* When both streams wait in the queue, what is flushed is no newer than   *)
(* the newest packet of either, so that nothing that is still to come can  *)
(* precede it. *)
Unforced == \A i \in DOMAIN out : out[i].reason = "all"

OutBounds ==
    monotone /\ Unforced =>
        \A i \in DOMAIN out :
            /\ \A s \in Stream : out[i].pts <= newest[s]
            /\ \A j \in DOMAIN packet_buffer : out[i].pts <= packet_buffer[j].pts

OrderInv == InOrderUntilForced /\ OutBounds

(* Each node of the list after add_packet linked one is the new packet or  *)
(* a node that was already there.                                          *)
LEMMA InsertedNode ==
    ASSUME IInv, NEW s \in Stream, NEW p \in Pts, AddPacket(s, p)
    PROVE  /\ DOMAIN packet_buffer' = 1..(Len(packet_buffer) + 1)
           /\ \A j \in DOMAIN packet_buffer' :
                 \/ /\ packet_buffer'[j] = NewNode(s, p)
                    /\ packet_buffer'[j].id = added + 1 /\ packet_buffer'[j].pts = p
                 \/ \E i \in DOMAIN packet_buffer : packet_buffer'[j] = packet_buffer[i]
           /\ \E j \in DOMAIN packet_buffer' : /\ packet_buffer'[j] = NewNode(s, p)
                                               /\ packet_buffer'[j].id = added + 1
           /\ \A i \in DOMAIN packet_buffer :
                 \E j \in DOMAIN packet_buffer' : packet_buffer'[j] = packet_buffer[i]
<1> DEFINE node == [id |-> added + 1, type |-> s, pts |-> p]
           q == InsertAt(packet_buffer, InsertPoint(s, p), node)
           L == Len(packet_buffer)
<1>1. L \in Nat /\ DOMAIN packet_buffer = 1..L
  BY BufferTypes DEF IInv
<1>2. PICK k \in 1..(L + 1) : k = InsertPoint(s, p)
  BY InsertPointProperties DEF IInv
<1>13. node = NewNode(s, p)
  BY DEF NewNode
<1>3. node \in Node /\ node.id = added + 1 /\ node.pts = p
  <2>1. added \in Nat /\ added + 1 \in 1..MaxPackets
    BY BoundAssumption DEF AddPacket, NewNode, IInv, TypeOK
  <2>2. QED
    BY <2>1 DEF Node
<1>4. packet_buffer \in Seq(Node)
  BY DEF IInv, TypeOK
<1> HIDE DEF node
<1>5. /\ q \in Seq(Node)
      /\ Len(q) = L + 1
      /\ \A j \in 1..(L + 1) : q[j] = IF j < k THEN packet_buffer[j]
                                     ELSE IF j = k THEN node ELSE packet_buffer[j - 1]
  <2> DEFINE r == InsertAt(packet_buffer, k, node)
  <2>1. k \in 1..(Len(packet_buffer) + 1)
    BY <1>1, <1>2
  <2>2. /\ r \in Seq(Node)
        /\ Len(r) = Len(packet_buffer) + 1
        /\ \A j \in 1..(Len(packet_buffer) + 1) :
              r[j] = IF j < k THEN packet_buffer[j]
                     ELSE IF j = k THEN node ELSE packet_buffer[j - 1]
    <3>1. node \in Node
      BY <1>3
    <3>2. QED
      BY <1>4, <2>1, <3>1, InsertAtProperties
  <2>3. q = r
    BY <1>2
  <2> HIDE DEF q, r
  <2>4. QED
    BY <2>2, <2>3
<1>6. packet_buffer' = q
  BY DEF AddPacket, NewNode, node
<1> HIDE DEF q, L
<1>7. DOMAIN packet_buffer' = 1..(L + 1)
  BY <1>5, <1>6
<1>8. ASSUME NEW j \in 1..(L + 1)
      PROVE  \/ packet_buffer'[j] = node
             \/ \E i \in 1..L : packet_buffer'[j] = packet_buffer[i]
  <2>1. \/ j < k /\ j \in 1..L
        \/ j = k
        \/ j > k /\ j - 1 \in 1..L
    BY <1>1, <1>2
  <2>2. QED
    BY <1>1, <1>2, <1>5, <1>6, <2>1
<1>9. packet_buffer'[k] = node
  BY <1>2, <1>5, <1>6
<1>10. ASSUME NEW i \in 1..L
       PROVE  \E j \in 1..(L + 1) : packet_buffer'[j] = packet_buffer[i]
  <2>1. CASE i < k
    BY <1>1, <1>5, <1>6, <2>1
  <2>2. CASE i >= k
    <3>1. /\ i + 1 \in 1..(L + 1) /\ ~(i + 1 < k) /\ i + 1 # k
          /\ (i + 1) - 1 = i
      BY <1>1, <1>2, <2>2
    <3>2. packet_buffer'[i + 1] = packet_buffer[(i + 1) - 1]
      BY <1>5, <1>6, <3>1
    <3>3. QED
      BY <3>1, <3>2
  <2>3. QED
    BY <1>1, <1>2, <2>1, <2>2
<1>11. QED
  BY <1>1, <1>2, <1>3, <1>7, <1>8, <1>9, <1>10, <1>13 DEF L

(* A packet that is not earlier than the head of the list never goes before *)
(* it: interleave_compare_pts asks for a strictly greater timestamp.        *)
LEMMA HeadStays ==
    ASSUME IInv, NEW s \in Stream, NEW p \in Pts, AddPacket(s, p),
           packet_buffer # <<>>, packet_buffer[1].pts <= p
    PROVE  packet_buffer'[1] = packet_buffer[1]
<1> DEFINE L == Len(packet_buffer)
           node == NewNode(s, p)
<1>1. /\ L \in Nat /\ packet_buffer \in Seq(Node)
      /\ \A i \in 1..L : packet_buffer[i].pts \in Nat
  BY BufferTypes DEF IInv, TypeOK
<1>2. L >= 1 /\ p \in Nat
  BY <1>1, PtsAssumption
<1>3. PICK k \in 1..(L + 1) :
      /\ k = InsertPoint(s, p)
      /\ k <= L => packet_buffer[k].pts > p
  BY InsertPointProperties DEF IInv
<1>4. node \in Node
  BY BoundAssumption DEF IInv, TypeOK, AddPacket, NewNode, Node
<1> DEFINE r == InsertAt(packet_buffer, k, node)
<1>5. packet_buffer' = r
  BY <1>3 DEF AddPacket, NewNode
<1>6. k > 1
  BY <1>1, <1>2, <1>3
<1>7. k \in 1..(Len(packet_buffer) + 1)
  BY <1>1
<1> HIDE DEF node
<1>8. /\ r \in Seq(Node)
      /\ Len(r) = Len(packet_buffer) + 1
      /\ \A j \in 1..(Len(packet_buffer) + 1) :
            r[j] = IF j < k THEN packet_buffer[j]
                   ELSE IF j = k THEN node ELSE packet_buffer[j - 1]
  BY <1>1, <1>4, <1>7, InsertAtProperties
<1> HIDE DEF r
<1>9. QED
  BY <1>1, <1>5, <1>6, <1>8

(* What flushing does to list and output, node by node. *)
LEMMA FlushedHead ==
    ASSUME IInv, NEW ok \in BOOLEAN, FlushHead(ok)
    PROVE  /\ 1 \in DOMAIN packet_buffer
           /\ \A j \in DOMAIN packet_buffer' :
                 /\ j + 1 \in DOMAIN packet_buffer
                 /\ packet_buffer'[j] = packet_buffer[j + 1]
           /\ Len(packet_buffer') = Len(packet_buffer) - 1
           /\ Len(out') = Len(out) + 1
           /\ DOMAIN out' = 1..(Len(out) + 1)
           /\ \A i \in DOMAIN out : out'[i] = out[i]
           /\ out'[Len(out) + 1].id = packet_buffer[1].id
           /\ out'[Len(out) + 1].type = packet_buffer[1].type
           /\ out'[Len(out) + 1].pts = packet_buffer[1].pts
           /\ out'[Len(out) + 1].reason = "all" => AllStreamsQueued
<1>1. /\ Len(packet_buffer) \in Nat
      /\ DOMAIN packet_buffer = 1..Len(packet_buffer)
  BY BufferTypes DEF IInv
<1>2. /\ Len(out) \in Nat
      /\ DOMAIN out = 1..Len(out)
  BY OutTypes DEF IInv
<1>3. Len(packet_buffer) >= 1
  <2>1. PICK s \in Stream : last_pktl[s] # NULL
    BY DEF FlushHead, HeadUnlinked, LastReset, Flush
  <2>2. \E i \in DOMAIN packet_buffer : TRUE
    BY <2>1 DEF IInv, PointersConsistent, LastIsLastOfStream
  <2>3. QED
    BY <1>1, <2>2
<1> DEFINE h == packet_buffer[1]
           o == [id |-> h.id, type |-> h.type, pts |-> h.pts,
                 reason |-> IF AllStreamsQueued THEN "all" ELSE "forced"]
<1>4. packet_buffer' = Tail(packet_buffer) /\ out' = Append(out, o)
  BY DEF FlushHead, HeadUnlinked, LastReset
<1>5. o.id = h.id /\ o.type = h.type /\ o.pts = h.pts /\ (o.reason = "all" => AllStreamsQueued)
  OBVIOUS
<1> HIDE DEF o, h
<1>6. /\ Len(packet_buffer') = Len(packet_buffer) - 1
      /\ DOMAIN packet_buffer' = 1..(Len(packet_buffer) - 1)
      /\ \A j \in 1..(Len(packet_buffer) - 1) : packet_buffer'[j] = packet_buffer[j + 1]
  BY <1>1, <1>3, <1>4 DEF IInv, TypeOK
<1>7. out \in Seq(Output)
  BY DEF IInv, TypeOK
<1>8. /\ DOMAIN out' = 1..(Len(out) + 1)
      /\ Len(out') = Len(out) + 1
      /\ \A i \in 1..Len(out) : out'[i] = out[i]
      /\ out'[Len(out) + 1] = o
  BY <1>2, <1>4, <1>7
<1>9. \A j \in 1..(Len(packet_buffer) - 1) : j + 1 \in 1..Len(packet_buffer)
  BY <1>1
<1>10. QED
  BY <1>1, <1>2, <1>3, <1>5, <1>6, <1>8, <1>9 DEF h

(* Every step keeps the output in order, and the queue behind it. *)
LEMMA OrderStep == IInv /\ OrderInv /\ [Next]_vars => OrderInv'
<1> SUFFICES ASSUME IInv, OrderInv, [Next]_vars PROVE OrderInv'
  OBVIOUS
<1>1. ASSUME NEW s \in Stream, NEW p \in Pts, AddPacket(s, p)
      PROVE  OrderInv'
  <2>1. out' = out /\ newest' = [newest EXCEPT ![s] = p]
        /\ monotone' = (monotone /\ p >= newest[s])
    BY <1>1 DEF AddPacket, NewNode
  <2>2. InOrderUntilForced'
    BY <2>1 DEF OrderInv, InOrderUntilForced
  <2>3. ASSUME monotone', Unforced', NEW i \in DOMAIN out
        PROVE  /\ \A t \in Stream : out[i].pts <= newest'[t]
               /\ \A j \in DOMAIN packet_buffer' : out[i].pts <= packet_buffer'[j].pts
    <3>1. /\ \A t \in Stream : out[i].pts <= newest[t]
          /\ \A j \in DOMAIN packet_buffer : out[i].pts <= packet_buffer[j].pts
      BY <2>1, <2>3 DEF OrderInv, OutBounds, Unforced
    <3>2. p >= newest[s] /\ newest \in [Stream -> Pts] /\ Pts \subseteq Nat
      BY <2>1, <2>3, PtsAssumption DEF IInv, TypeOK
    <3>3. out[i].pts \in Nat
      BY OutTypes DEF IInv
    <3>4. out[i].pts <= p
      <4>1. out[i].pts <= newest[s] /\ newest[s] \in Nat /\ p \in Nat
        BY <3>1, <3>2
      <4>2. QED
        BY <3>2, <3>3, <4>1
    <3>5. \A t \in Stream : out[i].pts <= newest'[t]
      BY <2>1, <3>1, <3>2, <3>4
    <3>6. \A j \in DOMAIN packet_buffer' : out[i].pts <= packet_buffer'[j].pts
      BY <1>1, <3>1, <3>4, InsertedNode
    <3>7. QED
      BY <3>5, <3>6
  <2>4. OutBounds'
    BY <2>1, <2>3 DEF OutBounds
  <2>5. QED
    BY <2>2, <2>4 DEF OrderInv
<1>2. ASSUME NEW ok \in BOOLEAN, FlushHead(ok)
      PROVE  OrderInv'
  <2> DEFINE n == Len(out)
             h == packet_buffer[1]
  <2>1. /\ 1 \in DOMAIN packet_buffer
        /\ \A j \in DOMAIN packet_buffer' :
              /\ j + 1 \in DOMAIN packet_buffer
              /\ packet_buffer'[j] = packet_buffer[j + 1]
        /\ DOMAIN out' = 1..(n + 1)
        /\ \A i \in DOMAIN out : out'[i] = out[i]
        /\ out'[n + 1].pts = h.pts
        /\ out'[n + 1].reason = "all" => AllStreamsQueued
    BY <1>2, FlushedHead
  <2>2. /\ Len(packet_buffer) \in Nat
        /\ DOMAIN packet_buffer = 1..Len(packet_buffer)
        /\ \A i \in 1..Len(packet_buffer) : packet_buffer[i].pts \in Nat
    BY BufferTypes DEF IInv
  <2>3. n \in Nat /\ DOMAIN out = 1..n /\ \A i \in 1..n : out[i].pts \in Nat
    BY OutTypes DEF IInv
  <2>4. newest' = newest /\ monotone' = monotone
    BY <1>2 DEF FlushHead, HeadUnlinked, LastReset
  <2> SUFFICES ASSUME monotone, Unforced'
               PROVE  /\ \A i, j \in DOMAIN out' : i < j => out'[i].pts <= out'[j].pts
                      /\ \A i \in DOMAIN out' :
                            /\ \A s \in Stream : out'[i].pts <= newest'[s]
                            /\ \A j \in DOMAIN packet_buffer' :
                                  out'[i].pts <= packet_buffer'[j].pts
    BY <2>4 DEF OrderInv, InOrderUntilForced, OutBounds, Unforced
  <2> HIDE DEF n, h
  <2>5. AllStreamsQueued
    BY <2>1, <2>3 DEF Unforced
  <2>6. Unforced
    BY <2>1, <2>3 DEF Unforced
  <2>7. /\ \A i, j \in 1..n : i < j => out[i].pts <= out[j].pts
        /\ \A i \in 1..n : /\ \A s \in Stream : out[i].pts <= newest[s]
                           /\ \A j \in DOMAIN packet_buffer :
                                 out[i].pts <= packet_buffer[j].pts
    BY <2>3, <2>6 DEF OrderInv, InOrderUntilForced, OutBounds, Unforced
  <2>8. \A j \in DOMAIN packet_buffer : h.pts <= packet_buffer[j].pts
    BY <2>1, <2>2 DEF IInv, SortedWhileMonotone, h
  <2>9. ASSUME NEW s \in Stream
        PROVE  h.pts <= newest[s]
    <3>1. PICK i \in DOMAIN packet_buffer : IsLastOf(s, i)
      BY <2>5 DEF IInv, PointersConsistent, LastIsLastOfStream, AllStreamsQueued
    <3>2. packet_buffer[i].pts <= newest[s]
      BY <3>1 DEF IInv, NewestBounds, IsLastOf
    <3>3. newest[s] \in Nat
      BY PtsAssumption DEF IInv, TypeOK
    <3>4. h.pts <= packet_buffer[i].pts /\ h.pts \in Nat /\ packet_buffer[i].pts \in Nat
      BY <2>1, <2>2, <2>8, <3>1 DEF h
    <3>5. QED
      BY <3>2, <3>3, <3>4
  <2>10. ASSUME NEW i \in 1..(n + 1), NEW j \in 1..(n + 1), i < j
         PROVE  out'[i].pts <= out'[j].pts
    <3>1. i \in 1..n /\ out'[i] = out[i]
      BY <2>1, <2>3, <2>10
    <3>2. CASE j \in 1..n
      BY <2>1, <2>3, <2>7, <2>10, <3>1, <3>2
    <3>3. CASE j = n + 1
      BY <2>1, <2>7, <3>1, <3>3 DEF h
    <3>4. QED
      BY <2>3, <3>2, <3>3
  <2>11. ASSUME NEW i \in 1..(n + 1)
         PROVE  /\ \A s \in Stream : out'[i].pts <= newest[s]
                /\ \A j \in DOMAIN packet_buffer' :
                      out'[i].pts <= packet_buffer'[j].pts
    <3>1. CASE i \in 1..n
      BY <2>1, <2>3, <2>7, <3>1
    <3>2. CASE i = n + 1
      BY <2>1, <2>8, <2>9, <3>2
    <3>3. QED
      BY <2>3, <3>1, <3>2
  <2>12. QED
    BY <2>1, <2>4, <2>10, <2>11
<1>3. CASE Return \/ UNCHANGED vars
  <2>1. UNCHANGED <<packet_buffer, out, newest, monotone>>
    BY <1>3 DEF Return, vars, list
  <2>2. QED
    BY <2>1 DEF OrderInv, InOrderUntilForced, OutBounds, Unforced
<1>4. QED
  BY <1>1, <1>2, <1>3 DEF Next

(* Before the first forced output of monotone streams, the callback sees   *)
(* their packets in timestamp order. *)
THEOREM OutputOrder == Spec => []InOrderUntilForced
<1>1. Init => OrderInv
  BY DEF Init, OrderInv, InOrderUntilForced, OutBounds
<1>2. OrderInv => InOrderUntilForced
  BY DEF OrderInv
<1>3. QED
  BY <1>1, <1>2, OrderStep, Invariance, PTL DEF Spec

(* Every step keeps each packet in the list or in the output, once. *)
LEMMA NoLossStep == IInv /\ NoLossNoDuplicate /\ [Next]_vars => NoLossNoDuplicate'
<1> SUFFICES ASSUME IInv, NoLossNoDuplicate, [Next]_vars PROVE NoLossNoDuplicate'
  OBVIOUS
<1>1. /\ Len(packet_buffer) \in Nat /\ DOMAIN packet_buffer = 1..Len(packet_buffer)
      /\ Len(out) \in Nat /\ DOMAIN out = 1..Len(out)
      /\ added \in Nat
  BY BufferTypes, OutTypes, BoundAssumption DEF IInv, TypeOK
<1>2. ASSUME NEW s \in Stream, NEW p \in Pts, AddPacket(s, p)
      PROVE  NoLossNoDuplicate'
  <2>1. out' = out /\ added' = added + 1
    BY <1>2 DEF AddPacket, NewNode
  <2>2. /\ \E j \in DOMAIN packet_buffer' : packet_buffer'[j].id = added + 1
        /\ \A i \in DOMAIN packet_buffer :
              \E j \in DOMAIN packet_buffer' : packet_buffer'[j] = packet_buffer[i]
    BY <1>2, InsertedNode
  <2>3. DOMAIN packet_buffer' = 1..(Len(packet_buffer) + 1)
    BY <1>2, InsertedNode
  <2>4. packet_buffer' \in Seq(Node)
    BY <1>2, AddPacketInv DEF IInv, TypeOK
  <2>5. Len(packet_buffer') = Len(packet_buffer) + 1
    BY <1>1, <2>3, <2>4
  <2>6. ASSUME NEW k \in 1..added'
        PROVE  \/ \E i \in DOMAIN packet_buffer' : packet_buffer'[i].id = k
               \/ \E i \in DOMAIN out' : out'[i].id = k
    <3>1. k \in 1..added \/ k = added + 1
      BY <1>1, <2>1
    <3>2. QED
      BY <2>1, <2>2, <3>1 DEF NoLossNoDuplicate
  <2>7. Len(packet_buffer') + Len(out') = added'
    BY <1>1, <2>1, <2>5 DEF NoLossNoDuplicate
  <2>8. QED
    BY <2>6, <2>7 DEF NoLossNoDuplicate
<1>3. ASSUME NEW ok \in BOOLEAN, FlushHead(ok)
      PROVE  NoLossNoDuplicate'
  <2>1. /\ Len(packet_buffer') = Len(packet_buffer) - 1
        /\ Len(out') = Len(out) + 1
        /\ DOMAIN out' = 1..(Len(out) + 1)
        /\ \A i \in DOMAIN out : out'[i] = out[i]
        /\ out'[Len(out) + 1].id = packet_buffer[1].id
        /\ \A j \in DOMAIN packet_buffer' : packet_buffer'[j] = packet_buffer[j + 1]
    BY <1>3, FlushedHead
  <2>2. added' = added
    BY <1>3 DEF FlushHead, HeadUnlinked, LastReset
  <2>3. packet_buffer' \in Seq(Node)
    BY <1>3, FlushHeadInv DEF IInv, TypeOK
  <2>4. DOMAIN packet_buffer' = 1..(Len(packet_buffer) - 1)
    BY <1>1, <2>1, <2>3
  <2>5. ASSUME NEW k \in 1..added
        PROVE  \/ \E i \in DOMAIN packet_buffer' : packet_buffer'[i].id = k
               \/ \E i \in DOMAIN out' : out'[i].id = k
    <3>1. CASE \E i \in DOMAIN out : out[i].id = k
      BY <1>1, <2>1, <3>1
    <3>2. CASE \E i \in DOMAIN packet_buffer : packet_buffer[i].id = k
      <4>1. PICK i \in 1..Len(packet_buffer) : packet_buffer[i].id = k
        BY <1>1, <3>2
      <4>2. CASE i = 1
        BY <1>1, <2>1, <4>1, <4>2
      <4>3. CASE i > 1
        <5>1. i - 1 \in DOMAIN packet_buffer' /\ (i - 1) + 1 = i
          BY <1>1, <2>4, <4>3
        <5>2. packet_buffer'[i - 1] = packet_buffer[(i - 1) + 1]
          BY <2>1, <5>1
        <5>3. QED
          BY <4>1, <5>1, <5>2
      <4>4. QED
        BY <1>1, <4>2, <4>3
    <3>3. QED
      BY <3>1, <3>2 DEF NoLossNoDuplicate
  <2>6. QED
    BY <1>1, <2>1, <2>2, <2>5 DEF NoLossNoDuplicate
<1>4. CASE Return \/ UNCHANGED vars
  BY <1>4 DEF Return, vars, list, NoLossNoDuplicate
<1>5. QED
  BY <1>2, <1>3, <1>4 DEF Next

(* No packet is lost inside the buffer, and none leaves it twice. *)
THEOREM NothingLost == Spec => []NoLossNoDuplicate
<1>1. Init => NoLossNoDuplicate
  BY DEF Init, NoLossNoDuplicate
<1>2. QED
  BY <1>1, NoLossStep, Invariance, PTL DEF Spec

(* Every step keeps the bound on what add_packet leaves queued: only its   *)
(* return can establish "drained", and it is taken when Flush is false.    *)
LEMMA BoundedHoldStep == IInv /\ BoundedHold /\ [Next]_vars => BoundedHold'
<1> SUFFICES ASSUME IInv, BoundedHold, [Next]_vars PROVE BoundedHold'
  OBVIOUS
<1>1. CASE \E s \in Stream, p \in Pts : AddPacket(s, p)
  BY <1>1 DEF AddPacket, NewNode, BoundedHold
<1>2. CASE \E ok \in BOOLEAN : FlushHead(ok)
  BY <1>2 DEF FlushHead, HeadUnlinked, LastReset, BoundedHold
<1>3. CASE Return
  <2>1. UNCHANGED <<packet_buffer, last_pktl>> /\ ~Flush
    BY <1>3 DEF Return, list
  <2>2. \E s \in Stream : last_pktl[s] = NULL
    BY <2>1, StreamAssumption DEF Flush, AllStreamsQueued
  <2>3. ASSUME MaxDelta > 0, NEW s \in Stream, last_pktl[s] # NULL
        PROVE  PtsOf(last_pktl[s]) - packet_buffer[1].pts \in 0..MaxDelta
    <3>1. PICK i \in DOMAIN packet_buffer : IsLastOf(s, i)
      BY <2>3 DEF IInv, PointersConsistent, LastIsLastOfStream
    <3>2. PtsOf(last_pktl[s]) = packet_buffer[i].pts
      BY <3>1, IndexOfNode DEF IInv, IsLastOf, PtsOf
    <3>3. DOMAIN packet_buffer = 1..Len(packet_buffer) /\ Len(packet_buffer) \in Nat
      BY BufferTypes DEF IInv
    <3>4. 1 \in DOMAIN packet_buffer /\ packet_buffer # <<>>
      BY <3>1, <3>3
    <3>5. /\ packet_buffer[i].pts \in Nat
          /\ packet_buffer[1].pts \in Nat /\ packet_buffer[1].pts \in Pts
      BY <3>1, <3>3, <3>4, BufferTypes DEF IInv
    <3>6. ~(Sub64(packet_buffer[i].pts, packet_buffer[1].pts) > MaxDelta)
      BY <2>1, <2>3, <3>2, <3>4 DEF Flush, SpanTooLong
    <3>7. packet_buffer[1].pts + MaxDelta < Wrap /\ Wrap \in Nat /\ MaxDelta \in Nat
      BY <3>5, WrapAssumption, DeltaAssumption
    <3>8. QED
      BY <3>2, <3>5, <3>6, <3>7 DEF Sub64
  <2>4. QED
    BY <2>1, <2>2, <2>3 DEF BoundedHold, PtsOf, Index
<1>4. CASE UNCHANGED vars
  BY <1>4 DEF vars, BoundedHold, PtsOf, Index
<1>5. QED
  BY <1>1, <1>2, <1>3, <1>4 DEF Next

(* After a successful add_packet at most one stream waits, and for no more *)
(* than the maximal delta: the unsigned subtraction misses no wrapped span. *)
THEOREM HoldBounded == Spec => []BoundedHold
<1>1. Init => BoundedHold
  BY StreamAssumption DEF Init, BoundedHold
<1>2. QED
  BY <1>1, BoundedHoldStep, Invariance, PTL DEF Spec
-----------------------------------------------------------------------------
(* Linking a packet puts it into the merge. *)
LEMMA MergePut ==
    ASSUME IInv, NEW s \in Stream, NEW p \in Pts, AddPacket(s, p)
    PROVE  Merge!Put(s, p)
<1> DEFINE Q == {packet_buffer[i] : i \in DOMAIN packet_buffer}
<1>1. Q' = Q \cup {NewNode(s, p)}
  BY InsertedNode
<1>2. added < MaxPackets /\ added' = added + 1 /\ out' = out
  BY DEF AddPacket
<1>3. NewNode(s, p) = [id |-> added + 1, type |-> s, pts |-> p]
  BY DEF NewNode
<1>4. QED
  BY <1>1, <1>2, <1>3 DEF Merge!Put

(* A stream has a packet waiting exactly when m_last_pktl names one. *)
LEMMA MergeAllWait ==
    ASSUME IInv
    PROVE  Merge!AllWait <=> AllStreamsQueued
<1> DEFINE Q == {packet_buffer[i] : i \in DOMAIN packet_buffer}
<1>1. ASSUME NEW s \in Stream
      PROVE  (\E q \in Q : q.type = s) <=> last_pktl[s] # NULL
  BY DEF IInv, PointersConsistent, LastIsLastOfStream, IsLastOf
<1>2. QED
  BY <1>1 DEF Merge!AllWait, AllStreamsQueued

(* A span found too long by unsigned arithmetic is one in the integers. *)
LEMMA MergeTooFar ==
    ASSUME IInv, SpanTooLong
    PROVE  Merge!TooFar(packet_buffer[1])
<1>1. PICK s \in Stream :
      /\ last_pktl[s] # NULL
      /\ Sub64(PtsOf(last_pktl[s]), packet_buffer[1].pts) > MaxDelta
  BY DEF SpanTooLong
<1>2. PICK i \in DOMAIN packet_buffer : IsLastOf(s, i)
  BY <1>1 DEF IInv, PointersConsistent, LastIsLastOfStream
<1>3. DOMAIN packet_buffer = 1..Len(packet_buffer) /\ Len(packet_buffer) \in Nat
  BY BufferTypes DEF IInv
<1>4. \A j \in DOMAIN packet_buffer : packet_buffer[j].id \in Nat
  BY <1>3, BufferTypes, BoundAssumption DEF IInv
<1>5. ASSUME NEW j \in DOMAIN packet_buffer, packet_buffer[j].type = packet_buffer[i].type
      PROVE  packet_buffer[j].id <= packet_buffer[i].id
  <2>1. j = i \/ j < i
    BY <1>2, <1>3, <1>5 DEF IsLastOf
  <2>2. QED
    BY <1>3, <1>4, <1>5, <2>1 DEF IInv, StreamFIFO
<1>6. PtsOf(last_pktl[s]) = packet_buffer[i].pts
  BY <1>2, IndexOfNode DEF IInv, IsLastOf, PtsOf
<1>7. /\ packet_buffer[i].pts \in Nat
      /\ packet_buffer[1].pts \in Nat /\ packet_buffer[1].pts \in Pts
  <2>1. 1 \in DOMAIN packet_buffer
    BY <1>2, <1>3
  <2>2. QED
    BY <1>2, <1>3, <2>1, BufferTypes DEF IInv
<1>8. packet_buffer[i].pts - packet_buffer[1].pts \notin 0..MaxDelta
  <2>1. packet_buffer[1].pts + MaxDelta < Wrap /\ Wrap \in Nat /\ MaxDelta \in Nat
    BY <1>7, WrapAssumption, DeltaAssumption
  <2>2. QED
    BY <1>1, <1>6, <1>7, <2>1 DEF Sub64
<1>9. MaxDelta > 0
  BY DEF SpanTooLong
<1>10. QED
  BY <1>2, <1>5, <1>8, <1>9 DEF Merge!TooFar, Merge!Youngest

(* Unlinking the head delivers the oldest packet of its stream. *)
LEMMA MergeDeliver ==
    ASSUME IInv, NEW ok \in BOOLEAN, FlushHead(ok)
    PROVE  \E q \in {packet_buffer[i] : i \in DOMAIN packet_buffer},
              reason \in {"all", "forced"} : Merge!Deliver(q, reason)
<1> DEFINE h == packet_buffer[1]
           Q == {packet_buffer[i] : i \in DOMAIN packet_buffer}
           why == IF AllStreamsQueued THEN "all" ELSE "forced"
           o == [id |-> h.id, type |-> h.type, pts |-> h.pts, reason |-> why]
<1>1. /\ 1 \in DOMAIN packet_buffer
      /\ \A j \in DOMAIN packet_buffer' : /\ j + 1 \in DOMAIN packet_buffer
                                          /\ packet_buffer'[j] = packet_buffer[j + 1]
      /\ Len(packet_buffer') = Len(packet_buffer) - 1
  BY FlushedHead
<1>2. /\ DOMAIN packet_buffer = 1..Len(packet_buffer) /\ Len(packet_buffer) \in Nat
      /\ \A j \in DOMAIN packet_buffer : packet_buffer[j].id \in Nat
  BY BufferTypes, BoundAssumption DEF IInv
<1>3. DOMAIN packet_buffer' = 1..(Len(packet_buffer) - 1)
  <2>1. packet_buffer' \in Seq(Node)
    BY FlushHeadInv DEF IInv, TypeOK
  <2>2. QED
    BY <1>1, <2>1
<1>4. Q' = Q \ {h}
  <2>1. ASSUME NEW j \in DOMAIN packet_buffer'
        PROVE  packet_buffer'[j] \in Q \ {h}
    <3>1. j + 1 \in DOMAIN packet_buffer /\ j + 1 # 1
      BY <1>1, <1>2, <1>3
    <3>2. packet_buffer[j + 1] # h
      BY <1>1, <3>1 DEF IInv, IdsUnique
    <3>3. QED
      BY <1>1, <3>1, <3>2
  <2>2. ASSUME NEW i \in DOMAIN packet_buffer, packet_buffer[i] # h
        PROVE  \E j \in DOMAIN packet_buffer' : packet_buffer'[j] = packet_buffer[i]
    <3>1. i - 1 \in DOMAIN packet_buffer' /\ (i - 1) + 1 = i
      BY <1>2, <1>3, <2>2
    <3>2. packet_buffer'[i - 1] = packet_buffer[(i - 1) + 1]
      BY <1>1, <3>1
    <3>3. QED
      BY <3>1, <3>2
  <2>3. QED
    BY <2>1, <2>2
<1>5. Merge!Oldest(h)
  <2>1. ASSUME NEW j \in DOMAIN packet_buffer, packet_buffer[j].type = h.type
        PROVE  h.id <= packet_buffer[j].id
    BY <1>1, <1>2, <2>1 DEF IInv, StreamFIFO
  <2>2. QED
    BY <2>1 DEF Merge!Oldest
<1>6. IF why = "all" THEN Merge!AllWait ELSE ~Merge!AllWait /\ Merge!TooFar(h)
  <2>1. AllStreamsQueued \/ SpanTooLong
    BY DEF FlushHead, Flush
  <2>2. QED
    BY <2>1, MergeAllWait, MergeTooFar
<1>7. out' = Append(out, o) /\ added' = added
  BY DEF FlushHead
<1>8. h \in Q /\ why \in {"all", "forced"}
  BY <1>1
<1> HIDE DEF h, why, Q
<1>9. \E q \in Q, reason \in {"all", "forced"} :
         /\ Merge!Oldest(q)
         /\ IF reason = "all" THEN Merge!AllWait ELSE ~Merge!AllWait /\ Merge!TooFar(q)
         /\ Q' = Q \ {q}
         /\ out' = Append(out, [id |-> q.id, type |-> q.type,
                               pts |-> q.pts, reason |-> reason])
         /\ added' = added
  BY <1>4, <1>5, <1>6, <1>7, <1>8
<1>10. QED
  BY <1>9 DEF Q, Merge!Deliver

(* Every step of the list is a step of the merge, or none. *)
LEMMA MergeStep ==
    ASSUME IInv, [Next]_vars
    PROVE  [Merge!Next]_(Merge!mergeVars)
<1>1. ASSUME NEW s \in Stream, NEW p \in Pts, AddPacket(s, p)
      PROVE  Merge!Next
  BY <1>1, MergePut DEF Merge!Next
<1>2. ASSUME NEW ok \in BOOLEAN, FlushHead(ok)
      PROVE  Merge!Next
  BY <1>2, MergeDeliver DEF Merge!Next
<1>3. CASE Return
  BY <1>3 DEF Return, list, Merge!mergeVars
<1>4. CASE UNCHANGED vars
  BY <1>4 DEF vars, Merge!mergeVars
<1>5. QED
  BY <1>1, <1>2, <1>3, <1>4 DEF Next

(* The list of jitter_buffer.cpp, with its pointers and its unsigned       *)
(* arithmetic, implements the merge of its streams' queues.                *)
THEOREM PacketMergeImplemented == Spec => ImplementsPacketMerge
<1>1. Init => Merge!Init
  BY DEF Init, Merge!Init
<1>2. IInv /\ [Next]_vars => [Merge!Next]_(Merge!mergeVars)
  BY MergeStep
<1>3. QED
  BY <1>1, <1>2, Invariance, PTL DEF Spec, ImplementsPacketMerge, Merge!Spec
=============================================================================
