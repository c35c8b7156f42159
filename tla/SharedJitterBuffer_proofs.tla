----------------------- MODULE SharedJitterBuffer_proofs -----------------------
(***************************************************************************)
(* Proofs about SharedJitterBuffer, for any number of threads and packets: *)
(* what m_mutex keeps apart, and that the pointer operations of add_packet *)
(* neither follow a NULL or deleted node nor fail their assertion as long  *)
(* as no two calls overlap.  The inductive invariant SInv says at each     *)
(* point of such a call which sequence of nodes the pointers spell out,    *)
(* and which node is beside it.  That those operations implement           *)
(* JitterBuffer rests on its inductive invariant RInv, which adds to SInv  *)
(* the inductive invariant of JitterBuffer, under the refinement mapping,  *)
(* and how far the thread inside add_packet is (Progress).                 *)
(***************************************************************************)
EXTENDS SharedJitterBuffer, SequenceTheorems, FiniteSetTheorems,
        WellFoundedInduction, TLAPS

-----------------------------------------------------------------------------
(* What every variable ranges over, whatever the threads do to each other. *)
Locals == [ts : Pts, cfg : BOOLEAN, this : Pointer, np : Pointer, pktl : Pointer,
           reason : {"all", "forced"}]
Object == [head : Pointer, end : Pointer, last : [Stream -> Pointer],
           next : [NodeId -> Pointer]]
TypeOK ==
    /\ jb \in Object
    /\ pkts \in Seq([type : Stream, pts : Pts])
    /\ Len(pkts) <= MaxPackets
    /\ pc \in [Stream -> {"idle", "lock", "flush", "return"} \cup Insert \cup Pop]
    /\ loc \in [Stream -> Locals]

(* A data packet is added by the holder of m_mutex. *)
LockInv == \A t \in Stream : Inside(t) /\ ~loc[t].cfg => holder = t

Live == DOMAIN pkts \ freed
Nodes(q, m) == {q[i] : i \in 1..m}
EndOf(q, m) == IF m = 0 THEN NULL ELSE q[m]

(* The list consists of q[1], ..., q[m], linked in that order, each once. *)
Linked(q, m) ==
    /\ m \in Nat /\ q \in [1..m -> NodeId]
    /\ \A i, j \in 1..m : q[i] = q[j] => i = j
    /\ jb.head = IF m = 0 THEN NULL ELSE q[1]
    /\ \A i \in 1..m : jb.next[q[i]] = IF i = m THEN NULL ELSE q[i + 1]

(* Each m_last_pktl is NULL or one of S, of its own stream. *)
LastIn(S) == \A s \in Stream : jb.last[s] # NULL =>
                 jb.last[s] \in S /\ pkts[jb.last[s]].type = s

(* Nothing is being linked or unlinked. *)
Whole(q, m) == /\ Linked(q, m) /\ Nodes(q, m) = Live
               /\ jb.end = EndOf(q, m)
               /\ LastIn(Live)

(* Node n is alive and not in the list: it is being linked, or unlinked. *)
Beside(q, m, n) == Linked(q, m) /\ n \in Live /\ Nodes(q, m) = Live \ {n}

(* Thread t is linking its node behind np. *)
Inserting(t, q, m) ==
    /\ Beside(q, m, loc[t].this)
    /\ LastIn(Live \ {loc[t].this})
    /\ pkts[loc[t].this].type = t
    /\ loc[t].np \in Nodes(q, m) \cup {NULL}

(* What holds of the list at each point of a call that no other overlaps. *)
AtRest(t, q, m) ==
    /\ pc[t] \in {"idle", "lock", "insert", "flush", "return", "callback"}
    /\ Whole(q, m)

Searching(t, q, m) ==
    /\ pc[t] \in {"peek", "compare", "walk", "assert", "set_end"}
    /\ Inserting(t, q, m)
    /\ jb.end = EndOf(q, m)
    /\ pc[t] = "compare" => Deref(loc[t].np) # NULL
    /\ pc[t] \in {"assert", "set_end"} => Deref(loc[t].np) = NULL

AtLink(t, q, m) ==
    /\ pc[t] \in {"link_next", "link_prev"}
    /\ Inserting(t, q, m)
    /\ jb.end = IF Deref(loc[t].np) = NULL THEN loc[t].this ELSE EndOf(q, m)
    /\ pc[t] = "link_prev" => jb.next[loc[t].this] = Deref(loc[t].np)

AtLast(t, q, m) ==
    /\ pc[t] = "link_last"
    /\ Whole(q, m)
    /\ loc[t].this \in Live /\ pkts[loc[t].this].type = t

Taking(t, q, m) ==
    /\ pc[t] \in {"read_head", "unlink"}
    /\ Whole(q, m) /\ jb.head # NULL
    /\ pc[t] = "unlink" => loc[t].pktl = jb.head

Removing(t, q, m) ==
    /\ pc[t] \in {"fix_end", "fix_last", "delete"}
    /\ Beside(q, m, loc[t].pktl)
    /\ jb.end = IF pc[t] = "fix_end" /\ m = 0 THEN loc[t].pktl ELSE EndOf(q, m)
    /\ LastIn(IF pc[t] = "delete" THEN Live \ {loc[t].pktl} ELSE Live)

Shape(t, q, m) ==
    \/ AtRest(t, q, m) \/ Searching(t, q, m) \/ AtLink(t, q, m)
    \/ AtLast(t, q, m) \/ Taking(t, q, m) \/ Removing(t, q, m)

Shaped(t) == \E m \in Nat : \E q \in [1..m -> NodeId] : Shape(t, q, m)

Alone(t) == \A u \in Stream \ {t} : ~Inside(u)

NoOverlapInv ==
    /\ fault = "none"
    /\ ~Overlapping
    /\ freed \subseteq DOMAIN pkts
    /\ \A t \in Stream : Alone(t) => Shaped(t)

SInv == TypeOK /\ LockInv /\ (~overlap => NoOverlapInv)
-----------------------------------------------------------------------------
(* What the type invariant says of one thread and of the object. *)
LEMMA TypeFacts ==
    ASSUME TypeOK, NEW t \in Stream
    PROVE  /\ jb.head \in Pointer /\ jb.end \in Pointer
           /\ jb.last \in [Stream -> Pointer] /\ jb.next \in [NodeId -> Pointer]
           /\ loc[t] \in Locals
           /\ loc[t].this \in Pointer /\ loc[t].np \in Pointer /\ loc[t].pktl \in Pointer
           /\ loc[t].cfg \in BOOLEAN
           /\ Deref(loc[t].np) \in Pointer
           /\ Len(pkts) \in Nat /\ DOMAIN pkts = 1..Len(pkts)
           /\ MaxPackets \in Nat
           /\ \A n \in NodeId : n \in Pointer /\ n # NULL
           /\ \A n \in Pointer : n # NULL => n \in NodeId
<1>1. MaxPackets \in Nat
  BY SharedAssumption
<1>2. /\ jb.head \in Pointer /\ jb.end \in Pointer
      /\ jb.last \in [Stream -> Pointer] /\ jb.next \in [NodeId -> Pointer]
  BY DEF TypeOK, Object
<1>3. loc[t] \in Locals
  BY DEF TypeOK
<1>4. /\ loc[t].this \in Pointer /\ loc[t].np \in Pointer /\ loc[t].pktl \in Pointer
      /\ loc[t].cfg \in BOOLEAN
  BY <1>3 DEF Locals
<1>5. \A n \in NodeId : n \in Pointer /\ n # NULL
  BY <1>1 DEF NodeId, Pointer, NULL
<1>6. \A n \in Pointer : n # NULL => n \in NodeId
  BY <1>1 DEF NodeId, Pointer, NULL
<1>7. Deref(loc[t].np) \in Pointer
  BY <1>2, <1>4, <1>6 DEF Deref
<1>8. Len(pkts) \in Nat /\ DOMAIN pkts = 1..Len(pkts)
  BY DEF TypeOK
<1>9. QED
  BY <1>1, <1>2, <1>3, <1>4, <1>5, <1>6, <1>7, <1>8

(* Every variable keeps its range. *)
LEMMA TypeStep == TypeOK /\ [Next]_vars => TypeOK'
<1> SUFFICES ASSUME TypeOK, [Next]_vars PROVE TypeOK'
  OBVIOUS
<1>1. CASE UNCHANGED vars
  BY <1>1 DEF vars, thread, hist, TypeOK
<1>2. CASE Next
  <2>1. PICK t \in Stream :
           \/ \E p \in Pts : Send(t, p)
           \/ Lock(t) \/ InsertStep(t) \/ FlushStep(t) \/ Return(t)
           \/ Crash(t)
    BY <1>2 DEF Next
  <2>2. /\ jb.head \in Pointer /\ jb.end \in Pointer
        /\ jb.last \in [Stream -> Pointer] /\ jb.next \in [NodeId -> Pointer]
        /\ loc[t] \in Locals
        /\ loc[t].this \in Pointer /\ loc[t].np \in Pointer /\ loc[t].pktl \in Pointer
        /\ Deref(loc[t].np) \in Pointer
        /\ Len(pkts) \in Nat /\ DOMAIN pkts = 1..Len(pkts)
        /\ MaxPackets \in Nat
        /\ \A n \in NodeId : n \in Pointer /\ n # NULL
        /\ \A n \in Pointer : n # NULL => n \in NodeId
        /\ NULL \in Pointer
    BY TypeFacts DEF Pointer, NULL
  <2>3. /\ jb \in Object
        /\ pkts \in Seq([type : Stream, pts : Pts])
        /\ Len(pkts) <= MaxPackets
        /\ pc \in [Stream -> {"idle", "lock", "flush", "return"} \cup Insert \cup Pop]
        /\ loc \in [Stream -> Locals]
    BY DEF TypeOK
  <2>4. ASSUME NEW p \in Pts, Send(t, p)
        PROVE  TypeOK'
    <3>1. loc' \in [Stream -> Locals]
      <4>1. PICK b \in BOOLEAN : b <=> t \in need_cfg
        OBVIOUS
      <4>2. loc' = [loc EXCEPT ![t].ts = p, ![t].cfg = b]
        BY <2>4, <4>1 DEF Send
      <4>3. QED
        BY <2>2, <2>3, <4>2 DEF Locals
    <3>2. pc' \in [Stream -> {"idle", "lock", "flush", "return"} \cup Insert \cup Pop]
      BY <2>3, <2>4 DEF Send, Goto, Insert
    <3>3. QED
      BY <2>3, <2>4, <3>1, <3>2 DEF Send, TypeOK
  <2>5. CASE Lock(t)
    <3>1. loc' \in [Stream -> Locals]
      BY <2>2, <2>3, <2>5 DEF Lock, Locals
    <3>2. pc' \in [Stream -> {"idle", "lock", "flush", "return"} \cup Insert \cup Pop]
      BY <2>3, <2>5 DEF Lock, Goto, Insert
    <3>3. QED
      BY <2>3, <2>5, <3>1, <3>2 DEF Lock, TypeOK
  <2>6. CASE NewNode(t)
    <3>1. Len(pkts) + 1 \in Pointer /\ jb.last[t] \in Pointer
      BY <2>2, <2>6 DEF NewNode, Pointer
    <3>2. loc' \in [Stream -> Locals]
      BY <2>2, <2>3, <2>6, <3>1 DEF NewNode, Locals
    <3>3. pc' \in [Stream -> {"idle", "lock", "flush", "return"} \cup Insert \cup Pop]
      BY <2>3, <2>6 DEF NewNode, Goto, Insert
    <3>4. [type |-> t, pts |-> loc[t].ts] \in [type : Stream, pts : Pts]
      BY <2>2 DEF Locals
    <3>5. /\ pkts' \in Seq([type : Stream, pts : Pts])
          /\ Len(pkts') = Len(pkts) + 1
      BY <2>2, <2>3, <2>6, <3>4 DEF NewNode
    <3>6. Len(pkts') <= MaxPackets /\ jb' = jb
      BY <2>2, <2>6, <3>5 DEF NewNode
    <3>7. QED
      BY <2>3, <3>2, <3>3, <3>5, <3>6 DEF TypeOK
  <2>7. CASE Peek(t) \/ CompareEnd(t) \/ Walk(t) \/ AssertLast(t)
    <3>1. loc' \in [Stream -> Locals]
      <4>1. ASSUME NEW n \in Pointer
            PROVE  [loc EXCEPT ![t].np = n] \in [Stream -> Locals]
        BY <2>2, <2>3 DEF Locals
      <4>2. loc' = loc \/ \E n \in Pointer : loc' = [loc EXCEPT ![t].np = n]
        BY <2>2, <2>7 DEF Peek, CompareEnd, Walk, AssertLast
      <4>3. QED
        BY <2>3, <4>1, <4>2
    <3>2. pc' \in [Stream -> {"idle", "lock", "flush", "return"} \cup Insert \cup Pop]
      BY <2>3, <2>7 DEF Peek, CompareEnd, Walk, AssertLast, Goto, Insert
    <3>3. jb' = jb /\ pkts' = pkts
      BY <2>7 DEF Peek, CompareEnd, Walk, AssertLast
    <3>4. QED
      BY <2>3, <3>1, <3>2, <3>3 DEF TypeOK
  <2>8. CASE SetEnd(t) \/ LinkNext(t) \/ LinkPrev(t) \/ LinkLast(t)
    <3>1. jb' \in Object
      BY <2>2, <2>3, <2>8 DEF SetEnd, LinkNext, LinkPrev, LinkLast, Write, Object
    <3>2. pc' \in [Stream -> {"idle", "lock", "flush", "return"} \cup Insert \cup Pop]
      BY <2>3, <2>8 DEF SetEnd, LinkNext, LinkPrev, LinkLast, Write, Goto, Insert
    <3>3. loc' = loc /\ pkts' = pkts
      BY <2>8 DEF SetEnd, LinkNext, LinkPrev, LinkLast, Write
    <3>4. QED
      BY <2>3, <3>1, <3>2, <3>3 DEF TypeOK
  <2>9. CASE DecideFlush(t) \/ ReadHead(t) \/ DeleteNode(t) \/ Return(t)
    <3>1. loc' \in [Stream -> Locals]
      <4>1. ASSUME NEW r \in {"all", "forced"}
            PROVE  [loc EXCEPT ![t].reason = r] \in [Stream -> Locals]
        BY <2>2, <2>3 DEF Locals
      <4>2. [loc EXCEPT ![t].pktl = jb.head] \in [Stream -> Locals]
        BY <2>2, <2>3 DEF Locals
      <4>3. \/ loc' = loc \/ loc' = [loc EXCEPT ![t].pktl = jb.head]
            \/ \E r \in {"all", "forced"} : loc' = [loc EXCEPT ![t].reason = r]
        BY <2>9 DEF DecideFlush, ReadHead, DeleteNode, Return
      <4>4. QED
        BY <2>3, <4>1, <4>2, <4>3
    <3>2. pc' \in [Stream -> {"idle", "lock", "flush", "return"} \cup Insert \cup Pop]
      BY <2>3, <2>9 DEF DecideFlush, ReadHead, DeleteNode, Return, Goto, Insert, Pop
    <3>3. jb' = jb /\ pkts' = pkts
      BY <2>9 DEF DecideFlush, ReadHead, DeleteNode, Return
    <3>4. QED
      BY <2>3, <3>1, <3>2, <3>3 DEF TypeOK
  <2>10. CASE Unlink(t) \/ FixEnd(t) \/ FixLast(t)
    <3>1. jb' \in Object
      <4>1. CASE Unlink(t)
        <5>1. loc[t].pktl # NULL
          BY <4>1 DEF Unlink, Write, At, Safe, Touched
        <5>2. jb.next[loc[t].pktl] \in Pointer
          BY <2>2, <5>1
        <5>3. QED
          BY <2>3, <4>1, <5>2 DEF Unlink, Write, Object
      <4>2. CASE FixEnd(t)
        BY <2>2, <2>3, <4>2 DEF FixEnd, Write, Object
      <4>3. CASE FixLast(t)
        BY <2>2, <2>3, <4>3 DEF FixLast, Write, Object
      <4>4. QED
        BY <2>10, <4>1, <4>2, <4>3
    <3>2. pc' \in [Stream -> {"idle", "lock", "flush", "return"} \cup Insert \cup Pop]
      BY <2>3, <2>10 DEF Unlink, FixEnd, FixLast, Write, Goto, Pop
    <3>3. loc' = loc /\ pkts' = pkts
      BY <2>10 DEF Unlink, FixEnd, FixLast, Write
    <3>4. QED
      BY <2>3, <3>1, <3>2, <3>3 DEF TypeOK
  <2>11. ASSUME NEW ok \in BOOLEAN, Callback(t, ok)
         PROVE  TypeOK'
    <3>1. pc' \in [Stream -> {"idle", "lock", "flush", "return"} \cup Insert \cup Pop]
      BY <2>3, <2>11 DEF Callback, Goto
    <3>2. QED
      BY <2>3, <2>11, <3>1 DEF Callback, TypeOK
  <2>12. CASE Crash(t)
    BY <2>3, <2>12 DEF Crash, thread, TypeOK
  <2>13. QED
    BY <2>1, <2>4, <2>5, <2>6, <2>7, <2>8, <2>9, <2>10, <2>11, <2>12
       DEF InsertStep, FlushStep
<1>3. QED
  BY <1>1, <1>2

(* A step of one thread leaves the others where they are. *)
LEMMA OthersStay ==
    ASSUME TypeOK, NEW t \in Stream, NEW u \in Stream, t # u,
           \/ \E p \in Pts : Send(t, p)
           \/ Lock(t) \/ InsertStep(t) \/ FlushStep(t) \/ Return(t)
    PROVE  pc'[u] = pc[u] /\ loc'[u] = loc[u]
<1>1. DOMAIN pc = Stream /\ DOMAIN loc = Stream
  BY DEF TypeOK
<1>2. CASE \/ \E p \in Pts : Send(t, p)
           \/ Lock(t) \/ NewNode(t) \/ Peek(t) \/ CompareEnd(t) \/ Walk(t) \/ AssertLast(t)
  BY <1>1, <1>2 DEF Send, Lock, NewNode, Peek, CompareEnd, Walk, AssertLast, Goto
<1>3. CASE SetEnd(t) \/ LinkNext(t) \/ LinkPrev(t) \/ LinkLast(t)
  BY <1>1, <1>3 DEF SetEnd, LinkNext, LinkPrev, LinkLast, Write, Goto
<1>4. CASE FlushStep(t) \/ Return(t)
  BY <1>1, <1>4 DEF FlushStep, DecideFlush, ReadHead, Unlink, FixEnd, FixLast, Write,
     DeleteNode, Callback, Return, Goto
<1>5. QED
  BY <1>2, <1>3, <1>4 DEF InsertStep

(* m_mutex is held by whoever adds a data packet. *)
LEMMA LockStep == TypeOK /\ LockInv /\ [Next]_vars => LockInv'
<1> SUFFICES ASSUME TypeOK, LockInv, [Next]_vars PROVE LockInv'
  OBVIOUS
<1>1. CASE UNCHANGED vars
  BY <1>1 DEF vars, thread, LockInv, Inside
<1>2. CASE Next
  <2>1. PICK t \in Stream :
           \/ \E p \in Pts : Send(t, p)
           \/ Lock(t) \/ InsertStep(t) \/ FlushStep(t) \/ Return(t)
           \/ Crash(t)
    BY <1>2 DEF Next
  <2>2. CASE Crash(t)
    BY <2>2 DEF Crash, thread, LockInv, Inside
  <2>3. SUFFICES ASSUME \/ \E p \in Pts : Send(t, p)
                        \/ Lock(t) \/ InsertStep(t) \/ FlushStep(t) \/ Return(t),
                        NEW u \in Stream, Inside(u)', ~loc'[u].cfg
                 PROVE  holder' = u
    BY <2>1, <2>2 DEF LockInv
  <2>4. DOMAIN pc = Stream /\ DOMAIN loc = Stream /\ loc[t] \in Locals /\ NoThread # u
    BY SharedAssumption DEF TypeOK
  <2>5. u # t => pc'[u] = pc[u] /\ loc'[u] = loc[u] /\ Inside(u) /\ holder = u
    <3>1. u # t => pc'[u] = pc[u] /\ loc'[u] = loc[u]
      BY <2>3, OthersStay
    <3>2. QED
      BY <2>3, <3>1 DEF Inside, LockInv
  <2>6. CASE Lock(t)
    <3>1. holder = NoThread /\ holder' = t
      BY <2>6 DEF Lock
    <3>2. QED
      BY <2>4, <2>5, <3>1
  <2>7. CASE Return(t)
    <3>1. /\ pc[t] = "return" /\ pc'[t] \in {"lock", "idle"} /\ loc' = loc
          /\ holder' = IF loc[t].cfg THEN holder ELSE NoThread
      BY <2>4, <2>7 DEF Return, At, Goto
    <3>2. u # t
      BY <2>3, <3>1 DEF Inside
    <3>3. loc[t].cfg
      BY <2>5, <3>1, <3>2 DEF LockInv, Inside
    <3>4. QED
      BY <2>5, <3>1, <3>2, <3>3
  <2>8. ASSUME NEW p \in Pts, Send(t, p)
        PROVE  holder' = u
    <3>1. holder' = holder
      BY <2>8 DEF Send
    <3>2. CASE u = t
      <4>1. pc'[t] = "lock" \/ (t \in need_cfg /\ loc'[t].cfg = (t \in need_cfg))
        BY <2>4, <2>8 DEF Send, Goto, Locals
      <4>2. QED
        BY <2>3, <3>2, <4>1 DEF Inside
    <3>3. QED
      BY <2>5, <3>1, <3>2
  <2>9. CASE InsertStep(t) \/ FlushStep(t)
    <3>1. holder' = holder /\ Inside(t) /\ loc'[t].cfg = loc[t].cfg
      <4>1. CASE NewNode(t) \/ Peek(t) \/ CompareEnd(t) \/ Walk(t) \/ AssertLast(t)
        BY <2>4, <4>1 DEF NewNode, Peek, CompareEnd, Walk, AssertLast, At, Inside, Locals
      <4>2. CASE SetEnd(t) \/ LinkNext(t) \/ LinkPrev(t) \/ LinkLast(t)
        BY <4>2 DEF SetEnd, LinkNext, LinkPrev, LinkLast, Write, At, Inside
      <4>3. CASE FlushStep(t)
        BY <2>4, <4>3 DEF FlushStep, DecideFlush, ReadHead, Unlink, FixEnd, FixLast, Write,
           DeleteNode, Callback, At, Inside, Locals
      <4>4. QED
        BY <2>9, <4>1, <4>2, <4>3 DEF InsertStep
    <3>2. u = t => holder = t
      BY <2>3, <3>1 DEF LockInv
    <3>3. QED
      BY <2>5, <3>1, <3>2
  <2>10. QED
    BY <2>3, <2>6, <2>7, <2>8, <2>9
<1>3. QED
  BY <1>1, <1>2

(* Nobody is in add_packet at first. *)
LEMMA SharedInit == Init => TypeOK /\ LockInv
<1> SUFFICES ASSUME Init PROVE TypeOK /\ LockInv
  OBVIOUS
<1>1. NULL \in Pointer /\ MaxPackets \in Nat
  BY SharedAssumption DEF NULL, Pointer
<1>2. jb \in Object
  BY <1>1 DEF Init, Object
<1>3. /\ pkts \in Seq([type : Stream, pts : Pts]) /\ Len(pkts) <= MaxPackets
      /\ pc \in [Stream -> {"idle", "lock", "flush", "return"} \cup Insert \cup Pop]
  BY <1>1 DEF Init
<1>4. [ts |-> 0, cfg |-> FALSE, this |-> NULL, np |-> NULL,
       pktl |-> NULL, reason |-> "all"] \in Locals
  BY <1>1, SharedAssumption DEF Locals
<1>5. loc \in [Stream -> Locals]
  BY <1>4 DEF Init
<1>6. \A t \in Stream : ~Inside(t)
  BY DEF Init, Inside
<1>7. QED
  BY <1>2, <1>3, <1>5, <1>6 DEF TypeOK, LockInv

(* Of two calls inside add_packet one adds a configuration packet: the     *)
(* other one holds m_mutex.                                                *)
THEOREM LockSeparates == Spec => []OverlapNeedsConfig
<1>1. Init => TypeOK /\ LockInv
  BY SharedInit
<1>2. TypeOK /\ LockInv /\ [Next]_vars => (TypeOK /\ LockInv)'
  BY TypeStep, LockStep
<1>3. LockInv => OverlapNeedsConfig
  BY DEF LockInv, OverlapNeedsConfig
<1>4. QED
  BY <1>1, <1>2, <1>3, PTL DEF Spec
-----------------------------------------------------------------------------
(* What a list says of its nodes and pointers. *)
LEMMA ListFacts ==
    ASSUME TypeOK, NEW m \in Nat, NEW q \in [1..m -> NodeId], Linked(q, m)
    PROVE  /\ NULL \notin Nodes(q, m)
           /\ jb.head = NULL <=> m = 0
           /\ m = 0 => Nodes(q, m) = {}
           /\ m # 0 => jb.head \in Nodes(q, m) /\ EndOf(q, m) \in Nodes(q, m)
           /\ \A n \in Nodes(q, m) \cup {NULL} :
                 Deref(n) # NULL => m # 0 /\ Deref(n) \in Nodes(q, m)
           /\ m # 0 => Deref(EndOf(q, m)) = NULL
<1>1. \A n \in NodeId : n # NULL
  BY SharedAssumption DEF NodeId, NULL
<1>2. NULL \notin Nodes(q, m) /\ (m = 0 => Nodes(q, m) = {})
  BY <1>1 DEF Nodes
<1>3. m # 0 => 1 \in 1..m /\ m \in 1..m
  OBVIOUS
<1>4. jb.head = NULL <=> m = 0
  BY <1>1, <1>3 DEF Linked
<1>5. m # 0 => jb.head \in Nodes(q, m) /\ EndOf(q, m) \in Nodes(q, m)
  BY <1>3 DEF Linked, Nodes, EndOf
<1>6. ASSUME NEW n \in Nodes(q, m) \cup {NULL}, Deref(n) # NULL
      PROVE  m # 0 /\ Deref(n) \in Nodes(q, m)
  <2>1. CASE n = NULL
    BY <1>4, <1>5, <1>6, <2>1 DEF Deref
  <2>2. CASE n # NULL
    <3>1. PICK i \in 1..m : n = q[i]
      BY <2>2 DEF Nodes
    <3>2. i # m /\ Deref(n) = q[i + 1]
      BY <1>6, <2>2, <3>1 DEF Deref, Linked
    <3>3. i + 1 \in 1..m
      BY <3>1, <3>2
    <3>4. QED
      BY <3>2, <3>3 DEF Nodes
  <2>3. QED
    BY <2>1, <2>2
<1>7. m # 0 => Deref(EndOf(q, m)) = NULL
  BY <1>1, <1>3 DEF Deref, EndOf, Linked
<1>8. QED
  BY <1>2, <1>4, <1>5, <1>6, <1>7

(* A live node may be touched. *)
LEMMA LiveFacts ==
    ASSUME TypeOK
    PROVE  /\ NULL \notin Live
           /\ Live \cap freed = {}
           /\ Live \subseteq NodeId
           /\ Live \subseteq DOMAIN pkts
  BY SharedAssumption DEF TypeOK, Live, NULL, NodeId

(* A live node has the type of a stream. *)
LEMMA NodeTypes ==
    ASSUME TypeOK
    PROVE  \A n \in Live : pkts[n].type \in Stream
<1> DEFINE R == [type : Stream, pts : Pts]
<1>1. \A r \in R : r.type \in Stream
  OBVIOUS
<1> HIDE DEF R
<1>2. pkts \in Seq(R)
  BY DEF TypeOK, R
<1>3. \A n \in DOMAIN pkts : pkts[n] \in R
  BY <1>2
<1>4. QED
  BY <1>1, <1>3 DEF Live

(* No thread whose list has its shape follows NULL or a deleted node. *)
LEMMA ShapedIsSafe ==
    ASSUME TypeOK, NEW t \in Stream, Shaped(t)
    PROVE  Safe(t)
<1>1. PICK m \in Nat : \E q \in [1..m -> NodeId] : Shape(t, q, m)
  BY DEF Shaped
<1>2. PICK q \in [1..m -> NodeId] : Shape(t, q, m)
  BY <1>1
<1>3. SUFFICES Touched(t) \subseteq Live
  BY LiveFacts DEF Safe
<1>4. CASE AtRest(t, q, m)
  <2>1. /\ Linked(q, m) /\ Nodes(q, m) = Live /\ LastIn(Live)
        /\ pc[t] \in {"idle", "lock", "insert", "flush", "return", "callback"}
    BY <1>4 DEF AtRest, Whole
  <2>2. jb.head # NULL => jb.head \in Live
    BY <2>1, ListFacts
  <2>3. Range(jb.last) \ {NULL} \subseteq Live
    BY <2>1 DEF LastIn, Range, TypeOK, Object
  <2>4. pc[t] = "flush" => Touched(t) \subseteq Live
    BY <2>2, <2>3 DEF Touched
  <2>5. pc[t] # "flush" => Touched(t) = {}
    BY <2>1 DEF Touched
  <2>6. QED
    BY <2>4, <2>5
<1>5. CASE Searching(t, q, m)
  <2>1. /\ Linked(q, m) /\ Nodes(q, m) \subseteq Live
        /\ loc[t].np \in Nodes(q, m) \cup {NULL}
        /\ pc[t] \in {"peek", "compare", "walk", "assert", "set_end"}
        /\ jb.end = EndOf(q, m)
        /\ pc[t] = "compare" => Deref(loc[t].np) # NULL
    BY <1>5 DEF Searching, Inserting, Beside
  <2>2. pc[t] = "compare" => jb.end \in Nodes(q, m)
    BY <2>1, ListFacts
  <2>3. Deref(loc[t].np) # NULL => Deref(loc[t].np) \in Nodes(q, m)
    BY <2>1, ListFacts
  <2>4. QED
    BY <2>1, <2>2, <2>3 DEF Touched
<1>6. CASE AtLink(t, q, m)
  <2>1. /\ Nodes(q, m) \subseteq Live
        /\ loc[t].np \in Nodes(q, m) \cup {NULL}
        /\ pc[t] \in {"link_next", "link_prev"}
    BY <1>6 DEF AtLink, Inserting, Beside
  <2>2. QED
    BY <2>1 DEF Touched
<1>7. CASE AtLast(t, q, m)
  BY <1>7 DEF AtLast, Touched
<1>8. CASE Taking(t, q, m)
  <2>1. /\ Linked(q, m) /\ Nodes(q, m) = Live /\ jb.head # NULL
        /\ pc[t] \in {"read_head", "unlink"}
        /\ pc[t] = "unlink" => loc[t].pktl = jb.head
    BY <1>8 DEF Taking, Whole
  <2>2. jb.head \in Live
    BY <2>1, ListFacts
  <2>3. QED
    BY <2>1, <2>2 DEF Touched
<1>9. CASE Removing(t, q, m)
  <2>1. loc[t].pktl \in Live /\ pc[t] \in {"fix_end", "fix_last", "delete"}
    BY <1>9 DEF Removing, Beside
  <2>2. QED
    BY <2>1 DEF Touched
<1>10. QED
  BY <1>2, <1>4, <1>5, <1>6, <1>7, <1>8, <1>9 DEF Shape

(* A step that leaves list, nodes and pointers alone leaves the list whole. *)
LEMMA WholeStays ==
    ASSUME NEW m \in Nat, NEW q \in [1..m -> NodeId], Whole(q, m),
           UNCHANGED <<jb, pkts, freed>>
    PROVE  Whole(q, m)'
  BY DEF Whole, Linked, LastIn, Live, Nodes, EndOf

(* The points outside add_packet, and its beginning and end. *)
LEMMA RestShape ==
    ASSUME TypeOK, NEW t \in Stream, Shaped(t),
           \/ \E p \in Pts : Send(t, p)
           \/ Lock(t) \/ Return(t)
           \/ \E ok \in BOOLEAN : Callback(t, ok)
    PROVE  Shaped(t)' /\ UNCHANGED <<jb, pkts, freed, fault>>
<1>1. /\ pc[t] \in {"idle", "lock", "return", "callback"}
      /\ pc'[t] \in {"idle", "lock", "insert", "flush", "return"}
      /\ UNCHANGED <<jb, pkts, freed, fault>>
  BY DEF Send, Lock, Return, Callback, At, Goto, TypeOK
<1>2. PICK m \in Nat : \E q \in [1..m -> NodeId] : AtRest(t, q, m)
  BY <1>1 DEF Shaped, Shape, Searching, AtLink, AtLast, Taking, Removing
<1>3. PICK q \in [1..m -> NodeId] : AtRest(t, q, m)
  BY <1>2
<1>4. Whole(q, m)'
  BY <1>1, <1>3, WholeStays DEF AtRest
<1>5. AtRest(t, q, m)'
  BY <1>1, <1>4 DEF AtRest
<1>6. QED
  BY <1>1, <1>5 DEF Shaped, Shape

(* interleave_add_packet allocates its node and begins to search. *)
LEMMA NewNodeShape ==
    ASSUME TypeOK, NEW t \in Stream, freed \subseteq DOMAIN pkts, Shaped(t), NewNode(t)
    PROVE  Shaped(t)' /\ fault' = fault /\ freed' \subseteq DOMAIN pkts'
<1> DEFINE n == Len(pkts) + 1
           x == [type |-> t, pts |-> loc[t].ts]
<1>1. /\ pc[t] = "insert" /\ pc'[t] = "peek"
      /\ UNCHANGED <<jb, freed, fault>>
      /\ pkts' = Append(pkts, x)
      /\ loc'[t].this = n /\ loc'[t].np = jb.last[t]
  BY DEF NewNode, At, Goto, TypeOK, Locals
<1>2. PICK m \in Nat : \E q \in [1..m -> NodeId] : AtRest(t, q, m)
  BY <1>1 DEF Shaped, Shape, Searching, AtLink, AtLast, Taking, Removing
<1>3. PICK q \in [1..m -> NodeId] : AtRest(t, q, m)
  BY <1>2
<1>4. /\ Linked(q, m) /\ Nodes(q, m) = Live /\ jb.end = EndOf(q, m) /\ LastIn(Live)
  BY <1>3 DEF AtRest, Whole
<1>5. x \in [type : Stream, pts : Pts] /\ x.type = t
  BY DEF TypeOK, Locals
<1> HIDE DEF x
<1>6. /\ Len(pkts) \in Nat /\ DOMAIN pkts = 1..Len(pkts)
      /\ DOMAIN pkts' = 1..n
      /\ \A i \in DOMAIN pkts : pkts'[i] = pkts[i]
      /\ pkts'[n] = x
  BY <1>1, <1>5 DEF TypeOK
<1>7. n \notin freed /\ n \notin DOMAIN pkts
  BY <1>6
<1>8. Live' = Live \cup {n} /\ n \notin Live
  BY <1>1, <1>6, <1>7 DEF Live
<1> HIDE DEF n
<1>9. Linked(q, m)' /\ jb'.end = EndOf(q, m)
  BY <1>1, <1>4 DEF Linked
<1>10. LastIn(Live)'
  BY <1>1, <1>4, <1>6, <1>8, LiveFacts DEF LastIn
<1>11. \A s \in Stream : jb.last[s] # NULL => jb.last[s] \in Live /\ pkts'[jb.last[s]].type = s
  BY <1>4, <1>6, LiveFacts DEF LastIn
<1>12. Inserting(t, q, m)'
  <2>1. Nodes(q, m)' = Live' \ {loc'[t].this} /\ loc'[t].this \in Live'
    BY <1>1, <1>4, <1>8 DEF Nodes
  <2>2. LastIn(Live \ {loc[t].this})'
    BY <1>1, <1>8, <1>11 DEF LastIn
  <2>3. pkts'[loc'[t].this].type = t
    BY <1>1, <1>5, <1>6
  <2>4. loc'[t].np \in Nodes(q, m)' \cup {NULL}
    BY <1>1, <1>4, <1>11 DEF Nodes
  <2>5. QED
    BY <1>9, <2>1, <2>2, <2>3, <2>4 DEF Inserting, Beside
<1>13. Searching(t, q, m)'
  BY <1>1, <1>9, <1>12 DEF Searching, EndOf
<1>14. QED
  BY <1>1, <1>6, <1>13 DEF Shaped, Shape, n

(* The turns of the search: the place to link at stays a node of the list  *)
(* or its head, and the assertion at the end of the search holds.          *)
LEMMA SearchShape ==
    ASSUME TypeOK, NEW t \in Stream,
           NEW m \in Nat, NEW q \in [1..m -> NodeId], Searching(t, q, m),
           Peek(t) \/ CompareEnd(t) \/ Walk(t) \/ AssertLast(t)
    PROVE  Shape(t, q, m)' /\ UNCHANGED <<pkts, freed, fault>>
<1> DEFINE np == loc[t].np
           np2 == loc'[t].np
<1>1. /\ Linked(q, m) /\ Inserting(t, q, m)
      /\ np \in Nodes(q, m) \cup {NULL}
      /\ jb.end = EndOf(q, m)
      /\ pc[t] = "compare" => Deref(np) # NULL
      /\ pc[t] \in {"assert", "set_end"} => Deref(np) = NULL
  BY DEF Searching, Inserting, Beside
<1>2. /\ \A n \in Nodes(q, m) \cup {NULL} :
            Deref(n) # NULL => m # 0 /\ Deref(n) \in Nodes(q, m)
      /\ m # 0 => EndOf(q, m) \in Nodes(q, m) /\ Deref(EndOf(q, m)) = NULL
  BY <1>1, ListFacts
<1>3. pc \in [Stream -> {"idle", "lock", "flush", "return"} \cup Insert \cup Pop]
      /\ loc \in [Stream -> Locals] /\ loc[t] \in Locals
  BY DEF TypeOK
<1>4. UNCHANGED <<jb, pkts, freed>> /\ loc'[t].this = loc[t].this
  BY <1>3 DEF Peek, CompareEnd, Walk, AssertLast, Locals
<1>5. Peek(t) => pc'[t] = (IF Deref(np) = NULL THEN "assert" ELSE "compare") /\ np2 = np
  BY <1>3 DEF Peek, Goto
<1>6. CompareEnd(t) => \/ pc'[t] = "walk" /\ np2 = np
                       \/ pc'[t] = "assert" /\ np2 = jb.end /\ pc[t] = "compare"
  BY <1>3 DEF CompareEnd, At, Goto, Locals
<1>7. Walk(t) => \/ pc'[t] = "assert" /\ np2 = np /\ Deref(np) = NULL
                 \/ pc'[t] = "link_next" /\ np2 = np /\ Deref(np) # NULL
                 \/ pc'[t] = "walk" /\ np2 = Deref(np) /\ Deref(np) # NULL
  BY <1>3 DEF Walk, At, Goto, Locals
<1>8. AssertLast(t) => pc'[t] = "set_end" /\ np2 = np /\ Deref(np) = NULL /\ fault' = fault
  BY <1>1, <1>3 DEF AssertLast, At, Goto
<1>9. fault' = fault
  BY <1>8 DEF Peek, CompareEnd, Walk, AssertLast
<1>10. np2 \in Nodes(q, m) \cup {NULL}
  BY <1>1, <1>2, <1>5, <1>6, <1>7, <1>8
<1>11. Linked(q, m)' /\ LastIn(Live \ {loc[t].this})' /\ Nodes(q, m)' = Nodes(q, m)
       /\ Live' = Live
  BY <1>1, <1>4 DEF Inserting, Linked, LastIn, Live, Nodes
<1>12. Inserting(t, q, m)'
  BY <1>1, <1>4, <1>10, <1>11 DEF Inserting, Beside
<1>13. (Deref(loc[t].np))' = Deref(np2)
  BY <1>4 DEF Deref
<1>14. pc'[t] = "link_next" => AtLink(t, q, m)'
  <2>1. pc'[t] = "link_next" => np2 = np /\ Deref(np) # NULL
    BY <1>5, <1>6, <1>7, <1>8
  <2>2. QED
    BY <1>1, <1>4, <1>12, <1>13, <2>1 DEF AtLink, EndOf
<1>15. pc'[t] # "link_next" => Searching(t, q, m)'
  <2>1. pc'[t] # "link_next" => /\ pc'[t] \in {"compare", "walk", "assert", "set_end"}
                                /\ pc'[t] = "compare" => Deref(np2) # NULL
                                /\ pc'[t] \in {"assert", "set_end"} => Deref(np2) = NULL
    BY <1>1, <1>2, <1>5, <1>6, <1>7, <1>8
  <2>2. QED
    BY <1>1, <1>4, <1>12, <1>13, <2>1 DEF Searching, EndOf
<1>16. QED
  BY <1>4, <1>9, <1>14, <1>15 DEF Shape

(* The new node becomes the end of the list, or is linked before the node  *)
(* found: nothing of the list changes yet.                                 *)
LEMMA LinkNextShape ==
    ASSUME TypeOK, NEW t \in Stream,
           NEW m \in Nat, NEW q \in [1..m -> NodeId],
           Searching(t, q, m) \/ AtLink(t, q, m),
           SetEnd(t) \/ LinkNext(t)
    PROVE  Shape(t, q, m)' /\ UNCHANGED <<pkts, freed, fault>>
<1> DEFINE n == loc[t].this
           np == loc[t].np
<1>1. /\ Linked(q, m) /\ Inserting(t, q, m)
      /\ np \in Nodes(q, m) \cup {NULL}
      /\ n \in Live /\ Nodes(q, m) = Live \ {n}
      /\ LastIn(Live \ {n})
  BY DEF Searching, AtLink, Inserting, Beside
<1>2. /\ UNCHANGED <<pkts, freed, fault, loc>>
      /\ pc \in [Stream -> {"idle", "lock", "flush", "return"} \cup Insert \cup Pop]
      /\ jb \in Object
  BY DEF SetEnd, LinkNext, Write, TypeOK
<1>3. n \in NodeId /\ n # NULL /\ n \notin Nodes(q, m)
  BY <1>1, LiveFacts
<1>4. /\ Nodes(q, m)' = Nodes(q, m) /\ Live' = Live
      /\ (loc[t].this)' = n /\ (loc[t].np)' = np
  BY <1>2 DEF Nodes, Live
<1>5. CASE SetEnd(t)
  <2>1. /\ pc[t] = "set_end" /\ pc'[t] = "link_next"
        /\ jb' = [jb EXCEPT !.end = n]
    BY <1>2, <1>5 DEF SetEnd, Write, At, Goto
  <2>2. /\ jb'.head = jb.head /\ jb'.next = jb.next /\ jb'.last = jb.last /\ jb'.end = n
    BY <1>2, <2>1 DEF Object
  <2>3. Deref(np) = NULL
    BY <2>1 DEF Searching, AtLink
  <2>4. Linked(q, m)' /\ LastIn(Live \ {loc[t].this})' /\ (Deref(loc[t].np))' = NULL
    BY <1>1, <1>2, <1>4, <2>2, <2>3 DEF Linked, LastIn, Deref
  <2>5. Inserting(t, q, m)'
    BY <1>1, <1>2, <1>4, <2>4 DEF Inserting, Beside
  <2>6. AtLink(t, q, m)'
    BY <1>4, <2>1, <2>2, <2>4, <2>5 DEF AtLink
  <2>7. QED
    BY <1>2, <2>6 DEF Shape
<1>6. CASE LinkNext(t)
  <2>1. /\ pc[t] = "link_next" /\ pc'[t] = "link_prev"
        /\ jb' = [jb EXCEPT !.next[n] = Deref(np)]
    BY <1>2, <1>6 DEF LinkNext, Write, At, Goto
  <2>2. /\ jb'.head = jb.head /\ jb'.last = jb.last /\ jb'.end = jb.end
        /\ jb'.next = [jb.next EXCEPT ![n] = Deref(np)]
        /\ jb.next \in [NodeId -> Pointer]
    BY <1>2, <2>1 DEF Object
  <2>3. jb.end = IF Deref(np) = NULL THEN n ELSE EndOf(q, m)
    BY <2>1 DEF Searching, AtLink
  <2>4. jb'.next[n] = Deref(np) /\ \A x \in Nodes(q, m) : jb'.next[x] = jb.next[x]
    BY <1>1, <1>3, <2>2, LiveFacts
  <2>5. \A i \in 1..m : q[i] \in Nodes(q, m)
    BY DEF Nodes
  <2>6. Linked(q, m)' /\ LastIn(Live \ {loc[t].this})'
    BY <1>1, <1>2, <1>4, <2>2, <2>4, <2>5 DEF Linked, LastIn
  <2>7. (Deref(loc[t].np))' = Deref(np)
    BY <1>1, <1>4, <2>2, <2>4 DEF Deref
  <2>8. Inserting(t, q, m)'
    BY <1>1, <1>2, <1>4, <2>6 DEF Inserting, Beside
  <2>9. AtLink(t, q, m)'
    BY <1>4, <2>1, <2>2, <2>3, <2>4, <2>7, <2>8 DEF AtLink, EndOf
  <2>10. QED
    BY <1>2, <2>9 DEF Shape
<1>7. QED
  BY <1>5, <1>6

(* q with node n at place k. *)
Inserted(q, m, k, n) ==
    [j \in 1..(m + 1) |-> IF j < k THEN q[j] ELSE IF j = k THEN n ELSE q[j - 1]]

LEMMA InsertedFacts ==
    ASSUME NEW m \in Nat, NEW q \in [1..m -> NodeId],
           NEW n \in NodeId, n \notin Nodes(q, m), NEW k \in 1..(m + 1),
           \A i, j \in 1..m : q[i] = q[j] => i = j
    PROVE  /\ Inserted(q, m, k, n) \in [1..(m + 1) -> NodeId]
           /\ \A i, j \in 1..(m + 1) :
                 Inserted(q, m, k, n)[i] = Inserted(q, m, k, n)[j] => i = j
           /\ Nodes(Inserted(q, m, k, n), m + 1) = Nodes(q, m) \cup {n}
<1> DEFINE r == Inserted(q, m, k, n)
<1>1. \A j \in 1..(m + 1) :
         /\ j < k => r[j] = q[j] /\ j \in 1..m
         /\ j = k => r[j] = n
         /\ j > k => r[j] = q[j - 1] /\ j - 1 \in 1..m
  BY DEF Inserted
<1>2. r \in [1..(m + 1) -> NodeId]
  BY DEF Inserted
<1>3. DOMAIN r = 1..(m + 1)
  BY <1>2
<1> HIDE DEF r
<1>4. \A i \in 1..m : q[i] \in Nodes(q, m)
  BY DEF Nodes
<1>5. ASSUME NEW i \in 1..(m + 1), NEW j \in 1..(m + 1), r[i] = r[j]
      PROVE  i = j
  <2>1. i \in Int /\ j \in Int /\ k \in Int
    OBVIOUS
  <2>2. CASE i = k
    <3>1. r[j] = n
      BY <1>1, <1>5, <2>2
    <3>2. ~(j < k) /\ ~(j > k)
      BY <1>1, <1>4, <3>1
    <3>3. QED
      BY <2>1, <2>2, <3>2
  <2>3. CASE i < k
    <3>1. r[i] = q[i] /\ i \in 1..m
      BY <1>1, <2>3
    <3>2. j # k
      <4>1. r[i] \in Nodes(q, m)
        BY <1>4, <3>1
      <4>2. r[i] # n
        BY <4>1
      <4>3. j = k => r[j] = n
        BY <1>1
      <4>4. QED
        BY <1>5, <4>2, <4>3
    <3>3. j > k => r[j] = q[j - 1] /\ j - 1 \in 1..m
      BY <1>1
    <3>4. j > k => i = j - 1
      BY <1>5, <3>1, <3>3
    <3>5. j < k => i = j
      BY <1>1, <1>5, <3>1
    <3>6. QED
      BY <2>1, <2>3, <3>2, <3>4, <3>5
  <2>4. CASE i > k
    <3>1. r[i] = q[i - 1] /\ i - 1 \in 1..m
      BY <1>1, <2>4
    <3>2. j # k
      <4>1. r[i] \in Nodes(q, m)
        BY <1>4, <3>1
      <4>2. r[i] # n
        BY <4>1
      <4>3. j = k => r[j] = n
        BY <1>1
      <4>4. QED
        BY <1>5, <4>2, <4>3
    <3>3. j > k => r[j] = q[j - 1] /\ j - 1 \in 1..m
      BY <1>1
    <3>4. j > k => i - 1 = j - 1
      BY <1>5, <3>1, <3>3
    <3>5. j < k => i - 1 = j
      BY <1>1, <1>5, <3>1
    <3>6. QED
      BY <2>1, <2>4, <3>2, <3>4, <3>5
  <2>5. QED
    BY <2>1, <2>2, <2>3, <2>4
<1>6. Nodes(r, m + 1) = Nodes(q, m) \cup {n}
  <2>1. ASSUME NEW x \in Nodes(r, m + 1)
        PROVE  x \in Nodes(q, m) \cup {n}
    <3>1. PICK j \in 1..(m + 1) : x = r[j]
      BY DEF Nodes
    <3>2. j < k \/ j = k \/ j > k
      OBVIOUS
    <3>3. QED
      BY <1>1, <1>4, <3>1, <3>2
  <2>2. n \in Nodes(r, m + 1)
    BY <1>1 DEF Nodes
  <2>3. ASSUME NEW x \in Nodes(q, m)
        PROVE  x \in Nodes(r, m + 1)
    <3>1. PICK i \in 1..m : x = q[i]
      BY DEF Nodes
    <3>2. CASE i < k
      <4>1. i \in 1..(m + 1) /\ r[i] = x
        BY <1>1, <3>1, <3>2
      <4>2. QED
        BY <4>1 DEF Nodes
    <3>3. CASE i >= k
      <4>1. i + 1 \in 1..(m + 1) /\ i + 1 > k /\ (i + 1) - 1 = i
        BY <3>3
      <4>2. r[i + 1] = x
        BY <1>1, <3>1, <4>1
      <4>3. QED
        BY <4>1, <4>2 DEF Nodes
    <3>4. QED
      BY <3>2, <3>3
  <2>4. QED
    BY <2>1, <2>2, <2>3
<1>7. QED
  BY <1>2, <1>5, <1>6 DEF r

(* *next_point = this_pktl puts the node into the list. *)
LEMMA LinkPrevShape ==
    ASSUME TypeOK, NEW t \in Stream,
           NEW m \in Nat, NEW q \in [1..m -> NodeId], AtLink(t, q, m), LinkPrev(t)
    PROVE  /\ \E k \in 1..(m + 1) : \E r \in [1..(m + 1) -> NodeId] :
                 /\ loc[t].np = NULL => k = 1
                 /\ loc[t].np # NULL => k > 1 /\ loc[t].np = q[k - 1]
                 /\ r = Inserted(q, m, k, loc[t].this)
                 /\ AtLast(t, r, m + 1)'
           /\ UNCHANGED <<pkts, freed, fault>>
<1> DEFINE n == loc[t].this
           np == loc[t].np
<1>1. /\ Linked(q, m) /\ np \in Nodes(q, m) \cup {NULL}
      /\ n \in Live /\ Nodes(q, m) = Live \ {n}
      /\ LastIn(Live \ {n}) /\ pkts[n].type = t
      /\ jb.end = IF Deref(np) = NULL THEN n ELSE EndOf(q, m)
  BY DEF AtLink, Inserting, Beside
<1>2. /\ UNCHANGED <<pkts, freed, fault, loc>>
      /\ pc \in [Stream -> {"idle", "lock", "flush", "return"} \cup Insert \cup Pop]
      /\ jb \in Object
  BY DEF LinkPrev, Write, TypeOK
<1>3. /\ pc[t] = "link_prev" /\ pc'[t] = "link_last"
      /\ jb' = IF np = NULL THEN [jb EXCEPT !.head = n] ELSE [jb EXCEPT !.next[np] = n]
  BY <1>2 DEF LinkPrev, Write, At, Goto
<1>4. jb.next[n] = Deref(np)
  BY <1>3 DEF AtLink
<1>5. /\ n \in NodeId /\ n # NULL /\ n \notin Nodes(q, m)
      /\ np # NULL => np \in NodeId /\ np # n
      /\ Nodes(q, m) \subseteq NodeId /\ NULL \notin Nodes(q, m)
  BY <1>1, LiveFacts
<1>6. /\ jb'.last = jb.last /\ jb'.end = jb.end /\ jb.next \in [NodeId -> Pointer]
      /\ np = NULL => jb'.head = n /\ jb'.next = jb.next
      /\ np # NULL => jb'.head = jb.head /\ jb'.next = [jb.next EXCEPT ![np] = n]
  BY <1>2, <1>3 DEF Object
<1>7. PICK k \in 1..(m + 1) : /\ np = NULL => k = 1
                              /\ np # NULL => k > 1 /\ np = q[k - 1]
  <2>1. CASE np = NULL
    BY <2>1
  <2>2. CASE np # NULL
    <3>1. PICK i \in 1..m : np = q[i]
      BY <1>1, <2>2 DEF Nodes
    <3>2. i + 1 \in 1..(m + 1) /\ i + 1 > 1 /\ (i + 1) - 1 = i
      OBVIOUS
    <3>3. QED
      BY <2>2, <3>1, <3>2
  <2>3. QED
    BY <2>1, <2>2
<1> HIDE DEF n, np
<1>8. /\ \A i, j \in 1..m : q[i] = q[j] => i = j
      /\ jb.head = IF m = 0 THEN NULL ELSE q[1]
      /\ \A i \in 1..m : jb.next[q[i]] = IF i = m THEN NULL ELSE q[i + 1]
  BY <1>1 DEF Linked
<1>9. /\ Inserted(q, m, k, n) \in [1..(m + 1) -> NodeId]
      /\ \A i, j \in 1..(m + 1) : Inserted(q, m, k, n)[i] = Inserted(q, m, k, n)[j] => i = j
      /\ Nodes(Inserted(q, m, k, n), m + 1) = Nodes(q, m) \cup {n}
  BY <1>5, <1>8, InsertedFacts
<1>10. PICK r \in [1..(m + 1) -> NodeId] : r = Inserted(q, m, k, n)
  BY <1>9
<1>11. /\ r \in [1..(m + 1) -> NodeId]
       /\ \A i, j \in 1..(m + 1) : r[i] = r[j] => i = j
       /\ Nodes(r, m + 1) = Nodes(q, m) \cup {n}
  BY <1>9, <1>10
<1>12. \A j \in 1..(m + 1) :
          /\ j < k => r[j] = q[j] /\ j \in 1..m
          /\ j = k => r[j] = n
          /\ j > k => r[j] = q[j - 1] /\ j - 1 \in 1..m
  BY <1>10 DEF Inserted
<1>13. Deref(np) = IF k = m + 1 THEN NULL ELSE q[k]
  <2>1. CASE np = NULL
    BY <1>7, <1>8, <2>1 DEF Deref
  <2>2. CASE np # NULL
    <3>1. k - 1 \in 1..m /\ (k - 1 = m <=> k = m + 1) /\ (k - 1) + 1 = k
      BY <1>7, <2>2
    <3>2. Deref(np) = jb.next[q[k - 1]]
      BY <1>7, <2>2 DEF Deref
    <3>3. QED
      BY <1>8, <3>1, <3>2
  <2>3. QED
    BY <2>1, <2>2
<1>14. jb'.head = r[1]
  <2>1. CASE np = NULL
    BY <1>6, <1>7, <1>12, <2>1
  <2>2. CASE np # NULL
    <3>1. 1 \in 1..(m + 1) /\ 1 < k /\ m # 0
      BY <1>7, <2>2
    <3>2. QED
      BY <1>6, <1>8, <1>12, <2>2, <3>1
  <2>3. QED
    BY <2>1, <2>2
<1>15. jb'.next[n] = IF k = m + 1 THEN NULL ELSE q[k]
  BY <1>4, <1>5, <1>6, <1>13
<1>16. \A i \in 1..m : i # k - 1 => jb'.next[q[i]] = IF i = m THEN NULL ELSE q[i + 1]
  <2>1. SUFFICES ASSUME NEW i \in 1..m, i # k - 1
                 PROVE  jb'.next[q[i]] = jb.next[q[i]]
    BY <1>8
  <2>2. CASE np = NULL
    BY <1>6, <2>2
  <2>3. CASE np # NULL
    <3>1. k - 1 \in 1..m
      BY <1>7, <2>3
    <3>2. q[i] # np
      BY <1>7, <1>8, <2>1, <2>3, <3>1
    <3>3. QED
      BY <1>6, <2>3, <3>2
  <2>4. QED
    BY <2>2, <2>3
<1>17. ASSUME NEW j \in 1..(m + 1)
       PROVE  jb'.next[r[j]] = IF j = m + 1 THEN NULL ELSE r[j + 1]
  <2>1. CASE j < k - 1
    <3>1. r[j] = q[j] /\ j \in 1..m /\ j # m /\ j # m + 1
      BY <1>12, <2>1
    <3>2. j + 1 \in 1..(m + 1) /\ j + 1 < k
      BY <2>1
    <3>3. QED
      BY <1>12, <1>16, <2>1, <3>1, <3>2
  <2>2. CASE j = k - 1
    <3>1. r[j] = q[j] /\ j \in 1..m /\ j + 1 = k /\ j # m + 1 /\ k > 1
      BY <1>12, <2>2
    <3>2. np # NULL /\ np = q[j]
      BY <1>7, <2>2, <3>1
    <3>3. jb'.next[np] = n
      BY <1>5, <1>6, <3>2
    <3>4. QED
      BY <1>12, <3>1, <3>2, <3>3
  <2>3. CASE j = k
    <3>1. r[j] = n
      BY <1>12, <2>3
    <3>2. k # m + 1 => k + 1 \in 1..(m + 1) /\ r[k + 1] = q[k]
      <4>1. ASSUME k # m + 1 PROVE k + 1 \in 1..(m + 1) /\ k + 1 > k /\ (k + 1) - 1 = k
        BY <4>1
      <4>2. QED
        BY <1>12, <4>1
    <3>3. QED
      BY <1>15, <2>3, <3>1, <3>2
  <2>4. CASE j > k
    <3>1. r[j] = q[j - 1] /\ j - 1 \in 1..m /\ j - 1 # k - 1
          /\ (j - 1 = m <=> j = m + 1) /\ (j - 1) + 1 = j
      BY <1>12, <2>4
    <3>2. jb'.next[q[j - 1]] = IF j = m + 1 THEN NULL ELSE q[j]
      BY <1>16, <3>1
    <3>3. j # m + 1 => r[j + 1] = q[j]
      <4>1. ASSUME j # m + 1 PROVE j + 1 \in 1..(m + 1) /\ j + 1 > k /\ (j + 1) - 1 = j
        BY <2>4, <4>1
      <4>2. QED
        BY <1>12, <4>1
    <3>4. QED
      BY <3>1, <3>2, <3>3
  <2>5. QED
    BY <2>1, <2>2, <2>3, <2>4
<1>18. jb'.end = r[m + 1]
  <2>1. CASE k = m + 1
    BY <1>1, <1>6, <1>12, <1>13, <2>1 DEF np, n
  <2>2. CASE k # m + 1
    <3>1. k \in 1..m /\ m # 0 /\ m + 1 \in 1..(m + 1) /\ m + 1 > k /\ (m + 1) - 1 = m
      BY <2>2
    <3>2. q[k] # NULL
      BY <1>5, <3>1 DEF Nodes
    <3>3. jb.end = q[m]
      BY <1>1, <1>13, <2>2, <3>1, <3>2 DEF EndOf, np
    <3>4. QED
      BY <1>6, <1>12, <3>1, <3>3
  <2>3. QED
    BY <2>1, <2>2
<1>19. Live' = Live /\ (loc[t].this)' = n
  BY <1>2 DEF Live, n
<1>20. m + 1 \in Nat /\ m + 1 # 0
  OBVIOUS
<1>21. Linked(r, m + 1)'
  BY <1>11, <1>14, <1>17, <1>20 DEF Linked
<1>22. Nodes(r, m + 1)' = Live
  BY <1>1, <1>11 DEF Nodes, n
<1>23. LastIn(Live)'
  BY <1>1, <1>2, <1>6, <1>19 DEF LastIn, n
<1>24. Whole(r, m + 1)'
  BY <1>18, <1>19, <1>20, <1>21, <1>22, <1>23 DEF Whole, EndOf
<1>25. AtLast(t, r, m + 1)'
  BY <1>1, <1>2, <1>3, <1>19, <1>24 DEF AtLast, n
<1>26. QED
  BY <1>2, <1>7, <1>10, <1>25 DEF n, np

(* locate_last() = this_pktl *)
LEMMA LinkLastShape ==
    ASSUME TypeOK, NEW t \in Stream,
           NEW m \in Nat, NEW q \in [1..m -> NodeId], AtLast(t, q, m), LinkLast(t)
    PROVE  Shape(t, q, m)' /\ UNCHANGED <<pkts, freed, fault>>
<1>1. /\ UNCHANGED <<pkts, freed, fault, loc>>
      /\ pc \in [Stream -> {"idle", "lock", "flush", "return"} \cup Insert \cup Pop]
      /\ jb \in Object
  BY DEF LinkLast, Write, TypeOK
<1>2. /\ pc'[t] = "flush" /\ jb' = [jb EXCEPT !.last[t] = loc[t].this]
  BY <1>1 DEF LinkLast, Write, Goto
<1>3. /\ jb'.head = jb.head /\ jb'.next = jb.next /\ jb'.end = jb.end
      /\ jb'.last = [jb.last EXCEPT ![t] = loc[t].this]
      /\ jb.last \in [Stream -> Pointer]
  BY <1>1, <1>2 DEF Object
<1>4. /\ Linked(q, m) /\ Nodes(q, m) = Live /\ jb.end = EndOf(q, m) /\ LastIn(Live)
      /\ loc[t].this \in Live /\ pkts[loc[t].this].type = t
  BY DEF AtLast, Whole
<1>5. Live' = Live /\ Nodes(q, m)' = Live /\ EndOf(q, m)' = EndOf(q, m)
  BY <1>1, <1>4 DEF Live, Nodes, EndOf
<1>6. \A s \in Stream : jb'.last[s] = IF s = t THEN loc[t].this ELSE jb.last[s]
  BY <1>3
<1>7. LastIn(Live)'
  BY <1>1, <1>4, <1>5, <1>6 DEF LastIn
<1>8. Linked(q, m)'
  BY <1>3, <1>4 DEF Linked
<1>9. AtRest(t, q, m)'
  BY <1>2, <1>3, <1>4, <1>5, <1>7, <1>8 DEF AtRest, Whole
<1>10. QED
  BY <1>1, <1>9 DEF Shape

(* interleave_packet_per_pts flushes only a list that has a node, since    *)
(* every m_last_pktl is one of its nodes; ReadHead then names the first.   *)
LEMMA FlushShape ==
    ASSUME TypeOK, NEW t \in Stream,
           NEW m \in Nat, NEW q \in [1..m -> NodeId],
           AtRest(t, q, m) \/ Taking(t, q, m),
           DecideFlush(t) \/ ReadHead(t)
    PROVE  Shape(t, q, m)' /\ UNCHANGED <<pkts, freed, fault>>
<1>1. /\ UNCHANGED <<jb, pkts, freed, fault>>
      /\ pc \in [Stream -> {"idle", "lock", "flush", "return"} \cup Insert \cup Pop]
      /\ loc \in [Stream -> Locals] /\ loc[t] \in Locals
  BY DEF DecideFlush, ReadHead, TypeOK
<1>2. Whole(q, m) /\ (pc[t] = "read_head" => jb.head # NULL)
  BY DEF AtRest, Taking
<1>3. Whole(q, m)'
  BY <1>1, <1>2, WholeStays
<1>4. CASE DecideFlush(t)
  <2>1. pc'[t] = "return" \/ (pc'[t] = "read_head" /\ Flush)
    BY <1>1, <1>4 DEF DecideFlush, Goto
  <2>2. Flush => jb.head # NULL
    <3>1. SUFFICES ASSUME Flush PROVE jb.head # NULL
      OBVIOUS
    <3>2. PICK s \in Stream : jb.last[s] # NULL
      BY <3>1 DEF Flush
    <3>3. jb.last[s] \in Nodes(q, m)
      BY <1>2, <3>2 DEF Whole, LastIn
    <3>4. m # 0
      BY <1>2, <3>3, ListFacts DEF Whole
    <3>5. QED
      BY <1>2, <3>4, ListFacts DEF Whole
  <2>3. AtRest(t, q, m)' \/ Taking(t, q, m)'
    BY <1>1, <1>3, <2>1, <2>2 DEF AtRest, Taking
  <2>4. QED
    BY <1>1, <2>3 DEF Shape
<1>5. CASE ReadHead(t)
  <2>1. pc[t] = "read_head" /\ pc'[t] = "unlink" /\ loc'[t].pktl = jb.head
    BY <1>1, <1>5 DEF ReadHead, At, Goto, Locals
  <2>2. Taking(t, q, m)'
    BY <1>1, <1>2, <1>3, <2>1 DEF Taking
  <2>3. QED
    BY <1>1, <2>2 DEF Shape
<1>6. QED
  BY <1>4, <1>5

(* m_packet_buffer = pktl->next takes the first node out of the list. *)
LEMMA UnlinkShape ==
    ASSUME TypeOK, NEW t \in Stream,
           NEW m \in Nat, NEW q \in [1..m -> NodeId], Taking(t, q, m), Unlink(t)
    PROVE  /\ \E k \in Nat : /\ m = k + 1
                            /\ \E r \in [1..k -> NodeId] :
                                  (\A i \in 1..k : r[i] = q[i + 1]) /\ Removing(t, r, k)'
           /\ UNCHANGED <<pkts, freed, fault>>
<1>1. /\ UNCHANGED <<pkts, freed, fault, loc>>
      /\ pc \in [Stream -> {"idle", "lock", "flush", "return"} \cup Insert \cup Pop]
      /\ jb \in Object
  BY DEF Unlink, Write, TypeOK
<1>2. /\ pc[t] = "unlink" /\ pc'[t] = "fix_end"
      /\ jb' = [jb EXCEPT !.head = jb.next[loc[t].pktl]]
  BY <1>1 DEF Unlink, Write, At, Goto
<1>3. /\ Linked(q, m) /\ Nodes(q, m) = Live /\ jb.end = EndOf(q, m) /\ LastIn(Live)
      /\ jb.head # NULL /\ loc[t].pktl = jb.head
  BY <1>2 DEF Taking, Whole
<1>4. /\ jb'.head = jb.next[jb.head] /\ jb'.next = jb.next /\ jb'.end = jb.end
      /\ jb'.last = jb.last
  BY <1>1, <1>2, <1>3 DEF Object
<1>5. m # 0
  BY <1>3 DEF Linked
<1>6. PICK k \in Nat : m = k + 1
  <2>1. m - 1 \in Nat /\ m = (m - 1) + 1
    BY <1>5
  <2>2. QED
    BY <2>1
<1>7. PICK r \in [1..k -> NodeId] : \A i \in 1..k : r[i] = q[i + 1]
  <2>1. \A i \in 1..k : i + 1 \in 1..m
    BY <1>6
  <2>2. [i \in 1..k |-> q[i + 1]] \in [1..k -> NodeId]
    BY <2>1
  <2>3. \A i \in 1..k : [j \in 1..k |-> q[j + 1]][i] = q[i + 1]
    OBVIOUS
  <2>4. QED
    BY <2>2, <2>3
<1>8. /\ \A i, j \in 1..m : q[i] = q[j] => i = j
      /\ jb.head = q[1]
      /\ \A i \in 1..m : jb.next[q[i]] = IF i = m THEN NULL ELSE q[i + 1]
  BY <1>3, <1>5 DEF Linked
<1>9. 1 \in 1..m /\ (1 = m <=> k = 0) /\ \A i \in 1..k : i + 1 \in 1..m /\ i + 1 # 1
  BY <1>6
<1>10. jb'.head = IF k = 0 THEN NULL ELSE r[1]
  <2>1. k # 0 => 1 \in 1..k
    OBVIOUS
  <2>2. k # 0 => r[1] = q[1 + 1]
    BY <1>7, <2>1
  <2>3. QED
    BY <1>4, <1>8, <1>9, <2>2
<1>11. \A i, j \in 1..k : r[i] = r[j] => i = j
  <2>1. SUFFICES ASSUME NEW i \in 1..k, NEW j \in 1..k, r[i] = r[j]
                 PROVE  i = j
    OBVIOUS
  <2>2. q[i + 1] = q[j + 1] /\ i + 1 \in 1..m /\ j + 1 \in 1..m
    BY <1>7, <1>9, <2>1
  <2>3. i + 1 = j + 1
    BY <1>8, <2>2
  <2>4. QED
    BY <2>3
<1>12. \A i \in 1..k : jb'.next[r[i]] = IF i = k THEN NULL ELSE r[i + 1]
  <2>1. SUFFICES ASSUME NEW i \in 1..k
                 PROVE  jb'.next[r[i]] = IF i = k THEN NULL ELSE r[i + 1]
    OBVIOUS
  <2>2. r[i] = q[i + 1] /\ i + 1 \in 1..m /\ (i + 1 = m <=> i = k)
    BY <1>6, <1>7, <1>9
  <2>3. i # k => i + 1 \in 1..k
    OBVIOUS
  <2>4. i # k => r[i + 1] = q[(i + 1) + 1]
    BY <1>7, <2>3
  <2>5. QED
    BY <1>4, <1>8, <2>2, <2>4
<1>13. Linked(r, k)'
  BY <1>10, <1>11, <1>12 DEF Linked
<1>14. Nodes(r, k) = Nodes(q, m) \ {jb.head} /\ jb.head \in Nodes(q, m)
  <2>1. jb.head \in Nodes(q, m)
    BY <1>8, <1>9 DEF Nodes
  <2>2. ASSUME NEW x \in Nodes(r, k) PROVE x \in Nodes(q, m) \ {jb.head}
    <3>1. PICK i \in 1..k : x = r[i]
      BY DEF Nodes
    <3>2. x = q[i + 1] /\ i + 1 \in 1..m /\ i + 1 # 1
      BY <1>7, <1>9, <3>1
    <3>3. x # q[1]
      BY <1>8, <1>9, <3>2
    <3>4. QED
      BY <1>8, <3>2, <3>3 DEF Nodes
  <2>3. ASSUME NEW x \in Nodes(q, m) \ {jb.head} PROVE x \in Nodes(r, k)
    <3>1. PICK i \in 1..m : x = q[i]
      BY DEF Nodes
    <3>2. i # 1
      BY <1>8, <3>1
    <3>3. i - 1 \in 1..k /\ (i - 1) + 1 = i
      BY <1>6, <3>2
    <3>4. r[i - 1] = x
      BY <1>7, <3>1, <3>3
    <3>5. QED
      BY <3>3, <3>4 DEF Nodes
  <2>4. QED
    BY <2>1, <2>2, <2>3
<1>15. Beside(r, k, loc[t].pktl)'
  <2>1. Nodes(r, k)' = Live' \ {loc'[t].pktl} /\ loc'[t].pktl \in Live'
    BY <1>1, <1>3, <1>14 DEF Nodes, Live
  <2>2. QED
    BY <1>13, <2>1 DEF Beside
<1>16. jb'.end = IF k = 0 THEN loc'[t].pktl ELSE EndOf(r, k)'
  <2>1. k = 0 => q[m] = jb.head
    BY <1>6, <1>8
  <2>2. k # 0 => k \in 1..k
    OBVIOUS
  <2>3. k # 0 => r[k] = q[m]
    BY <1>6, <1>7, <2>2
  <2>4. QED
    BY <1>1, <1>3, <1>4, <1>5, <2>1, <2>3 DEF EndOf
<1>17. LastIn(Live)'
  BY <1>1, <1>3, <1>4 DEF LastIn, Live
<1>18. Removing(t, r, k)'
  BY <1>2, <1>15, <1>16, <1>17 DEF Removing
<1>19. QED
  BY <1>1, <1>6, <1>7, <1>18

(* The end and the stream's last pointer no longer point to the node, and  *)
(* then it is deleted.                                                     *)
LEMMA RemoveShape ==
    ASSUME TypeOK, NEW t \in Stream,
           NEW m \in Nat, NEW q \in [1..m -> NodeId], Removing(t, q, m),
           FixEnd(t) \/ FixLast(t)
    PROVE  Shape(t, q, m)' /\ UNCHANGED <<pkts, freed, fault>>
<1>1. /\ UNCHANGED <<pkts, freed, fault, loc>>
      /\ pc \in [Stream -> {"idle", "lock", "flush", "return"} \cup Insert \cup Pop]
      /\ jb \in Object
  BY DEF FixEnd, FixLast, Write, TypeOK
<1>2. /\ Linked(q, m) /\ loc[t].pktl \in Live /\ Nodes(q, m) = Live \ {loc[t].pktl}
      /\ jb.head = NULL <=> m = 0
  BY ListFacts DEF Removing, Beside
<1>3. Live' = Live /\ Nodes(q, m)' = Nodes(q, m) /\ EndOf(q, m)' = EndOf(q, m)
  BY <1>1 DEF Live, Nodes, EndOf
<1>4. CASE FixEnd(t)
  <2>1. /\ pc[t] = "fix_end" /\ pc'[t] = "fix_last"
        /\ jb' = [jb EXCEPT !.end = IF jb.head = NULL THEN NULL ELSE @]
    BY <1>1, <1>4 DEF FixEnd, Write, At, Goto
  <2>2. /\ jb'.head = jb.head /\ jb'.next = jb.next /\ jb'.last = jb.last
        /\ jb'.end = IF jb.head = NULL THEN NULL ELSE jb.end
    BY <1>1, <2>1 DEF Object
  <2>3. /\ jb.end = IF m = 0 THEN loc[t].pktl ELSE EndOf(q, m)
        /\ LastIn(Live)
    BY <2>1 DEF Removing
  <2>4. jb'.end = EndOf(q, m)
    BY <1>2, <2>2, <2>3 DEF EndOf
  <2>5. Linked(q, m)' /\ LastIn(Live)'
    BY <1>1, <1>2, <1>3, <2>2, <2>3 DEF Linked, LastIn
  <2>6. Beside(q, m, loc[t].pktl)'
    BY <1>1, <1>2, <1>3, <2>5 DEF Beside
  <2>7. Removing(t, q, m)'
    BY <1>3, <2>1, <2>4, <2>5, <2>6 DEF Removing
  <2>8. QED
    BY <1>1, <2>7 DEF Shape
<1>5. CASE FixLast(t)
  <2>1. /\ pc[t] = "fix_last" /\ pc'[t] = "delete"
        /\ jb' = [jb EXCEPT !.last[pkts[loc[t].pktl].type] =
                     IF @ = loc[t].pktl THEN NULL ELSE @]
    BY <1>1, <1>5 DEF FixLast, Write, At, Goto
  <2>2. pkts[loc[t].pktl].type \in Stream /\ jb.last \in [Stream -> Pointer]
    BY <1>1, <1>2, NodeTypes DEF Object
  <2>3. /\ jb'.head = jb.head /\ jb'.next = jb.next /\ jb'.end = jb.end
        /\ jb'.last = [jb.last EXCEPT ![pkts[loc[t].pktl].type] =
                          IF @ = loc[t].pktl THEN NULL ELSE @]
    BY <1>1, <2>1 DEF Object
  <2>4. jb.end = EndOf(q, m) /\ LastIn(Live)
    BY <2>1 DEF Removing
  <2>5. \A s \in Stream : jb'.last[s] # NULL =>
            jb'.last[s] \in Live \ {loc[t].pktl} /\ pkts[jb'.last[s]].type = s
    <3>1. SUFFICES ASSUME NEW s \in Stream, jb'.last[s] # NULL
                   PROVE  jb'.last[s] \in Live \ {loc[t].pktl} /\ pkts[jb'.last[s]].type = s
      OBVIOUS
    <3>2. CASE s = pkts[loc[t].pktl].type
      <4>1. jb'.last[s] = IF jb.last[s] = loc[t].pktl THEN NULL ELSE jb.last[s]
        BY <2>2, <2>3, <3>2
      <4>2. jb'.last[s] = jb.last[s] /\ jb.last[s] # loc[t].pktl
        BY <3>1, <4>1
      <4>3. QED
        BY <2>4, <3>1, <4>2 DEF LastIn
    <3>3. CASE s # pkts[loc[t].pktl].type
      <4>1. jb'.last[s] = jb.last[s]
        BY <2>2, <2>3, <3>3
      <4>2. jb.last[s] \in Live /\ pkts[jb.last[s]].type = s
        BY <2>4, <3>1, <4>1 DEF LastIn
      <4>3. QED
        BY <3>3, <4>1, <4>2
    <3>4. QED
      BY <3>2, <3>3
  <2>6. Linked(q, m)' /\ LastIn(Live \ {loc[t].pktl})'
    BY <1>1, <1>2, <1>3, <2>3, <2>5 DEF Linked, LastIn
  <2>7. Beside(q, m, loc[t].pktl)'
    BY <1>1, <1>2, <1>3, <2>6 DEF Beside
  <2>8. Removing(t, q, m)'
    BY <1>3, <2>1, <2>3, <2>4, <2>6, <2>7 DEF Removing
  <2>9. QED
    BY <1>1, <2>8 DEF Shape
<1>6. QED
  BY <1>4, <1>5

(* SAFE_DELETE(pktl) leaves a whole list. *)
LEMMA DeleteShape ==
    ASSUME TypeOK, NEW t \in Stream, freed \subseteq DOMAIN pkts,
           NEW m \in Nat, NEW q \in [1..m -> NodeId], Removing(t, q, m), DeleteNode(t)
    PROVE  Shape(t, q, m)' /\ fault' = fault /\ freed' \subseteq DOMAIN pkts'
<1>1. /\ UNCHANGED <<jb, pkts, fault, loc>>
      /\ freed' = freed \cup {loc[t].pktl}
      /\ pc[t] = "delete" /\ pc'[t] = "callback"
  BY DEF DeleteNode, At, Goto, TypeOK
<1>2. /\ Linked(q, m) /\ loc[t].pktl \in Live /\ Nodes(q, m) = Live \ {loc[t].pktl}
      /\ jb.end = EndOf(q, m)
      /\ LastIn(Live \ {loc[t].pktl})
  BY <1>1 DEF Removing, Beside
<1>3. Live' = Live \ {loc[t].pktl} /\ freed' \subseteq DOMAIN pkts'
  BY <1>1, <1>2 DEF Live
<1>4. Linked(q, m)' /\ LastIn(Live)'
  BY <1>1, <1>2, <1>3 DEF Linked, LastIn
<1>5. Nodes(q, m)' = Live' /\ jb'.end = EndOf(q, m)'
  BY <1>1, <1>2, <1>3 DEF Nodes, EndOf
<1>6. AtRest(t, q, m)'
  BY <1>1, <1>4, <1>5 DEF AtRest, Whole
<1>7. QED
  BY <1>1, <1>3, <1>6 DEF Shape
-----------------------------------------------------------------------------
(* Every step of a call that began on a list of its shape leaves a list of *)
(* its shape.                                                              *)
LEMMA StepShape ==
    ASSUME TypeOK, NEW t \in Stream, freed \subseteq DOMAIN pkts, Shaped(t),
           \/ \E p \in Pts : Send(t, p)
           \/ Lock(t) \/ InsertStep(t) \/ FlushStep(t) \/ Return(t)
    PROVE  Shaped(t)' /\ fault' = fault /\ freed' \subseteq DOMAIN pkts'
<1>1. PICK m \in Nat : \E q \in [1..m -> NodeId] : Shape(t, q, m)
  BY DEF Shaped
<1>2. PICK q \in [1..m -> NodeId] : Shape(t, q, m)
  BY <1>1
<1>3. ASSUME Shape(t, q, m)' PROVE Shaped(t)'
  BY <1>3 DEF Shaped
<1>4. CASE \/ \E p \in Pts : Send(t, p)
           \/ Lock(t) \/ Return(t)
           \/ \E ok \in BOOLEAN : Callback(t, ok)
  <2>1. Shaped(t)' /\ UNCHANGED <<jb, pkts, freed, fault>>
    BY <1>4, RestShape
  <2>2. QED
    BY <2>1
<1>5. CASE NewNode(t)
  BY <1>5, NewNodeShape
<1>6. CASE Peek(t) \/ CompareEnd(t) \/ Walk(t) \/ AssertLast(t)
  <2>1. pc[t] \in {"peek", "compare", "walk", "assert"}
    BY <1>6 DEF Peek, CompareEnd, Walk, AssertLast, At
  <2>2. Searching(t, q, m)
    BY <1>2, <2>1 DEF Shape, AtRest, AtLink, AtLast, Taking, Removing
  <2>3. Shape(t, q, m)' /\ UNCHANGED <<pkts, freed, fault>>
    BY <1>6, <2>2, SearchShape
  <2>4. QED
    BY <1>3, <2>3
<1>7. CASE SetEnd(t) \/ LinkNext(t)
  <2>1. pc[t] \in {"set_end", "link_next"}
    BY <1>7 DEF SetEnd, LinkNext, Write, At
  <2>2. Searching(t, q, m) \/ AtLink(t, q, m)
    BY <1>2, <2>1 DEF Shape, AtRest, AtLast, Taking, Removing
  <2>3. Shape(t, q, m)' /\ UNCHANGED <<pkts, freed, fault>>
    BY <1>7, <2>2, LinkNextShape
  <2>4. QED
    BY <1>3, <2>3
<1>8. CASE LinkPrev(t)
  <2>1. pc[t] = "link_prev"
    BY <1>8 DEF LinkPrev, Write, At
  <2>2. AtLink(t, q, m)
    BY <1>2, <2>1 DEF Shape, AtRest, Searching, AtLast, Taking, Removing
  <2>3. /\ \E r \in [1..(m + 1) -> NodeId] : AtLast(t, r, m + 1)'
        /\ UNCHANGED <<pkts, freed, fault>>
    BY <1>8, <2>2, LinkPrevShape
  <2>4. m + 1 \in Nat
    OBVIOUS
  <2>5. QED
    BY <2>3, <2>4 DEF Shaped, Shape
<1>9. CASE LinkLast(t)
  <2>1. pc[t] = "link_last"
    BY <1>9 DEF LinkLast, Write, At
  <2>2. AtLast(t, q, m)
    BY <1>2, <2>1 DEF Shape, AtRest, Searching, AtLink, Taking, Removing
  <2>3. Shape(t, q, m)' /\ UNCHANGED <<pkts, freed, fault>>
    BY <1>9, <2>2, LinkLastShape
  <2>4. QED
    BY <1>3, <2>3
<1>10. CASE DecideFlush(t) \/ ReadHead(t)
  <2>1. pc[t] \in {"flush", "read_head"}
    BY <1>10 DEF DecideFlush, ReadHead, At
  <2>2. AtRest(t, q, m) \/ Taking(t, q, m)
    BY <1>2, <2>1 DEF Shape, Searching, AtLink, AtLast, Removing
  <2>3. Shape(t, q, m)' /\ UNCHANGED <<pkts, freed, fault>>
    BY <1>10, <2>2, FlushShape
  <2>4. QED
    BY <1>3, <2>3
<1>11. CASE Unlink(t)
  <2>1. pc[t] = "unlink"
    BY <1>11 DEF Unlink, Write, At
  <2>2. Taking(t, q, m)
    BY <1>2, <2>1 DEF Shape, AtRest, Searching, AtLink, AtLast, Removing
  <2>3. /\ \E k \in Nat : \E r \in [1..k -> NodeId] : Removing(t, r, k)'
        /\ UNCHANGED <<pkts, freed, fault>>
    BY <1>11, <2>2, UnlinkShape
  <2>4. QED
    BY <2>3 DEF Shaped, Shape
<1>12. CASE FixEnd(t) \/ FixLast(t) \/ DeleteNode(t)
  <2>1. pc[t] \in {"fix_end", "fix_last", "delete"}
    BY <1>12 DEF FixEnd, FixLast, DeleteNode, Write, At
  <2>2. Removing(t, q, m)
    BY <1>2, <2>1 DEF Shape, AtRest, Searching, AtLink, AtLast, Taking
  <2>3. CASE FixEnd(t) \/ FixLast(t)
    <3>1. Shape(t, q, m)' /\ UNCHANGED <<pkts, freed, fault>>
      BY <2>2, <2>3, RemoveShape
    <3>2. QED
      BY <1>3, <3>1
  <2>4. CASE DeleteNode(t)
    <3>1. Shape(t, q, m)' /\ fault' = fault /\ freed' \subseteq DOMAIN pkts'
      BY <2>2, <2>4, DeleteShape
    <3>2. QED
      BY <1>3, <3>1
  <2>5. QED
    BY <1>12, <2>3, <2>4
<1>13. QED
  BY <1>4, <1>5, <1>6, <1>7, <1>8, <1>9, <1>10, <1>11, <1>12 DEF InsertStep, FlushStep

(* A step that begins outside add_packet: nothing of the list changes.     *)
LEMMA OutsideStep ==
    ASSUME TypeOK, NEW t \in Stream, ~Inside(t),
           \/ \E p \in Pts : Send(t, p)
           \/ Lock(t) \/ InsertStep(t) \/ FlushStep(t) \/ Return(t)
    PROVE  UNCHANGED <<jb, pkts, freed, fault>>
<1>1. pc[t] \in {"idle", "lock"}
  BY DEF Inside
<1>2. CASE (\E p \in Pts : Send(t, p)) \/ Lock(t)
  BY <1>2 DEF Send, Lock
<1>3. ~(InsertStep(t) \/ Return(t))
  BY <1>1 DEF InsertStep, NewNode, Peek, CompareEnd, Walk, AssertLast, SetEnd, LinkNext,
     LinkPrev, LinkLast, Write, Return, At
<1>4. ~FlushStep(t)
  BY <1>1 DEF FlushStep, DecideFlush, ReadHead, Unlink, FixEnd, FixLast, Write, DeleteNode,
     Callback, At
<1>5. QED
  BY <1>2, <1>3, <1>4

(* The list has its shape for thread u as long as nobody touches them.     *)
LEMMA ShapeStays ==
    ASSUME NEW u \in Stream, Shaped(u), pc'[u] = pc[u], loc'[u] = loc[u],
           UNCHANGED <<jb, pkts, freed>>
    PROVE  Shaped(u)'
<1>1. PICK m \in Nat : \E q \in [1..m -> NodeId] : Shape(u, q, m)
  BY DEF Shaped
<1>2. PICK q \in [1..m -> NodeId] : Shape(u, q, m)
  BY <1>1
<1>3. /\ Whole(q, m)' <=> Whole(q, m)
      /\ Inserting(u, q, m)' <=> Inserting(u, q, m)
      /\ Beside(q, m, loc[u].pktl)' <=> Beside(q, m, loc[u].pktl)
      /\ LastIn(Live)' <=> LastIn(Live)
      /\ LastIn(Live \ {loc[u].pktl})' <=> LastIn(Live \ {loc[u].pktl})
      /\ EndOf(q, m)' = EndOf(q, m) /\ Live' = Live
      /\ (Deref(loc[u].np))' = Deref(loc[u].np)
  BY DEF Whole, Inserting, Beside, Linked, LastIn, Live, Nodes, EndOf, Deref
<1>4. Shape(u, q, m)'
  BY <1>2, <1>3 DEF Shape, AtRest, Searching, AtLink, AtLast, Taking, Removing
<1>5. QED
  BY <1>4 DEF Shaped

(* As long as no two calls overlap, the list keeps its shape.              *)
LEMMA ApartStep ==
    ASSUME TypeOK, NoOverlapInv, Next, ~Overlapping'
    PROVE  NoOverlapInv'
<1>1. PICK t \in Stream :
         \/ \E p \in Pts : Send(t, p)
         \/ Lock(t) \/ InsertStep(t) \/ FlushStep(t) \/ Return(t)
         \/ Crash(t)
  BY DEF Next
<1>2. /\ fault = "none" /\ ~Overlapping /\ freed \subseteq DOMAIN pkts
      /\ \A u \in Stream : Alone(u) => Shaped(u)
  BY DEF NoOverlapInv
<1>3. \A u \in Stream : Inside(u) => Alone(u)
  BY <1>2 DEF Overlapping, Alone
<1>4. Safe(t)
  <2>1. CASE Inside(t)
    <3>1. Shaped(t)
      BY <1>2, <1>3, <2>1
    <3>2. QED
      BY <3>1, ShapedIsSafe
  <2>2. CASE ~Inside(t)
    <3>1. Touched(t) = {}
      BY <2>2 DEF Inside, Touched
    <3>2. QED
      BY <3>1 DEF Safe
  <2>3. QED
    BY <2>1, <2>2
<1>5. \/ \E p \in Pts : Send(t, p)
      \/ Lock(t) \/ InsertStep(t) \/ FlushStep(t) \/ Return(t)
  BY <1>1, <1>4 DEF Crash
<1>6. \A u \in Stream \ {t} : pc'[u] = pc[u] /\ loc'[u] = loc[u] /\ (Inside(u)' <=> Inside(u))
  <2>1. \A u \in Stream \ {t} : pc'[u] = pc[u] /\ loc'[u] = loc[u]
    BY <1>5, OthersStay
  <2>2. QED
    BY <2>1 DEF Inside
<1>7. CASE Alone(t)
  <2>1. Shaped(t)
    BY <1>2, <1>7
  <2>2. Shaped(t)' /\ fault' = fault /\ freed' \subseteq DOMAIN pkts'
    BY <1>2, <1>5, <2>1, StepShape
  <2>3. ASSUME NEW u \in Stream, Alone(u)', u # t
        PROVE  Shaped(u)'
    <3>1. pc'[t] \in {"idle", "lock"}
      BY <2>3 DEF Alone, Inside
    <3>2. pc'[u] \in {"idle", "lock"}
      BY <1>6, <1>7, <2>3 DEF Alone, Inside
    <3>3. PICK m \in Nat : \E q \in [1..m -> NodeId] : Shape(t, q, m)'
      BY <2>2 DEF Shaped
    <3>4. PICK q \in [1..m -> NodeId] : Shape(t, q, m)'
      BY <3>3
    <3>5. Whole(q, m)'
      BY <3>1, <3>4 DEF Shape, AtRest, Searching, AtLink, AtLast, Taking, Removing
    <3>6. AtRest(u, q, m)'
      BY <3>2, <3>5 DEF AtRest
    <3>7. QED
      BY <3>6 DEF Shaped, Shape
  <2>4. QED
    BY <1>2, <2>2, <2>3 DEF NoOverlapInv
<1>8. CASE ~Alone(t)
  <2>1. PICK v \in Stream \ {t} : Inside(v)
    BY <1>8 DEF Alone
  <2>2. ~Inside(t)
    BY <1>2, <2>1 DEF Overlapping
  <2>3. UNCHANGED <<jb, pkts, freed, fault>>
    BY <1>5, <2>2, OutsideStep
  <2>4. ASSUME NEW u \in Stream, Alone(u)'
        PROVE  Shaped(u)'
    <3>1. u = v
      BY <1>6, <2>1, <2>4 DEF Alone
    <3>2. Shaped(u)
      BY <1>2, <1>3, <2>1, <3>1
    <3>3. pc'[u] = pc[u] /\ loc'[u] = loc[u]
      BY <1>6, <2>1, <3>1
    <3>4. QED
      BY <2>3, <3>2, <3>3, ShapeStays
  <2>5. QED
    BY <1>2, <2>3, <2>4 DEF NoOverlapInv
<1>9. QED
  BY <1>7, <1>8

(* At first the list is empty and nobody is inside. *)
LEMMA ApartInit == Init => NoOverlapInv
<1> SUFFICES ASSUME Init PROVE NoOverlapInv
  OBVIOUS
<1>1. /\ jb.head = NULL /\ jb.end = NULL /\ \A s \in Stream : jb.last[s] = NULL
      /\ pkts = <<>> /\ freed = {} /\ fault = "none"
      /\ \A t \in Stream : pc[t] = "idle"
  BY DEF Init
<1>2. ~Overlapping
  BY <1>1 DEF Overlapping, Inside
<1>3. DOMAIN pkts = {} /\ Live = {}
  BY <1>1 DEF Live
<1>4. PICK q \in [1..0 -> NodeId] : TRUE
  <2>1. \A i \in 1..0 : FALSE
    OBVIOUS
  <2>2. [i \in 1..0 |-> 1] \in [1..0 -> NodeId]
    BY <2>1
  <2>3. QED
    BY <2>2
<1>5. Linked(q, 0)
  <2>1. \A i \in 1..0 : FALSE
    OBVIOUS
  <2>2. QED
    BY <1>1, <1>4, <2>1 DEF Linked
<1>6. Whole(q, 0)
  <2>1. Nodes(q, 0) = {}
    <3>1. \A i \in 1..0 : FALSE
      OBVIOUS
    <3>2. QED
      BY <3>1 DEF Nodes
  <2>2. QED
    BY <1>1, <1>3, <1>5, <2>1 DEF Whole, EndOf, LastIn
<1>7. \A t \in Stream : AtRest(t, q, 0)
  BY <1>1, <1>6 DEF AtRest
<1>8. \A t \in Stream : Shaped(t)
  BY <1>4, <1>7 DEF Shaped, Shape
<1>9. QED
  BY <1>1, <1>2, <1>3, <1>8 DEF NoOverlapInv

(* The inductive invariant. *)
THEOREM SharedInvariance == Spec => []SInv
<1>1. Init => SInv
  BY SharedInit, ApartInit DEF SInv
<1>2. SInv /\ [Next]_vars => SInv'
  <2> SUFFICES ASSUME SInv, [Next]_vars PROVE SInv'
    OBVIOUS
  <2>1. TypeOK' /\ LockInv'
    BY TypeStep, LockStep DEF SInv
  <2>2. SUFFICES ASSUME ~overlap' PROVE NoOverlapInv'
    BY <2>1 DEF SInv
  <2>3. CASE UNCHANGED vars
    <3>1. /\ NoOverlapInv
          /\ UNCHANGED <<jb, pkts, freed, holder, need_cfg, pc, loc, fault, overlap>>
      BY <2>2, <2>3 DEF SInv, vars, thread
    <3>2. /\ \A u \in Stream : Inside(u)' <=> Inside(u)
          /\ \A u \in Stream : Shaped(u) => Shaped(u)'
      BY <3>1, ShapeStays DEF Inside
    <3>3. QED
      BY <3>1, <3>2 DEF NoOverlapInv, Overlapping, Alone
  <2>4. CASE Next
    <3>1. ~overlap /\ ~Overlapping'
      BY <2>2, <2>4 DEF Next
    <3>2. TypeOK /\ NoOverlapInv
      BY <3>1 DEF SInv
    <3>3. QED
      BY <2>4, <3>1, <3>2, ApartStep
  <2>5. QED
    BY <2>3, <2>4
<1>3. QED
  BY <1>1, <1>2, PTL DEF Spec

(* As long as no two calls of add_packet overlap, none of them follows a   *)
(* NULL or deleted node, and the assertion of interleave_add_packet holds. *)
THEOREM CallsApartAreSafe == Spec => []FaultNeedsOverlap
<1>1. SInv => FaultNeedsOverlap
  BY DEF SInv, NoOverlapInv, FaultNeedsOverlap
<1>2. QED
  BY <1>1, SharedInvariance, PTL
-----------------------------------------------------------------------------
(* A list of nodes, each once, has at most MaxPackets. *)
LEMMA ListFits ==
    ASSUME NEW m \in Nat, NEW q \in [1..m -> NodeId], \A i, j \in 1..m : q[i] = q[j] => i = j
    PROVE  m <= MaxPackets
<1>1. MaxPackets \in Nat
  BY SharedAssumption
<1>2. /\ IsFiniteSet(1..m) /\ Cardinality(1..m) = m
      /\ IsFiniteSet(NodeId) /\ Cardinality(NodeId) = MaxPackets
  BY <1>1, FS_Interval DEF NodeId
<1>3. ~(Cardinality(NodeId) < Cardinality(1..m))
  <2>1. SUFFICES ASSUME Cardinality(NodeId) < Cardinality(1..m) PROVE FALSE
    OBVIOUS
  <2>2. \E i, j \in 1..m : i # j /\ q[i] = q[j]
    BY <1>2, <2>1, FS_PigeonHole
  <2>3. QED
    BY <2>2
<1>4. QED
  BY <1>1, <1>2, <1>3

(* Chain follows the pointers: it is the list they spell. *)
LEMMA ChainIs ==
    ASSUME TypeOK, NEW m \in Nat, NEW q \in [1..m -> NodeId], Linked(q, m)
    PROVE  Chain = q
<1> DEFINE Rule(f) == f = [k \in NodeId |->
                           IF k = 1 THEN jb.head
                           ELSE IF f[k - 1] = NULL THEN NULL ELSE jb.next[f[k - 1]]]
           g == [k \in NodeId |-> IF k <= m THEN q[k] ELSE NULL]
<1>1. /\ \A i, j \in 1..m : q[i] = q[j] => i = j
      /\ jb.head = IF m = 0 THEN NULL ELSE q[1]
      /\ \A i \in 1..m : jb.next[q[i]] = IF i = m THEN NULL ELSE q[i + 1]
  BY DEF Linked
<1>2. m <= MaxPackets /\ MaxPackets \in Nat
  BY <1>1, ListFits, SharedAssumption
<1>3. \A n \in NodeId : n # NULL
  BY DEF NodeId, NULL
<1>4. Rule(g)
  <2>1. ASSUME NEW k \in NodeId
        PROVE  g[k] = IF k = 1 THEN jb.head
                      ELSE IF g[k - 1] = NULL THEN NULL ELSE jb.next[g[k - 1]]
    <3>1. k \in Nat /\ k > 0 /\ k \in 1..MaxPackets
      BY <1>2 DEF NodeId
    <3>2. CASE k = 1
      BY <1>1, <3>1, <3>2
    <3>3. CASE k # 1
      <4>1. k - 1 \in NodeId /\ k - 1 >= 1
        BY <1>2, <3>1, <3>3 DEF NodeId
      <4>2. CASE k - 1 <= m
        <5>1. k - 1 \in 1..m /\ (k - 1 = m <=> ~(k <= m)) /\ (k - 1) + 1 = k
          BY <3>1, <4>1, <4>2
        <5>2. g[k - 1] = q[k - 1] /\ q[k - 1] \in NodeId
          BY <4>1, <4>2, <5>1
        <5>3. jb.next[q[k - 1]] = IF k <= m THEN q[k] ELSE NULL
          BY <1>1, <5>1
        <5>4. QED
          BY <1>3, <3>3, <5>2, <5>3
      <4>3. CASE ~(k - 1 <= m)
        <5>1. ~(k <= m)
          BY <3>1, <4>3
        <5>2. QED
          BY <3>3, <4>1, <4>3, <5>1
      <4>4. QED
        BY <4>2, <4>3
    <3>4. QED
      BY <3>2, <3>3
  <2> DEFINE h == [k \in NodeId |-> IF k = 1 THEN jb.head
                      ELSE IF g[k - 1] = NULL THEN NULL ELSE jb.next[g[k - 1]]]
  <2>2. \A k \in NodeId : g[k] = h[k]
    BY <2>1
  <2>3. g = h
    BY <2>2
  <2>4. QED
    BY <2>3
<1>0. ASSUME NEW f, Rule(f), NEW k \in NodeId \ {1}
      PROVE  f[k] = IF f[k - 1] = NULL THEN NULL ELSE jb.next[f[k - 1]]
  <2> DEFINE h == [i \in NodeId |-> IF i = 1 THEN jb.head
                      ELSE IF f[i - 1] = NULL THEN NULL ELSE jb.next[f[i - 1]]]
  <2>1. h[k] = IF f[k - 1] = NULL THEN NULL ELSE jb.next[f[k - 1]]
    OBVIOUS
  <2>2. f = h
    BY <1>0
  <2> HIDE DEF h
  <2>3. QED
    BY <2>1, <2>2
<1>5. ASSUME NEW f, Rule(f)
      PROVE  f = g
  <2> DEFINE S == {k \in NodeId : f[k] # g[k]}
  <2>1. SUFFICES S = {}
    BY <1>4, <1>5
  <2>2. SUFFICES ASSUME S # {} PROVE FALSE
    OBVIOUS
  <2>3. S \in SUBSET Nat
    BY <1>2 DEF NodeId
  <2>4. PICK k \in S : \A j \in S : ~(<<j, k>> \in OpToRel(<, Nat))
    BY <2>2, <2>3, NatLessThanWellFounded, WFMin
  <2>5. k \in NodeId /\ f[k] # g[k] /\ k \in Nat
    BY <2>3
  <2>6. k # 1
    BY <1>4, <1>5, <2>5
  <2>7. k - 1 \in NodeId /\ k - 1 \in Nat /\ k - 1 < k
    BY <1>2, <2>5, <2>6 DEF NodeId
  <2>8. k - 1 \notin S
    BY <2>3, <2>4, <2>7 DEF OpToRel
  <2>9. f[k - 1] = g[k - 1]
    BY <2>7, <2>8
  <2>10. /\ f[k] = IF f[k - 1] = NULL THEN NULL ELSE jb.next[f[k - 1]]
         /\ g[k] = IF g[k - 1] = NULL THEN NULL ELSE jb.next[g[k - 1]]
    BY <1>0, <1>4, <1>5, <2>5, <2>6
  <2>11. QED
    BY <2>5, <2>9, <2>10
<1> DEFINE w == CHOOSE f : Rule(f)
<1>6. w = g
  <2> HIDE DEF Rule, g
  <2>1. Rule(w)
    BY <1>4
  <2>2. QED
    BY <1>5, <2>1
<1>7. Chain = [k \in {i \in NodeId : g[i] # NULL} |-> g[k]]
  <2>1. Chain = [k \in {i \in NodeId : w[i] # NULL} |-> w[k]]
    BY Zenon DEF Chain
  <2> HIDE DEF w, g
  <2>2. QED
    BY <1>6, <2>1
<1> HIDE DEF g, w
<1>8. {i \in NodeId : g[i] # NULL} = 1..m
  BY <1>2, <1>3 DEF g, NodeId
<1>9. \A k \in 1..m : g[k] = q[k]
  BY <1>2 DEF g, NodeId
<1>10. QED
  BY <1>7, <1>8, <1>9
-----------------------------------------------------------------------------
(* What JitterBuffer sees when thread t is the only one inside, and the    *)
(* pointers spell the first m nodes of q.                                  *)
OutOfList == Pop \ {"read_head", "unlink"}

ListAt(t, q, m) ==
    IF pc[t] \in OutOfList
    THEN [i \in 1..(m + 1) |-> IF i = 1 THEN NodeOf(loc[t].pktl) ELSE NodeOf(q[i - 1])]
    ELSE [i \in 1..m |-> NodeOf(q[i])]

EndAt(t) ==
    IF pc[t] \in {"link_next", "link_prev"} /\ jb.end = loc[t].this THEN loc[t].np
    ELSE IF pc[t] \in OutOfList /\ jb.end = NULL THEN loc[t].pktl ELSE jb.end

LastAt(t) == [s \in Stream |->
    IF s = t /\ pc[t] = "link_last" THEN loc[t].this
    ELSE IF pc[t] \in OutOfList /\ jb.last[s] = NULL /\ pkts[loc[t].pktl].type = s
         THEN loc[t].pktl ELSE jb.last[s]]

PcAt(t) == IF pc[t] \in Pop \cup {"link_last", "flush"} THEN "loop" ELSE "idle"

MapIs ==
    TypeOK => \A t \in Stream : Alone(t) =>
        /\ \A m \in Nat : \A q \in [1..m -> NodeId] :
              Linked(q, m) => AbsList = ListAt(t, q, m)
        /\ AbsEnd = EndAt(t) /\ AbsLast = LastAt(t) /\ AbsPc = PcAt(t)

LEMMA Mapped == MapIs
<1> SUFFICES ASSUME TypeOK, NEW t \in Stream, Alone(t)
             PROVE  /\ \A m \in Nat : \A q \in [1..m -> NodeId] :
                          Linked(q, m) => AbsList = ListAt(t, q, m)
                    /\ AbsEnd = EndAt(t) /\ AbsLast = LastAt(t) /\ AbsPc = PcAt(t)
  BY DEF MapIs
<1>1. \A u \in Stream \ {t} : pc[u] \in {"idle", "lock"}
  BY DEF Alone, Inside
<1>2. Popped = IF pc[t] \in OutOfList THEN {t} ELSE {}
  BY <1>1 DEF Popped, OutOfList, Pop
<1>3. pc[t] \in OutOfList => Taken = loc[t].pktl
  BY <1>2 DEF Taken
<1>4. ASSUME NEW m \in Nat, NEW q \in [1..m -> NodeId], Linked(q, m)
      PROVE  AbsList = ListAt(t, q, m)
  <2> DEFINE f == [i \in 1..m |-> NodeOf(q[i])]
             x == NodeOf(loc[t].pktl)
             S == {x} \cup {f[i] : i \in 1..m}
  <2>1. Chain = q
    BY <1>4, ChainIs
  <2>2. AbsList = (IF Popped = {} THEN <<>> ELSE <<NodeOf(Taken)>>) \o f
    BY <2>1 DEF AbsList
  <2>3. f \in Seq(S) /\ Len(f) = m /\ \A i \in 1..m : f[i] = NodeOf(q[i])
    OBVIOUS
  <2>4. <<x>> \in Seq(S) /\ Len(<<x>>) = 1 /\ <<x>>[1] = x
    OBVIOUS
  <2> HIDE DEF f, x, S
  <2>5. CASE pc[t] \in OutOfList
    <3>1. AbsList = <<x>> \o f
      BY <1>2, <1>3, <2>2, <2>5 DEF x
    <3>2. /\ <<x>> \o f \in Seq(S) /\ Len(<<x>> \o f) = 1 + m
          /\ \A i \in 1..(1 + m) : (<<x>> \o f)[i] = IF i <= 1 THEN <<x>>[i] ELSE f[i - 1]
      BY <2>3, <2>4, ConcatProperties
    <3>3. \A i \in 1..(m + 1) : (<<x>> \o f)[i] = IF i = 1 THEN x ELSE NodeOf(q[i - 1])
      <4>1. \A i \in 1..(m + 1) : i # 1 => i - 1 \in 1..m /\ ~(i <= 1)
        OBVIOUS
      <4>2. \A i \in 1..(m + 1) : i \in 1..(1 + m)
        OBVIOUS
      <4>3. QED
        BY <2>3, <2>4, <3>2, <4>1, <4>2
    <3>4. <<x>> \o f = [i \in 1..(m + 1) |-> IF i = 1 THEN x ELSE NodeOf(q[i - 1])]
      <4> DEFINE c == <<x>> \o f
      <4>1. c \in Seq(S) /\ Len(c) = m + 1
        BY <3>2
      <4> HIDE DEF c
      <4>2. c = [i \in 1..(m + 1) |-> c[i]]
        BY <4>1
      <4>3. QED
        BY <3>3, <4>2 DEF c
    <3>5. QED
      BY <2>5, <3>1, <3>4 DEF ListAt, x
  <2>6. CASE pc[t] \notin OutOfList
    <3>1. AbsList = <<>> \o f
      BY <1>2, <2>2, <2>6
    <3>2. QED
      BY <2>3, <2>6, <3>1 DEF ListAt, f
  <2>7. QED
    BY <2>5, <2>6
<1>5. Early = IF pc[t] \in {"link_next", "link_prev"} /\ jb.end = loc[t].this THEN {t} ELSE {}
  BY <1>1 DEF Early
<1>6. AbsEnd = EndAt(t)
  BY <1>2, <1>3, <1>5 DEF AbsEnd, EndAt
<1>7. AbsLast = LastAt(t)
  <2>1. \A s \in Stream : pc[s] = "link_last" => s = t
    BY <1>1
  <2>2. QED
    BY <1>2, <1>3, <2>1 DEF AbsLast, LastAt
<1>8. AbsPc = PcAt(t)
  BY <1>1 DEF AbsPc, PcAt, Pop
<1>9. QED
  BY <1>4, <1>6, <1>7, <1>8

JP == INSTANCE JitterBuffer_proofs WITH
        packet_buffer <- AbsList, buffer_end <- AbsEnd, last_pktl <- AbsLast,
        pc <- AbsPc, newest <- AbsNewest, monotone <- AbsMonotone

LEMMA BufferAssumptions ==
    /\ Stream # {}
    /\ Pts \subseteq Nat /\ 0 \in Pts
    /\ MaxDelta \in Nat
    /\ Wrap \in Nat /\ \A p \in Pts : p + MaxDelta < Wrap
    /\ MaxPackets \in Nat
  BY SharedAssumption
-----------------------------------------------------------------------------
Searches == {"peek", "compare", "walk", "assert", "set_end", "link_next", "link_prev"}

(* How many nodes are before the place that np designates. *)
Before(np) == IF np = NULL THEN 0 ELSE JP!Index(np)

(* The part of the list that the search of thread t has passed. *)
PassedBy(t) ==
    /\ JP!SearchFrom(t) <= Before(loc[t].np) + 1
    /\ JP!SearchFrom(t) <= Len(AbsList)
    /\ JP!ComparePts(JP!PtsOf(AbsEnd), loc[t].ts)
    /\ \A i \in JP!SearchFrom(t)..Before(loc[t].np) : AbsList[i].pts <= loc[t].ts

FoundBy(t) == JP!InsertPoint(t, loc[t].ts) = Before(loc[t].np) + 1

(* How far a thread alone in add_packet is in the step of JitterBuffer it  *)
(* carries out.                                                            *)
Progress(t) ==
    /\ IF pc[t] \in Searches
       THEN added + 1 = Len(pkts) /\ loc[t].this = Len(pkts) /\ PtsOf(loc[t].this) = loc[t].ts
       ELSE added = Len(pkts)
    /\ pc[t] \in {"peek", "compare"} => loc[t].np = jb.last[t]
    /\ pc[t] = "walk" => PassedBy(t)
    /\ pc[t] \in {"assert", "set_end", "link_next", "link_prev"} => FoundBy(t)
    /\ pc[t] \in Pop => /\ JP!Flush
                        /\ loc[t].reason = IF JP!AllStreamsQueued THEN "all" ELSE "forced"
    /\ pc[t] = "callback" => loc[t].pktl \in DOMAIN pkts \cap freed

RefInv == JP!IInv /\ \A t \in Stream : Alone(t) => Progress(t)

Same == UNCHANGED <<AbsList, AbsEnd, AbsLast, AbsPc, added, out, ret, AbsNewest, AbsMonotone>>

LEMMA SameBuffer ==
    ASSUME UNCHANGED <<AbsList, AbsEnd, AbsLast>>
    PROVE  /\ \A n : Before(n)' = Before(n) /\ (JP!PtsOf(n))' = JP!PtsOf(n)
           /\ \A s : (JP!SearchFrom(s))' = JP!SearchFrom(s)
           /\ \A s, p : (JP!InsertPoint(s, p))' = JP!InsertPoint(s, p)
           /\ (JP!Flush)' <=> JP!Flush
           /\ (JP!AllStreamsQueued)' <=> JP!AllStreamsQueued
<1>1. \A n : (JP!Index(n))' = JP!Index(n)
  BY DEF JP!Index
<1>2. \A n : Before(n)' = Before(n) /\ (JP!PtsOf(n))' = JP!PtsOf(n)
  BY <1>1 DEF Before, JP!PtsOf
<1>3. \A s : (JP!SearchFrom(s))' = JP!SearchFrom(s)
  BY <1>1 DEF JP!SearchFrom
<1>4. \A s, p : (JP!Later(s, p))' = JP!Later(s, p)
  BY <1>3 DEF JP!Later, JP!ComparePts
<1>5. \A s, p : (JP!InsertPoint(s, p))' = JP!InsertPoint(s, p)
  <2> TAKE s, p
  <2>1. /\ (JP!Later(s, p))' = JP!Later(s, p) /\ (JP!SearchFrom(s))' = JP!SearchFrom(s)
        /\ (JP!PtsOf(AbsEnd))' = JP!PtsOf(AbsEnd) /\ AbsList' = AbsList
    BY <1>2, <1>3, <1>4
  <2>2. QED
    BY <2>1 DEF JP!InsertPoint, JP!ComparePts
<1>6. (JP!AllStreamsQueued)' <=> JP!AllStreamsQueued
  BY DEF JP!AllStreamsQueued
<1>7. (JP!Flush)' <=> JP!Flush
  BY <1>2, <1>6 DEF JP!Flush, JP!SpanTooLong, JP!Sub64
<1>8. QED
  BY <1>2, <1>3, <1>5, <1>6, <1>7

(* The list while none of its nodes is being taken. *)
LEMMA BufferIs ==
    ASSUME TypeOK, JP!IInv, NEW t \in Stream, Alone(t), pc[t] \notin OutOfList,
           NEW m \in Nat, NEW q \in [1..m -> NodeId], Linked(q, m)
    PROVE  /\ Len(AbsList) = m /\ AbsList = [i \in 1..m |-> NodeOf(q[i])]
           /\ \A i \in 1..m : AbsList[i].pts = PtsOf(q[i]) /\ PtsOf(q[i]) \in Nat
           /\ \A i \in 1..m : Before(q[i]) = i /\ JP!PtsOf(q[i]) = PtsOf(q[i])
<1>1. AbsList = ListAt(t, q, m)
  BY Mapped DEF MapIs
<1>2. AbsList = [i \in 1..m |-> NodeOf(q[i])]
  BY <1>1 DEF ListAt
<1>3. JP!TypeOK /\ JP!IdsUnique
  BY DEF JP!IInv
<1>4. Len(AbsList) = m /\ DOMAIN AbsList = 1..m
  <2>1. DOMAIN AbsList = 1..m
    BY <1>2
  <2>2. Len(AbsList) \in Nat /\ DOMAIN AbsList = 1..Len(AbsList)
    BY <1>3, JP!BufferTypes, BufferAssumptions
  <2>3. QED
    BY <2>1, <2>2
<1>5. ASSUME NEW i \in 1..m
      PROVE  /\ AbsList[i].id = q[i] /\ AbsList[i].pts = PtsOf(q[i]) /\ q[i] # NULL
             /\ AbsList[i].pts \in Nat
  <2>1. AbsList[i] = NodeOf(q[i])
    BY <1>2
  <2>2. AbsList[i].pts \in Nat
    BY <1>3, <1>4, JP!BufferTypes, BufferAssumptions
  <2>3. q[i] # NULL
    BY DEF NodeId, NULL
  <2>4. QED
    BY <2>1, <2>2, <2>3 DEF NodeOf
<1>6. ASSUME NEW i \in 1..m
      PROVE  Before(q[i]) = i /\ JP!PtsOf(q[i]) = PtsOf(q[i])
  <2>1. JP!Index(AbsList[i].id) = i
    BY <1>3, <1>4, JP!IndexOfNode, BufferAssumptions
  <2>2. QED
    BY <1>5, <2>1 DEF Before, JP!PtsOf
<1>7. QED
  BY <1>2, <1>4, <1>5, <1>6

(* Where a searching thread is in the list. *)
LEMMA SearchFacts ==
    ASSUME TypeOK, JP!IInv, NEW t \in Stream, Alone(t), pc[t] \in Searches,
           NEW m \in Nat, NEW q \in [1..m -> NodeId], Linked(q, m),
           loc[t].np \in Nodes(q, m) \cup {NULL}
    PROVE  /\ Len(AbsList) = m /\ AbsList = [i \in 1..m |-> NodeOf(q[i])]
           /\ \A i \in 1..m : AbsList[i].pts = PtsOf(q[i]) /\ PtsOf(q[i]) \in Nat
           /\ \A i \in 1..m : Before(q[i]) = i /\ JP!PtsOf(q[i]) = PtsOf(q[i])
           /\ Before(loc[t].np) \in 0..m
           /\ Deref(loc[t].np) = IF Before(loc[t].np) = m THEN NULL ELSE q[Before(loc[t].np) + 1]
           /\ JP!SearchFrom(t) = Before(jb.last[t]) + 1
           /\ JP!SearchFrom(t) \in 1..(m + 1)
<1> DEFINE np == loc[t].np
<1>1. pc[t] \notin OutOfList /\ pc[t] # "link_last"
  BY DEF OutOfList, Pop, Searches
<1>2. /\ Len(AbsList) = m /\ AbsList = [i \in 1..m |-> NodeOf(q[i])]
      /\ \A i \in 1..m : AbsList[i].pts = PtsOf(q[i]) /\ PtsOf(q[i]) \in Nat
      /\ \A i \in 1..m : Before(q[i]) = i /\ JP!PtsOf(q[i]) = PtsOf(q[i])
  BY <1>1, BufferIs
<1>3. Before(np) \in 0..m /\ Deref(np) = IF Before(np) = m THEN NULL ELSE q[Before(np) + 1]
  <2>1. CASE np = NULL
    <3>1. Before(np) = 0 /\ Deref(np) = jb.head
      BY <2>1 DEF Before, Deref
    <3>2. QED
      BY <3>1 DEF Linked
  <2>2. CASE np # NULL
    <3>1. PICK i \in 1..m : np = q[i]
      BY <2>2 DEF Nodes
    <3>2. Before(np) = i /\ Deref(np) = jb.next[q[i]]
      BY <1>2, <2>2, <3>1 DEF Deref
    <3>3. QED
      BY <3>2 DEF Linked
  <2>3. QED
    BY <2>1, <2>2
<1>4. JP!SearchFrom(t) = Before(jb.last[t]) + 1
  <2>1. AbsLast = LastAt(t)
    BY Mapped DEF MapIs
  <2>2. AbsLast[t] = jb.last[t]
    BY <1>1, <2>1 DEF LastAt
  <2>3. QED
    BY <2>2 DEF JP!SearchFrom, Before, JP!NULL, NULL
<1>5. JP!SearchFrom(t) \in 1..(m + 1)
  <2>1. JP!TypeOK /\ JP!IdsUnique /\ JP!LastIsLastOfStream
    BY DEF JP!IInv, JP!PointersConsistent
  <2>2. JP!SearchFrom(t) \in 1..(Len(AbsList) + 1)
    BY <2>1, JP!SearchFromProperties, BufferAssumptions
  <2>3. QED
    BY <1>2, <2>2
<1>6. QED
  BY <1>2, <1>3, <1>4, <1>5

(* A set of packet numbers has a greatest one. *)
LEMMA MaxOf ==
    ASSUME NEW n \in Nat, NEW S \in SUBSET (1..n), S # {}
    PROVE  Max(S) \in S /\ \A i \in S : i <= Max(S)
<1> DEFINE D == {n - i : i \in S}
<1>1. D \in SUBSET Nat /\ D # {}
  <2>1. \A i \in S : i \in 1..n
    OBVIOUS
  <2>2. \A i \in 1..n : n - i \in Nat
    OBVIOUS
  <2>3. \A d \in D : d \in Nat
    BY <2>1, <2>2
  <2>4. PICK i \in S : TRUE
    OBVIOUS
  <2>5. n - i \in D
    BY <2>4
  <2>6. QED
    BY <2>3, <2>5
<1>2. PICK d \in D : \A e \in D : ~(<<e, d>> \in OpToRel(<, Nat))
  BY <1>1, NatLessThanWellFounded, WFMin
<1>3. PICK k \in S : d = n - k
  OBVIOUS
<1>4. ASSUME NEW i \in S PROVE k >= i
  <2>1. n - i \in D /\ n - i \in Nat /\ d \in Nat
    BY <1>1
  <2>2. ~(n - i < d)
    BY <1>2, <2>1 DEF OpToRel
  <2>3. QED
    BY <1>3, <2>2
<1>5. Max(S) \in S /\ \A i \in S : Max(S) >= i
  BY <1>4 DEF Max
<1>6. QED
  BY <1>5

(* What was added stays what it was. *)
LEMMA SameHistory ==
    ASSUME TypeOK, added \in Nat, added' = added, \A i \in 1..added : pkts'[i] = pkts[i]
    PROVE  AbsNewest' = AbsNewest /\ AbsMonotone' = AbsMonotone
<1>1. \A s \in Stream : AddedOf(s)' = AddedOf(s)
  BY DEF AddedOf
<1>2. \A s \in Stream : AddedOf(s) # {} => Max(AddedOf(s)) \in 1..added
  <2>1. \A s \in Stream : AddedOf(s) \in SUBSET (1..added)
    BY DEF AddedOf
  <2>2. QED
    BY <2>1, MaxOf
<1>3. \A i \in 1..added : PtsOf(i)' = PtsOf(i)
  BY DEF PtsOf
<1>4. AbsNewest' = AbsNewest
  <2>1. \A s \in Stream : (IF AddedOf(s) = {} THEN 0 ELSE PtsOf(Max(AddedOf(s))))'
                          = IF AddedOf(s) = {} THEN 0 ELSE PtsOf(Max(AddedOf(s)))
    BY <1>1, <1>2, <1>3
  <2>2. QED
    BY <2>1 DEF AbsNewest
<1>5. AbsMonotone' = AbsMonotone
  <2>1. \A s \in Stream : \A i \in AddedOf(s) : i \in 1..added
    BY DEF AddedOf
  <2>2. QED
    BY <1>1, <1>3, <2>1 DEF AbsMonotone
<1>6. QED
  BY <1>4, <1>5

(* Steps outside add_packet, and of a search, are no steps of JitterBuffer. *)
Quiet == {"idle", "lock", "insert", "return", "peek", "compare", "walk", "assert", "set_end"}

LEMMA QuietStep ==
    ASSUME NEW t \in Stream, pc[t] \in Quiet, pc'[t] \in Quiet,
           UNCHANGED <<jb, pkts, added, out, ret>>,
           \A u \in Stream \ {t} : pc'[u] = pc[u] /\ loc'[u] = loc[u]
    PROVE  Same
<1>1. Popped' = Popped /\ t \notin Popped
  BY DEF Popped, Pop, Quiet
<1>2. Early' = Early /\ t \notin Early
  BY DEF Early, Quiet
<1>3. Popped # {} => Taken' = Taken
  BY <1>1 DEF Taken, Popped
<1>4. Chain' = Chain
  BY DEF Chain
<1>5. \A n : NodeOf(n)' = NodeOf(n)
  BY DEF NodeOf, PtsOf
<1>6. AbsList' = AbsList
  BY <1>1, <1>3, <1>4, <1>5 DEF AbsList
<1>7. AbsEnd' = AbsEnd
  <2>1. Early \subseteq Stream \ {t}
    BY <1>2 DEF Early
  <2>2. Early # {} => loc'[CHOOSE u \in Early' : TRUE] = loc[CHOOSE u \in Early : TRUE]
    BY <1>2, <2>1
  <2>3. QED
    BY <1>1, <1>2, <1>3, <2>2 DEF AbsEnd
<1>8. AbsLast' = AbsLast
  <2>1. \A s \in Stream : /\ pc'[s] = "link_last" <=> pc[s] = "link_last"
                          /\ pc[s] = "link_last" => loc'[s].this = loc[s].this
    BY DEF Quiet
  <2>2. QED
    BY <1>1, <1>3, <2>1 DEF AbsLast
<1>9. AbsPc' = AbsPc
  BY DEF AbsPc, Quiet, Pop
<1>10. AbsNewest' = AbsNewest /\ AbsMonotone' = AbsMonotone
  BY DEF AbsNewest, AbsMonotone, AddedOf, PtsOf
<1>11. QED
  BY <1>6, <1>7, <1>8, <1>9, <1>10 DEF Same

(* Two states in which a thread alone shows JitterBuffer the same. *)
LEMMA SameIf ==
    ASSUME TypeOK, TypeOK', NEW t \in Stream, Alone(t), Alone(t)',
           NEW m \in Nat, NEW q \in [1..m -> NodeId], Linked(q, m),
           NEW k \in Nat, NEW r \in [1..k -> NodeId], Linked(r, k)',
           ListAt(t, r, k)' = ListAt(t, q, m),
           EndAt(t)' = EndAt(t), LastAt(t)' = LastAt(t), PcAt(t)' = PcAt(t)
    PROVE  UNCHANGED <<AbsList, AbsEnd, AbsLast, AbsPc>>
<1>1. MapIs /\ MapIs'
  BY Mapped, PTL
<1>2. AbsList = ListAt(t, q, m) /\ AbsEnd = EndAt(t) /\ AbsLast = LastAt(t) /\ AbsPc = PcAt(t)
  BY <1>1 DEF MapIs
<1>3. AbsList' = ListAt(t, r, k)' /\ AbsEnd' = EndAt(t)' /\ AbsLast' = LastAt(t)' /\ AbsPc' = PcAt(t)'
  BY <1>1 DEF MapIs
<1>4. QED
  BY <1>2, <1>3

(* A thread allocates its node: JitterBuffer does not see it yet. *)
LEMMA NewNodeRefines ==
    ASSUME TypeOK, TypeOK', NEW t \in Stream, Alone(t), Alone(t)', Progress(t),
           NEW m \in Nat, NEW q \in [1..m -> NodeId], AtRest(t, q, m), NewNode(t)
    PROVE  Same /\ Progress(t)'
<1> DEFINE x == [type |-> t, pts |-> loc[t].ts]
<1>1. /\ pc[t] = "insert" /\ pc'[t] = "peek"
      /\ UNCHANGED <<jb, freed, added, out, ret>>
      /\ pkts' = Append(pkts, x)
      /\ loc'[t].this = Len(pkts) + 1 /\ loc'[t].np = jb.last[t] /\ loc'[t].ts = loc[t].ts
  BY DEF NewNode, At, Goto, TypeOK, Locals, hist
<1>2. x \in [type : Stream, pts : Pts] /\ x.pts = loc[t].ts
  BY DEF TypeOK, Locals
<1> HIDE DEF x
<1>3. /\ Len(pkts) \in Nat /\ DOMAIN pkts = 1..Len(pkts)
      /\ Len(pkts') = Len(pkts) + 1
      /\ \A i \in DOMAIN pkts : pkts'[i] = pkts[i]
      /\ pkts'[Len(pkts) + 1] = x
  BY <1>1, <1>2 DEF TypeOK
<1>4. added = Len(pkts)
  BY <1>1 DEF Progress, Searches
<1>5. Linked(q, m) /\ Nodes(q, m) = Live
  BY DEF AtRest, Whole
<1>6. Linked(q, m)'
  BY <1>1, <1>5 DEF Linked
<1>7. \A i \in 1..m : NodeOf(q[i])' = NodeOf(q[i])
  <2>1. \A i \in 1..m : q[i] \in DOMAIN pkts
    BY <1>5, LiveFacts DEF Nodes
  <2>2. QED
    BY <1>3, <2>1 DEF NodeOf, PtsOf
<1>8. ListAt(t, q, m)' = ListAt(t, q, m)
  BY <1>1, <1>7 DEF ListAt, OutOfList, Pop
<1>9. EndAt(t)' = EndAt(t) /\ LastAt(t)' = LastAt(t) /\ PcAt(t)' = PcAt(t)
  BY <1>1 DEF EndAt, LastAt, PcAt, OutOfList, Pop
<1>10. UNCHANGED <<AbsList, AbsEnd, AbsLast, AbsPc>>
  BY <1>5, <1>6, <1>8, <1>9, SameIf
<1>11. AbsNewest' = AbsNewest /\ AbsMonotone' = AbsMonotone
  BY <1>1, <1>3, <1>4, SameHistory
<1>12. Progress(t)'
  BY <1>1, <1>2, <1>3, <1>4 DEF Progress, Searches, Pop, PtsOf
<1>13. QED
  BY <1>1, <1>10, <1>11, <1>12 DEF Same

(* The turns of the search of interleave_add_packet, which finds the place *)
(* that JitterBuffer computes at once.                                     *)
LEMMA SearchRefines ==
    ASSUME TypeOK, TypeOK', JP!IInv, NEW t \in Stream, Alone(t), Alone(t)', Progress(t),
           NEW m \in Nat, NEW q \in [1..m -> NodeId], Searching(t, q, m),
           \A u \in Stream \ {t} : pc'[u] = pc[u] /\ loc'[u] = loc[u],
           Peek(t) \/ CompareEnd(t) \/ Walk(t) \/ AssertLast(t), fault' = "none"
    PROVE  Same /\ Progress(t)'
<1> DEFINE np == loc[t].np
           np2 == loc'[t].np
           ts == loc[t].ts
           k == Before(np)
           f == JP!SearchFrom(t)
<1>1. /\ pc[t] \in {"peek", "compare", "walk", "assert", "set_end"}
      /\ Linked(q, m) /\ np \in Nodes(q, m) \cup {NULL}
      /\ jb.end = EndOf(q, m)
      /\ pc[t] = "compare" => Deref(np) # NULL
      /\ loc[t].this \notin Nodes(q, m) /\ loc[t].this # NULL
      /\ LastIn(Live \ {loc[t].this}) /\ Nodes(q, m) = Live \ {loc[t].this}
  BY LiveFacts DEF Searching, Inserting, Beside
<1>2. /\ pc \in [Stream -> {"idle", "lock", "flush", "return"} \cup Insert \cup Pop]
      /\ loc \in [Stream -> Locals] /\ loc[t] \in Locals /\ ts \in Pts /\ ts \in Nat
  BY BufferAssumptions DEF TypeOK, Locals
<1>3. /\ UNCHANGED <<jb, pkts, freed, added, out, ret>>
      /\ loc'[t].this = loc[t].this /\ loc'[t].ts = ts
  BY <1>2 DEF Peek, CompareEnd, Walk, AssertLast, Locals, hist
<1>4. /\ Peek(t) => pc[t] = "peek" /\ np2 = np
                    /\ pc'[t] = (IF Deref(np) = NULL THEN "assert" ELSE "compare")
      /\ CompareEnd(t) => /\ pc[t] = "compare"
                          /\ \/ pc'[t] = "walk" /\ np2 = np /\ PtsOf(jb.end) > ts
                             \/ pc'[t] = "assert" /\ np2 = jb.end /\ PtsOf(jb.end) <= ts
      /\ Walk(t) => /\ pc[t] = "walk"
                    /\ \/ pc'[t] = "assert" /\ np2 = np /\ Deref(np) = NULL
                       \/ /\ pc'[t] = "link_next" /\ np2 = np
                          /\ Deref(np) # NULL /\ PtsOf(Deref(np)) > ts
                       \/ /\ pc'[t] = "walk" /\ np2 = Deref(np)
                          /\ Deref(np) # NULL /\ PtsOf(Deref(np)) <= ts
      /\ AssertLast(t) => pc[t] = "assert" /\ pc'[t] = "set_end" /\ np2 = np
  BY <1>2 DEF Peek, CompareEnd, Walk, AssertLast, At, Goto, Locals
<1>5. /\ Len(AbsList) = m /\ AbsList = [i \in 1..m |-> NodeOf(q[i])]
      /\ \A i \in 1..m : AbsList[i].pts = PtsOf(q[i]) /\ PtsOf(q[i]) \in Nat
      /\ \A i \in 1..m : Before(q[i]) = i /\ JP!PtsOf(q[i]) = PtsOf(q[i])
      /\ k \in 0..m
      /\ Deref(np) = IF k = m THEN NULL ELSE q[k + 1]
      /\ f = Before(jb.last[t]) + 1 /\ f \in 1..(m + 1)
  BY <1>1, SearchFacts DEF Searches
<1>6. /\ UNCHANGED <<AbsList, AbsEnd, AbsLast, AbsPc>>
      /\ AbsEnd = jb.end
  <2>1. jb.end # loc[t].this
    BY <1>1, ListFacts DEF EndOf
  <2>2. pc'[t] \in {"peek", "compare", "walk", "assert", "set_end", "link_next"}
    BY <1>4
  <2>3. Linked(q, m)'
    BY <1>1, <1>3 DEF Linked
  <2>4. \A n : NodeOf(n)' = NodeOf(n)
    BY <1>3 DEF NodeOf, PtsOf
  <2>5. ListAt(t, q, m)' = ListAt(t, q, m)
    BY <1>1, <2>2, <2>4 DEF ListAt, OutOfList, Pop
  <2>6. EndAt(t) = jb.end /\ EndAt(t)' = jb.end
    BY <1>1, <1>3, <2>1, <2>2 DEF EndAt, OutOfList, Pop
  <2>7. LastAt(t)' = LastAt(t) /\ PcAt(t)' = PcAt(t)
    BY <1>1, <1>3, <2>2 DEF LastAt, PcAt, OutOfList, Pop
  <2>8. AbsEnd = EndAt(t)
    BY Mapped DEF MapIs
  <2>9. QED
    BY <1>1, <2>3, <2>5, <2>6, <2>7, <2>8, SameIf
<1>7. Same
  BY <1>3, <1>6 DEF Same, AbsNewest, AbsMonotone, AddedOf, PtsOf
<1>8. m # 0 => jb.end = q[m] /\ JP!PtsOf(AbsEnd) = PtsOf(jb.end) /\ Before(jb.end) = m
  <2>1. m # 0 => m \in 1..m
    OBVIOUS
  <2>2. QED
    BY <1>1, <1>5, <1>6, <2>1 DEF EndOf
<1>9. Deref(np) = NULL <=> k = m
  <2>1. k # m => k + 1 \in 1..m
    BY <1>5
  <2>2. k # m => q[k + 1] # NULL
    BY <2>1 DEF NodeId, NULL
  <2>3. QED
    BY <1>5, <2>2
<1>10. (\A n : Before(n)' = Before(n)) /\ \A p : (JP!InsertPoint(t, p))' = JP!InsertPoint(t, p)
  BY <1>6, SameBuffer
<1> DEFINE Found(n) == JP!InsertPoint(t, ts) = Before(n) + 1
<1>11. JP!TypeOK
  BY DEF JP!IInv
<1> DEFINE Place(j) ==
              \/ /\ j = Len(AbsList) + 1
                 /\ \/ JP!SearchFrom(t) > Len(AbsList)
                    \/ ~JP!ComparePts(JP!PtsOf(AbsEnd), ts)
                    \/ \A i \in JP!SearchFrom(t)..Len(AbsList) : AbsList[i].pts <= ts
              \/ /\ JP!SearchFrom(t) <= j /\ j <= Len(AbsList)
                 /\ JP!ComparePts(JP!PtsOf(AbsEnd), ts)
                 /\ AbsList[j].pts > ts
                 /\ \A i \in JP!SearchFrom(t)..(j - 1) : AbsList[i].pts <= ts
<1>a. ASSUME NEW j \in 1..(m + 1), Place(j) PROVE JP!InsertPoint(t, ts) = j
  <2>1. j \in 1..(Len(AbsList) + 1) /\ JP!SearchFrom(t) \in Nat
    BY <1>5
  <2> HIDE DEF ts
  <2>2. QED
    BY <1>2, <1>11, <1>a, <2>1, JP!InsertPointIs, BufferAssumptions
<1>b. /\ k \in 0..m /\ f \in 1..(m + 1) /\ Len(AbsList) = m /\ m + 1 \in 1..(m + 1)
      /\ k # m => k + 1 \in 1..m /\ k + 1 \in 1..(m + 1) /\ k + 1 <= m /\ (k + 1) - 1 = k
  <2>1. k \in 0..m /\ f \in 1..(m + 1) /\ Len(AbsList) = m
    BY <1>5
  <2> HIDE DEF k, f
  <2>2. QED
    BY <2>1
<1> HIDE DEF k, f
<1>12. Peek(t) /\ k = m => Found(np)
  <2>1. SUFFICES ASSUME Peek(t), k = m PROVE Found(np)
    OBVIOUS
  <2>2. np = jb.last[t]
    BY <1>4, <2>1 DEF Progress
  <2>3. f > Len(AbsList)
    BY <1>5, <1>b, <2>1, <2>2 DEF k
  <2>4. JP!InsertPoint(t, ts) = m + 1
    BY <1>a, <1>b, <2>3 DEF f
  <2>5. QED
    BY <2>1, <2>4 DEF k
<1>13. CompareEnd(t) /\ PtsOf(jb.end) <= ts => Found(jb.end)
  <2>1. SUFFICES ASSUME CompareEnd(t), PtsOf(jb.end) <= ts PROVE Found(jb.end)
    OBVIOUS
  <2>2. k # m /\ m # 0
    BY <1>1, <1>4, <1>5, <1>9, <2>1
  <2>3. PtsOf(jb.end) \in Nat
    <3>1. m \in 1..m
      BY <2>2
    <3>2. QED
      BY <1>5, <1>8, <2>2, <3>1
  <2>4. ~JP!ComparePts(JP!PtsOf(AbsEnd), ts)
    BY <1>2, <1>8, <2>1, <2>2, <2>3 DEF JP!ComparePts
  <2>5. JP!InsertPoint(t, ts) = m + 1
    BY <1>a, <1>b, <2>4
  <2>6. QED
    BY <1>8, <2>2, <2>5
<1>14. CompareEnd(t) /\ PtsOf(jb.end) > ts => PassedBy(t)
  <2>1. SUFFICES ASSUME CompareEnd(t), PtsOf(jb.end) > ts PROVE PassedBy(t)
    OBVIOUS
  <2>2. k # m /\ m # 0 /\ np = jb.last[t]
    BY <1>1, <1>4, <1>5, <1>9, <2>1 DEF Progress
  <2>3. f = k + 1 /\ f <= m
    BY <1>5, <2>2 DEF k
  <2>4. \A i \in f..k : FALSE
    BY <1>5, <2>3
  <2>5. JP!ComparePts(JP!PtsOf(AbsEnd), ts)
    BY <1>8, <2>1, <2>2 DEF JP!ComparePts
  <2>6. QED
    BY <1>5, <2>3, <2>4, <2>5 DEF PassedBy, k, f
<1>15. ASSUME Walk(t)
       PROVE  /\ f <= k + 1 /\ f <= m /\ JP!ComparePts(JP!PtsOf(AbsEnd), ts)
              /\ \A i \in f..k : AbsList[i].pts <= ts
  <2>1. PassedBy(t)
    BY <1>4, <1>15 DEF Progress
  <2>2. QED
    BY <1>5, <2>1 DEF PassedBy, k, f
<1>16. Walk(t) /\ k = m => Found(np)
  <2>1. SUFFICES ASSUME Walk(t), k = m PROVE Found(np)
    OBVIOUS
  <2>2. \A i \in f..Len(AbsList) : AbsList[i].pts <= ts
    BY <1>5, <1>15, <2>1
  <2>4. JP!InsertPoint(t, ts) = m + 1
    BY <1>a, <1>b, <2>2 DEF f
  <2>5. QED
    BY <2>1, <2>4 DEF k
<1>17. Walk(t) /\ k # m /\ PtsOf(Deref(np)) > ts => Found(np)
  <2>1. SUFFICES ASSUME Walk(t), k # m, PtsOf(Deref(np)) > ts PROVE Found(np)
    OBVIOUS
  <2>2. /\ k + 1 \in 1..m /\ k + 1 \in 1..(m + 1) /\ k + 1 <= Len(AbsList)
        /\ (k + 1) - 1 = k
    BY <1>b, <2>1
  <2>3. AbsList[k + 1].pts > ts
    BY <1>5, <2>1, <2>2
  <2>4. f <= k + 1 /\ \A i \in f..((k + 1) - 1) : AbsList[i].pts <= ts
    BY <1>15, <2>1, <2>2
  <2>5. JP!InsertPoint(t, ts) = k + 1
    BY <1>15, <1>a, <2>1, <2>2, <2>3, <2>4 DEF f
  <2>6. QED
    BY <2>5 DEF k
<1>18. Walk(t) /\ k # m /\ PtsOf(Deref(np)) <= ts =>
          /\ Before(Deref(np)) = k + 1
          /\ \A i \in f..(k + 1) : AbsList[i].pts <= ts
  <2>1. SUFFICES ASSUME Walk(t), k # m, PtsOf(Deref(np)) <= ts
                 PROVE  /\ Before(Deref(np)) = k + 1
                        /\ \A i \in f..(k + 1) : AbsList[i].pts <= ts
    OBVIOUS
  <2>2. k + 1 \in 1..m
    BY <1>5, <2>1
  <2>3. Deref(np) = q[k + 1] /\ AbsList[k + 1].pts <= ts
    BY <1>5, <2>1, <2>2
  <2>4. \A i \in f..(k + 1) : i = k + 1 \/ i \in f..k
    BY <1>5
  <2>5. QED
    BY <1>5, <1>15, <2>1, <2>2, <2>3, <2>4
<1>19. AssertLast(t) => Found(np)
  BY <1>4 DEF Progress, FoundBy
<1>20. pc'[t] \in {"assert", "set_end", "link_next", "link_prev"} => FoundBy(t)'
  <2>1. pc'[t] \in {"assert", "set_end", "link_next", "link_prev"} => Found(np2)
    BY <1>4, <1>9, <1>12, <1>13, <1>16, <1>17, <1>19
  <2>2. QED
    BY <1>3, <1>10, <2>1 DEF FoundBy
<1>21. pc'[t] = "walk" => PassedBy(t)'
  <2>1. pc'[t] = "walk" =>
           /\ f <= Before(np2) + 1 /\ f <= Len(AbsList) /\ JP!ComparePts(JP!PtsOf(AbsEnd), ts)
           /\ \A i \in f..Before(np2) : AbsList[i].pts <= ts
    <3>1. CASE CompareEnd(t)
      BY <1>4, <1>14, <3>1 DEF PassedBy, f
    <3>2. CASE Walk(t)
      <4>1. SUFFICES ASSUME pc'[t] = "walk"
                     PROVE  /\ f <= Before(np2) + 1 /\ f <= Len(AbsList)
                            /\ JP!ComparePts(JP!PtsOf(AbsEnd), ts)
                            /\ \A i \in f..Before(np2) : AbsList[i].pts <= ts
        OBVIOUS
      <4>2. np2 = Deref(np) /\ k # m /\ PtsOf(Deref(np)) <= ts
        BY <1>4, <1>9, <3>2, <4>1
      <4>3. Before(np2) = k + 1 /\ \A i \in f..(k + 1) : AbsList[i].pts <= ts
        BY <1>18, <3>2, <4>2
      <4>4. f <= k + 1 /\ f <= Len(AbsList) /\ JP!ComparePts(JP!PtsOf(AbsEnd), ts)
        BY <1>15, <1>b, <3>2
      <4>5. f <= (k + 1) + 1
        BY <1>b, <4>4
      <4>6. QED
        BY <4>3, <4>4, <4>5
    <3>3. QED
      BY <1>4, <3>1, <3>2
  <2>2. /\ (JP!SearchFrom(t))' = f /\ (JP!PtsOf(AbsEnd))' = JP!PtsOf(AbsEnd)
        /\ (Before(loc[t].np))' = Before(np2)
    BY <1>6, SameBuffer DEF f
  <2>3. QED
    BY <1>3, <1>6, <1>10, <2>1, <2>2 DEF PassedBy, JP!ComparePts
<1>22. pc'[t] \in {"peek", "compare"} => np2 = jb'.last[t]
  BY <1>3, <1>4 DEF Progress
<1>23. Progress(t)'
  <2>1. pc'[t] \in {"compare", "walk", "assert", "set_end", "link_next"}
    BY <1>4
  <2>2. added + 1 = Len(pkts) /\ loc[t].this = Len(pkts) /\ PtsOf(loc[t].this) = ts
    BY <1>1 DEF Progress, Searches
  <2>3. QED
    BY <1>3, <1>20, <1>21, <1>22, <2>1, <2>2 DEF Progress, Searches, Pop, PtsOf
<1>24. QED
  BY <1>7, <1>23

(* The place to link at is behind the last node when nothing follows it. *)
LEMMA NpLast ==
    ASSUME NEW m \in Nat, NEW q \in [1..m -> NodeId], Linked(q, m),
           NEW np \in Nodes(q, m) \cup {NULL}, Deref(np) = NULL
    PROVE  np = EndOf(q, m)
<1>1. \A n \in NodeId : n # NULL
  BY DEF NodeId, NULL
<1>2. CASE np = NULL
  <2>1. jb.head = NULL
    BY <1>2 DEF Deref
  <2>2. m = 0
    <3>1. m # 0 => 1 \in 1..m
      OBVIOUS
    <3>2. m # 0 => jb.head \in NodeId
      BY <3>1 DEF Linked
    <3>3. QED
      BY <1>1, <2>1, <3>2
  <2>3. QED
    BY <1>2, <2>2 DEF EndOf
<1>3. CASE np # NULL
  <2>1. PICK i \in 1..m : np = q[i]
    BY <1>3 DEF Nodes
  <2>2. jb.next[q[i]] = NULL
    BY <1>3, <2>1 DEF Deref
  <2>3. i # m => i + 1 \in 1..m
    OBVIOUS
  <2>4. i # m => jb.next[q[i]] \in NodeId
    BY <2>3 DEF Linked
  <2>5. i = m /\ m # 0
    BY <1>1, <2>2, <2>4
  <2>6. QED
    BY <2>1, <2>5 DEF EndOf
<1>4. QED
  BY <1>2, <1>3

(* The writes before the list reaches the new node. *)
LEMMA LinkNextRefines ==
    ASSUME TypeOK, TypeOK', NEW t \in Stream, Alone(t), Alone(t)', Progress(t),
           NEW m \in Nat, NEW q \in [1..m -> NodeId],
           Searching(t, q, m) \/ AtLink(t, q, m),
           SetEnd(t) \/ LinkNext(t)
    PROVE  Same /\ Progress(t)'
<1> DEFINE n == loc[t].this
           np == loc[t].np
<1>1. /\ Linked(q, m) /\ np \in Nodes(q, m) \cup {NULL}
      /\ n \in Live /\ n \notin Nodes(q, m) /\ n # NULL /\ n \in NodeId
  BY LiveFacts DEF Searching, AtLink, Inserting, Beside
<1>2. /\ UNCHANGED <<pkts, freed, loc, added, out, ret>>
      /\ pc \in [Stream -> {"idle", "lock", "flush", "return"} \cup Insert \cup Pop]
      /\ jb \in Object
  BY DEF SetEnd, LinkNext, Write, TypeOK
<1>3. \A i \in 1..m : q[i] \in Nodes(q, m)
  BY DEF Nodes
<1>4. EndOf(q, m) # n
  BY <1>1, ListFacts DEF EndOf
<1>5. /\ pc[t] \in {"set_end", "link_next"} /\ pc'[t] \in {"link_next", "link_prev"}
      /\ Linked(q, m)' /\ jb'.last = jb.last
      /\ EndAt(t)' = EndAt(t)
  <2>1. CASE SetEnd(t)
    <3>1. /\ pc[t] = "set_end" /\ pc'[t] = "link_next"
          /\ jb' = [jb EXCEPT !.end = n]
      BY <1>2, <2>1 DEF SetEnd, Write, At, Goto
    <3>2. /\ jb'.head = jb.head /\ jb'.next = jb.next /\ jb'.last = jb.last /\ jb'.end = n
      BY <1>2, <3>1 DEF Object
    <3>3. jb.end = EndOf(q, m) /\ Deref(np) = NULL
      BY <3>1 DEF Searching, AtLink
    <3>4. np = EndOf(q, m)
      BY <1>1, <3>3, NpLast
    <3>5. EndAt(t)' = np
      BY <1>2, <3>1, <3>2 DEF EndAt
    <3>6. EndAt(t) = EndOf(q, m)
      BY <3>1, <3>3 DEF EndAt, OutOfList, Pop
    <3>7. Linked(q, m)'
      BY <1>1, <3>2 DEF Linked
    <3>8. QED
      BY <3>1, <3>2, <3>4, <3>5, <3>6, <3>7
  <2>2. CASE LinkNext(t)
    <3>1. /\ pc[t] = "link_next" /\ pc'[t] = "link_prev"
          /\ jb' = [jb EXCEPT !.next[n] = Deref(np)]
      BY <1>2, <2>2 DEF LinkNext, Write, At, Goto
    <3>2. /\ jb'.head = jb.head /\ jb'.last = jb.last /\ jb'.end = jb.end
          /\ jb'.next = [jb.next EXCEPT ![n] = Deref(np)]
          /\ jb.next \in [NodeId -> Pointer]
      BY <1>2, <3>1 DEF Object
    <3>3. \A i \in 1..m : jb'.next[q[i]] = jb.next[q[i]]
      BY <1>1, <1>3, <3>2
    <3>4. Linked(q, m)'
      BY <1>1, <3>2, <3>3 DEF Linked
    <3>5. EndAt(t)' = EndAt(t)
      BY <1>2, <3>1, <3>2 DEF EndAt, OutOfList, Pop
    <3>6. QED
      BY <3>1, <3>2, <3>4, <3>5
  <2>3. QED
    BY <2>1, <2>2
<1>6. \A i : NodeOf(i)' = NodeOf(i)
  BY <1>2 DEF NodeOf, PtsOf
<1>7. ListAt(t, q, m)' = ListAt(t, q, m)
  BY <1>5, <1>6 DEF ListAt, OutOfList, Pop
<1>8. LastAt(t)' = LastAt(t) /\ PcAt(t)' = PcAt(t)
  BY <1>2, <1>5 DEF LastAt, PcAt, OutOfList, Pop
<1>9. UNCHANGED <<AbsList, AbsEnd, AbsLast, AbsPc>>
  BY <1>1, <1>5, <1>7, <1>8, SameIf
<1>10. FoundBy(t)'
  <2>1. FoundBy(t)
    BY <1>5 DEF Progress
  <2>2. (\A i : Before(i)' = Before(i)) /\ \A p : (JP!InsertPoint(t, p))' = JP!InsertPoint(t, p)
    BY <1>9, SameBuffer
  <2>3. QED
    BY <1>2, <2>1, <2>2 DEF FoundBy
<1>11. Progress(t)'
  <2>1. added + 1 = Len(pkts) /\ loc[t].this = Len(pkts) /\ PtsOf(loc[t].this) = loc[t].ts
    BY <1>5 DEF Progress, Searches
  <2>2. QED
    BY <1>2, <1>5, <1>10, <2>1 DEF Progress, Searches, Pop, PtsOf
<1>12. QED
  BY <1>2, <1>9, <1>11 DEF Same, AbsNewest, AbsMonotone, AddedOf, PtsOf

(* What the type invariant says of the packets. *)
LEMMA PacketTypes ==
    ASSUME TypeOK
    PROVE  \A i \in DOMAIN pkts : pkts[i].type \in Stream /\ pkts[i].pts \in Pts /\ pkts[i].pts \in Nat
<1> DEFINE R == [type : Stream, pts : Pts]
<1>1. \A r \in R : r.type \in Stream /\ r.pts \in Pts /\ r.pts \in Nat
  BY BufferAssumptions
<1>2. pkts \in Seq(R)
  BY DEF TypeOK
<1> HIDE DEF R
<1>3. \A i \in DOMAIN pkts : pkts[i] \in R
  BY <1>2
<1>4. QED
  BY <1>1, <1>3

(* What the history of JitterBuffer records of an added packet. *)
LEMMA AddedHistory ==
    ASSUME TypeOK, NEW t \in Stream, added \in Nat, added' = added + 1, UNCHANGED pkts,
           added + 1 = Len(pkts), pkts[added + 1].type = t
    PROVE  /\ AbsNewest' = [AbsNewest EXCEPT ![t] = PtsOf(added + 1)]
           /\ AbsMonotone' <=> AbsMonotone /\ PtsOf(added + 1) >= AbsNewest[t]
<1> DEFINE n == added + 1
           A(s) == AddedOf(s)
<1>1. \A i : PtsOf(i)' = PtsOf(i)
  BY DEF PtsOf
<1>2. \A s \in Stream : A(s)' = IF s = t THEN A(s) \cup {n} ELSE A(s)
  <2>1. \A i : i \in 1..(added + 1) <=> i \in 1..added \/ i = n
    OBVIOUS
  <2>2. QED
    BY <2>1 DEF AddedOf
<1>3. \A s \in Stream : A(s) \in SUBSET (1..added)
  BY DEF AddedOf
<1>4. \A s \in Stream : A(s) # {} => Max(A(s)) \in A(s) /\ \A i \in A(s) : i <= Max(A(s))
  BY <1>3, MaxOf
<1>5. Max(A(t) \cup {n}) = n
  <2>1. n \in Nat /\ n \in 1..n /\ \A i \in 1..added : i \in 1..n /\ i < n
    OBVIOUS
  <2>2. A(t) \cup {n} \in SUBSET (1..n) /\ \A i \in A(t) : i \in 1..added
    BY <1>3, <2>1
  <2>3. /\ Max(A(t) \cup {n}) \in A(t) \cup {n}
        /\ n <= Max(A(t) \cup {n})
    BY <2>1, <2>2, MaxOf
  <2>4. ASSUME Max(A(t) \cup {n}) \in A(t) PROVE FALSE
    BY <2>1, <2>2, <2>3, <2>4
  <2>5. QED
    BY <2>3, <2>4
<1>6. \A i \in 1..n : PtsOf(i) \in Nat
  <2>1. DOMAIN pkts = 1..n
    BY DEF TypeOK
  <2>2. QED
    BY <2>1, PacketTypes DEF PtsOf
<1> HIDE DEF A
<1>7. AbsNewest' = [AbsNewest EXCEPT ![t] = PtsOf(n)]
  <2>1. AbsNewest = [s \in Stream |-> IF A(s) = {} THEN 0 ELSE PtsOf(Max(A(s)))]
    BY DEF AbsNewest, A
  <2>2. AbsNewest' = [s \in Stream |-> (IF A(s) = {} THEN 0 ELSE PtsOf(Max(A(s))))']
    BY DEF AbsNewest, A
  <2>3. \A s \in Stream : (IF A(s) = {} THEN 0 ELSE PtsOf(Max(A(s))))'
                          = IF s = t THEN PtsOf(n) ELSE IF A(s) = {} THEN 0 ELSE PtsOf(Max(A(s)))
    <3>1. TAKE s \in Stream
    <3>2. CASE s = t
      <4>1. A(t)' = A(t) \cup {n}
        BY <1>2
      <4>2. QED
        BY <1>1, <1>5, <3>2, <4>1
    <3>3. CASE s # t
      <4>1. A(s)' = A(s)
        BY <1>2, <3>3
      <4>2. QED
        BY <1>1, <3>3, <4>1
    <3>4. QED
      BY <3>2, <3>3
  <2>4. QED
    BY <2>1, <2>2, <2>3
<1>8. AbsNewest[t] = IF A(t) = {} THEN 0 ELSE PtsOf(Max(A(t)))
  BY DEF AbsNewest, A
<1>9. AbsMonotone <=> \A s \in Stream : \A i, j \in A(s) : i < j => PtsOf(i) <= PtsOf(j)
  BY DEF AbsMonotone, A
<1>10. AbsMonotone' <=> \A s \in Stream : \A i, j \in A(s)' : i < j => PtsOf(i) <= PtsOf(j)
  BY <1>1 DEF AbsMonotone, A
<1>11. ASSUME AbsMonotone' PROVE AbsMonotone /\ PtsOf(n) >= AbsNewest[t]
  <2>1. AbsMonotone
    BY <1>2, <1>9, <1>10, <1>11
  <2>2. CASE A(t) = {}
    <3>1. n \in 1..n
      OBVIOUS
    <3>2. QED
      BY <1>6, <1>8, <2>1, <2>2, <3>1
  <2>3. CASE A(t) # {}
    <3>1. Max(A(t)) \in A(t)
      BY <1>4, <2>3
    <3>2. Max(A(t)) \in 1..added /\ Max(A(t)) < n
      BY <1>3, <3>1
    <3>3. Max(A(t)) \in A(t)' /\ n \in A(t)'
      BY <1>2, <3>1
    <3>4. PtsOf(Max(A(t))) <= PtsOf(n)
      BY <1>10, <1>11, <3>2, <3>3
    <3>5. n \in 1..n /\ Max(A(t)) \in 1..n
      BY <3>2
    <3>6. QED
      BY <1>6, <1>8, <2>1, <2>3, <3>4, <3>5
  <2>4. QED
    BY <2>2, <2>3
<1>12. ASSUME AbsMonotone, PtsOf(n) >= AbsNewest[t] PROVE AbsMonotone'
  <2>1. SUFFICES ASSUME NEW s \in Stream, NEW i \in A(s)', NEW j \in A(s)', i < j
                 PROVE  PtsOf(i) <= PtsOf(j)
    BY <1>10
  <2>2. CASE i \in A(s) /\ j \in A(s)
    BY <1>9, <1>12, <2>1, <2>2
  <2>3. CASE i = n
    <3>1. j \in 1..n
      BY <1>2, <1>3
    <3>2. QED
      BY <2>1, <2>3, <3>1
  <2>4. CASE j = n /\ i \in A(s) /\ i # n
    <3>1. s = t
      <4>1. n \notin A(s)
        BY <1>3
      <4>2. QED
        BY <1>2, <2>1, <2>4, <4>1
    <3>2. A(t) # {} /\ Max(A(t)) \in A(t) /\ i <= Max(A(t))
      BY <1>4, <2>4, <3>1
    <3>3. i \in 1..n /\ Max(A(t)) \in 1..n /\ n \in 1..n
      BY <1>3, <2>4, <3>1, <3>2
    <3>4. PtsOf(Max(A(t))) <= PtsOf(n)
      BY <1>6, <1>8, <1>12, <3>2, <3>3
    <3>5. PtsOf(i) <= PtsOf(Max(A(t)))
      BY <1>6, <1>9, <1>12, <2>4, <3>1, <3>2, <3>3
    <3>6. QED
      BY <1>6, <2>4, <3>3, <3>4, <3>5
  <2>5. QED
    BY <1>2, <2>1, <2>2, <2>3, <2>4
<1>13. QED
  BY <1>7, <1>11, <1>12

(* *next_point = this_pktl: the list reaches the new node, and for         *)
(* JitterBuffer the packet is added.                                       *)
LEMMA LinkPrevRefines ==
    ASSUME TypeOK, TypeOK', JP!IInv, NEW t \in Stream, Alone(t), Alone(t)', Progress(t),
           NEW m \in Nat, NEW q \in [1..m -> NodeId], AtLink(t, q, m), LinkPrev(t)
    PROVE  JP!AddPacket(t, loc[t].ts) /\ Progress(t)'
<1> DEFINE n == loc[t].this
           np == loc[t].np
           p == loc[t].ts
<1>1. PICK k \in 1..(m + 1) : \E r \in [1..(m + 1) -> NodeId] :
         /\ np = NULL => k = 1
         /\ np # NULL => k > 1 /\ np = q[k - 1]
         /\ r = Inserted(q, m, k, n)
         /\ AtLast(t, r, m + 1)'
  BY LinkPrevShape
<1>2. PICK r \in [1..(m + 1) -> NodeId] :
         /\ np = NULL => k = 1
         /\ np # NULL => k > 1 /\ np = q[k - 1]
         /\ r = Inserted(q, m, k, n)
         /\ AtLast(t, r, m + 1)'
  BY <1>1
<1>3. /\ Linked(q, m) /\ np \in Nodes(q, m) \cup {NULL}
      /\ n \in Live /\ n \notin Nodes(q, m) /\ n # NULL /\ pkts[n].type = t
      /\ jb.end = IF Deref(np) = NULL THEN n ELSE EndOf(q, m)
  BY LiveFacts DEF AtLink, Inserting, Beside
<1>4. /\ UNCHANGED <<pkts, freed, loc, out, ret>> /\ added' = added + 1
      /\ pc \in [Stream -> {"idle", "lock", "flush", "return"} \cup Insert \cup Pop]
      /\ jb \in Object /\ p \in Pts
  BY DEF LinkPrev, Write, TypeOK, Locals
<1>5. /\ pc[t] = "link_prev" /\ pc'[t] = "link_last"
      /\ jb' = IF np = NULL THEN [jb EXCEPT !.head = n] ELSE [jb EXCEPT !.next[np] = n]
  BY <1>4 DEF LinkPrev, Write, At, Goto
<1>6. jb'.end = jb.end /\ jb'.last = jb.last
  BY <1>4, <1>5 DEF Object
<1>7. /\ added + 1 = Len(pkts) /\ n = added + 1 /\ PtsOf(n) = p /\ FoundBy(t)
  BY <1>5 DEF Progress, Searches
<1>8. JP!TypeOK
  BY DEF JP!IInv
<1>9. added \in Nat /\ added < MaxPackets /\ MaxPackets \in Nat /\ n \in 1..MaxPackets
  <2>1. Len(pkts) \in Nat /\ Len(pkts) <= MaxPackets /\ MaxPackets \in Nat
    BY BufferAssumptions DEF TypeOK
  <2>2. added \in Nat
    BY <1>8, <2>1 DEF JP!TypeOK
  <2>3. QED
    BY <1>7, <2>1, <2>2
<1>10. /\ AbsList = [i \in 1..m |-> NodeOf(q[i])] /\ Len(AbsList) = m
       /\ Before(np) \in 0..m
       /\ \A i \in 1..m : Before(q[i]) = i
       /\ Deref(np) = IF Before(np) = m THEN NULL ELSE q[Before(np) + 1]
  <2>1. pc[t] \in Searches
    BY <1>5 DEF Searches
  <2>2. Linked(q, m) /\ np \in Nodes(q, m) \cup {NULL}
    BY <1>3
  <2>3. /\ AbsList = [i \in 1..m |-> NodeOf(q[i])] /\ Len(AbsList) = m
        /\ \A i \in 1..m : Before(q[i]) = i
    <3>1. pc[t] \notin OutOfList
      BY <1>5 DEF OutOfList, Pop
    <3>2. QED
      BY <2>2, <3>1, BufferIs
  <2>4. /\ Before(np) \in 0..m
        /\ Deref(np) = IF Before(np) = m THEN NULL ELSE q[Before(np) + 1]
    BY <2>1, <2>2, SearchFacts
  <2>5. QED
    BY <2>3, <2>4
<1>11. Before(np) = k - 1
  <2>1. np # NULL => k - 1 \in 1..m
    BY <1>2
  <2>2. np = NULL => Before(np) = 0
    BY DEF Before
  <2>3. QED
    BY <1>2, <1>10, <2>1, <2>2
<1>12. JP!InsertPoint(t, p) = k
  BY <1>7, <1>11 DEF FoundBy
<1>13. Linked(r, m + 1)'
  BY <1>2 DEF AtLast, Whole
<1>14. MapIs /\ MapIs'
  BY Mapped, PTL
<1>15. AbsEnd = EndAt(t) /\ AbsLast = LastAt(t) /\ AbsPc = PcAt(t)
  BY <1>14 DEF MapIs
<1>16. AbsEnd' = EndAt(t)' /\ AbsLast' = LastAt(t)' /\ AbsPc' = PcAt(t)'
  BY <1>14 DEF MapIs
<1>17. AbsList' = [i \in 1..(m + 1) |-> NodeOf(r[i])]
  <2>1. m + 1 \in Nat
    OBVIOUS
  <2>2. AbsList' = ListAt(t, r, m + 1)'
    BY <1>13, <1>14, <2>1 DEF MapIs
  <2>3. \A i : NodeOf(i)' = NodeOf(i)
    BY <1>4 DEF NodeOf, PtsOf
  <2>4. ListAt(t, r, m + 1)' = [i \in 1..(m + 1) |-> NodeOf(r[i])]
    BY <1>5, <2>3 DEF ListAt, OutOfList, Pop
  <2>5. QED
    BY <2>2, <2>4
<1> DEFINE node == JP!NewNode(t, p)
<1>18. node = NodeOf(n) /\ node \in JP!Node /\ node.id = n
  <2>1. node = [id |-> n, type |-> t, pts |-> p]
    BY <1>7 DEF JP!NewNode
  <2>2. QED
    BY <1>3, <1>4, <1>7, <1>9, <2>1 DEF NodeOf, JP!Node
<1> HIDE DEF node
<1>19. AbsList' = JP!InsertAt(AbsList, k, node)
  <2> DEFINE w == JP!InsertAt(AbsList, k, node)
  <2>1. /\ w \in Seq(JP!Node) /\ Len(w) = m + 1
        /\ \A j \in 1..(m + 1) : w[j] = IF j < k THEN AbsList[j]
                                        ELSE IF j = k THEN node ELSE AbsList[j - 1]
    <3>1. AbsList \in Seq(JP!Node) /\ k \in 1..(Len(AbsList) + 1)
      BY <1>8, <1>10 DEF JP!TypeOK
    <3>2. /\ w \in Seq(JP!Node) /\ Len(w) = Len(AbsList) + 1
          /\ \A j \in 1..(Len(AbsList) + 1) :
                w[j] = IF j < k THEN AbsList[j] ELSE IF j = k THEN node ELSE AbsList[j - 1]
      BY <1>18, <3>1, JP!InsertAtProperties, BufferAssumptions
    <3>3. QED
      BY <1>10, <3>2
  <2> HIDE DEF w
  <2>2. \A j \in 1..(m + 1) : w[j] = NodeOf(r[j])
    <3>1. TAKE j \in 1..(m + 1)
    <3>2. r[j] = IF j < k THEN q[j] ELSE IF j = k THEN n ELSE q[j - 1]
      BY <1>2 DEF Inserted
    <3>3. /\ j < k => j \in 1..m /\ AbsList[j] = NodeOf(q[j])
          /\ j > k => j - 1 \in 1..m /\ AbsList[j - 1] = NodeOf(q[j - 1])
      BY <1>10
    <3>4. j < k \/ j = k \/ j > k
      OBVIOUS
    <3>5. QED
      BY <1>18, <2>1, <3>2, <3>3, <3>4
  <2>3. w = [j \in 1..(m + 1) |-> w[j]]
    BY <2>1
  <2>4. QED
    BY <1>17, <2>2, <2>3 DEF w
<1>20. AbsEnd' = IF k > Len(AbsList) THEN n ELSE AbsEnd
  <2>1. AbsEnd' = jb.end
    BY <1>5, <1>6, <1>16 DEF EndAt, OutOfList, Pop
  <2>2. CASE k = m + 1
    <3>1. Deref(np) = NULL
      BY <1>10, <1>11, <2>2
    <3>2. QED
      BY <1>3, <1>10, <2>1, <2>2, <3>1
  <2>3. CASE k # m + 1
    <3>1. k \in 1..m /\ m # 0
      BY <2>3
    <3>2. Deref(np) = q[k] /\ q[k] # NULL
      BY <1>10, <1>11, <3>1 DEF NodeId, NULL
    <3>3. jb.end = EndOf(q, m) /\ EndOf(q, m) \in Nodes(q, m)
      BY <1>3, <3>1, <3>2 DEF EndOf, Nodes
    <3>4. AbsEnd = jb.end
      BY <1>3, <1>5, <1>15, <3>3 DEF EndAt, OutOfList, Pop
    <3>5. QED
      BY <1>10, <2>1, <3>1, <3>4
  <2>4. QED
    BY <2>2, <2>3
<1>21. AbsLast' = [AbsLast EXCEPT ![t] = n]
  <2>1. AbsLast = [s \in Stream |-> jb.last[s]]
    BY <1>5, <1>15 DEF LastAt, OutOfList, Pop
  <2>2. AbsLast' = [s \in Stream |-> IF s = t THEN n ELSE jb.last[s]]
    BY <1>4, <1>5, <1>6, <1>16 DEF LastAt, OutOfList, Pop
  <2>3. QED
    BY <2>1, <2>2
<1>22. AbsPc = "idle" /\ AbsPc' = "loop"
  BY <1>5, <1>15, <1>16 DEF PcAt, Pop
<1>23. /\ AbsNewest' = [AbsNewest EXCEPT ![t] = p]
       /\ AbsMonotone' = (AbsMonotone /\ p >= AbsNewest[t])
  <2>1. /\ AbsNewest' = [AbsNewest EXCEPT ![t] = p]
        /\ AbsMonotone' <=> AbsMonotone /\ p >= AbsNewest[t]
    BY <1>3, <1>4, <1>7, <1>9, AddedHistory
  <2>2. AbsMonotone' \in BOOLEAN /\ AbsMonotone \in BOOLEAN
    BY DEF AbsMonotone
  <2>3. QED
    BY <2>1, <2>2
<1>24. JP!AddPacket(t, p)
  BY <1>4, <1>9, <1>12, <1>18, <1>19, <1>20, <1>21, <1>22, <1>23 DEF JP!AddPacket, node
<1>25. Progress(t)'
  BY <1>4, <1>5, <1>7 DEF Progress, Searches, Pop
<1>26. QED
  BY <1>24, <1>25

(* locate_last() = this_pktl, which JitterBuffer has taken as done. *)
LEMMA LinkLastRefines ==
    ASSUME TypeOK, TypeOK', NEW t \in Stream, Alone(t), Alone(t)', Progress(t),
           NEW m \in Nat, NEW q \in [1..m -> NodeId], AtLast(t, q, m), LinkLast(t)
    PROVE  Same /\ Progress(t)'
<1>1. /\ UNCHANGED <<pkts, freed, loc, added, out, ret>>
      /\ pc \in [Stream -> {"idle", "lock", "flush", "return"} \cup Insert \cup Pop]
      /\ jb \in Object
  BY DEF LinkLast, Write, TypeOK
<1>2. /\ pc[t] = "link_last" /\ pc'[t] = "flush"
      /\ jb' = [jb EXCEPT !.last[t] = loc[t].this]
  BY <1>1 DEF LinkLast, Write, At, Goto
<1>3. /\ jb'.end = jb.end /\ jb'.head = jb.head /\ jb'.next = jb.next
      /\ jb'.last = [jb.last EXCEPT ![t] = loc[t].this] /\ jb.last \in [Stream -> Pointer]
  BY <1>1, <1>2 DEF Object
<1>4. Linked(q, m)
  BY DEF AtLast, Whole
<1>5. Linked(q, m)'
  BY <1>3, <1>4 DEF Linked
<1>6. \A i : NodeOf(i)' = NodeOf(i)
  BY <1>1 DEF NodeOf, PtsOf
<1>7. ListAt(t, q, m)' = ListAt(t, q, m)
  BY <1>2, <1>6 DEF ListAt, OutOfList, Pop
<1>8. EndAt(t)' = EndAt(t) /\ PcAt(t)' = PcAt(t)
  BY <1>2, <1>3 DEF EndAt, PcAt, OutOfList, Pop
<1>9. LastAt(t)' = LastAt(t)
  <2>1. LastAt(t) = [s \in Stream |-> IF s = t THEN loc[t].this ELSE jb.last[s]]
    BY <1>2 DEF LastAt, OutOfList, Pop
  <2>2. LastAt(t)' = [s \in Stream |-> jb'.last[s]]
    BY <1>2 DEF LastAt, OutOfList, Pop
  <2>3. QED
    BY <1>3, <2>1, <2>2
<1>10. UNCHANGED <<AbsList, AbsEnd, AbsLast, AbsPc>>
  BY <1>4, <1>5, <1>7, <1>8, <1>9, SameIf
<1>11. Progress(t)'
  BY <1>1, <1>2 DEF Progress, Searches, Pop
<1>12. QED
  BY <1>1, <1>10, <1>11 DEF Same, AbsNewest, AbsMonotone, AddedOf, PtsOf

(* interleave_packet_per_pts decides the same as JitterBuffer. *)
LEMMA FlushIs ==
    ASSUME TypeOK, JP!IInv, NEW t \in Stream, Alone(t), pc[t] \notin OutOfList \cup {"link_last"},
           NEW m \in Nat, NEW q \in [1..m -> NodeId], Linked(q, m), LastIn(Nodes(q, m))
    PROVE  /\ Flush <=> JP!Flush
           /\ AllStreamsQueued <=> JP!AllStreamsQueued
<1>1. /\ Len(AbsList) = m /\ AbsList = [i \in 1..m |-> NodeOf(q[i])]
      /\ \A i \in 1..m : AbsList[i].pts = PtsOf(q[i])
      /\ \A i \in 1..m : JP!PtsOf(q[i]) = PtsOf(q[i])
  BY BufferIs
<1>2. \A s \in Stream : AbsLast[s] = jb.last[s]
  <2>1. AbsLast = LastAt(t)
    BY Mapped DEF MapIs
  <2>2. QED
    BY <2>1 DEF LastAt
<1>3. \A s \in Stream : jb.last[s] # NULL => JP!PtsOf(jb.last[s]) = PtsOf(jb.last[s])
  BY <1>1 DEF LastIn, Nodes
<1>4. AllStreamsQueued <=> JP!AllStreamsQueued
  BY <1>2 DEF AllStreamsQueued, JP!AllStreamsQueued, NULL, JP!NULL
<1>5. jb.head = NULL <=> AbsList = <<>>
  <2>1. AbsList = <<>> <=> m = 0
    <3>1. m = 0 => 1..m = {}
      OBVIOUS
    <3>2. QED
      BY <1>1, <3>1
  <2>2. QED
    BY <2>1, ListFacts
<1>6. jb.head # NULL => AbsList[1].pts = PtsOf(jb.head)
  <2>1. jb.head # NULL => m # 0
    BY ListFacts
  <2>2. m # 0 => 1 \in 1..m
    OBVIOUS
  <2>3. QED
    BY <1>1, <2>1, <2>2 DEF Linked
<1>7. SpanTooLong <=> JP!SpanTooLong
  BY <1>2, <1>3, <1>5, <1>6 DEF SpanTooLong, JP!SpanTooLong, Sub64, JP!Sub64, NULL, JP!NULL
<1>8. Flush <=> JP!Flush
  BY <1>2, <1>4, <1>7 DEF Flush, JP!Flush, NULL, JP!NULL
<1>9. QED
  BY <1>4, <1>8

(* The decision to flush, which JitterBuffer takes with the flushed head,  *)
(* or with its return.                                                     *)
LEMMA DecideRefines ==
    ASSUME TypeOK, TypeOK', JP!IInv, NEW t \in Stream, Alone(t), Alone(t)', Progress(t),
           NEW m \in Nat, NEW q \in [1..m -> NodeId], AtRest(t, q, m), DecideFlush(t)
    PROVE  (Same \/ JP!Return) /\ Progress(t)'
<1>1. /\ UNCHANGED <<jb, pkts, freed, added, out>>
      /\ pc \in [Stream -> {"idle", "lock", "flush", "return"} \cup Insert \cup Pop]
      /\ loc \in [Stream -> Locals] /\ loc[t] \in Locals
      /\ pc[t] = "flush"
      /\ Linked(q, m) /\ Nodes(q, m) = Live /\ LastIn(Live)
  BY DEF DecideFlush, At, TypeOK, AtRest, Whole
<1>2. /\ Flush <=> JP!Flush
      /\ AllStreamsQueued <=> JP!AllStreamsQueued
  BY <1>1, FlushIs DEF OutOfList, Pop
<1>3. Linked(q, m)'
  BY <1>1 DEF Linked
<1>4. \A i : NodeOf(i)' = NodeOf(i)
  BY <1>1 DEF NodeOf, PtsOf
<1>5. pc'[t] \in {"read_head", "return"}
  BY <1>1 DEF DecideFlush, Goto
<1>6. ListAt(t, q, m)' = ListAt(t, q, m)
  BY <1>1, <1>4, <1>5 DEF ListAt, OutOfList, Pop
<1>7. EndAt(t)' = EndAt(t) /\ LastAt(t)' = LastAt(t)
  BY <1>1, <1>5 DEF EndAt, LastAt, OutOfList, Pop
<1>8. MapIs /\ MapIs'
  BY Mapped, PTL
<1>9. AbsList = ListAt(t, q, m) /\ AbsEnd = EndAt(t) /\ AbsLast = LastAt(t) /\ AbsPc = PcAt(t)
  BY <1>1, <1>8 DEF MapIs
<1>10. AbsList' = ListAt(t, q, m)' /\ AbsEnd' = EndAt(t)' /\ AbsLast' = LastAt(t)' /\ AbsPc' = PcAt(t)'
  BY <1>3, <1>8 DEF MapIs
<1>11. UNCHANGED <<AbsList, AbsEnd, AbsLast>>
  BY <1>6, <1>7, <1>9, <1>10
<1>12. AbsNewest' = AbsNewest /\ AbsMonotone' = AbsMonotone
  BY <1>1 DEF AbsNewest, AbsMonotone, AddedOf, PtsOf
<1>13. AbsPc = "loop"
  BY <1>1, <1>9 DEF PcAt
<1>14. added = Len(pkts)
  BY <1>1 DEF Progress, Searches
<1>15. CASE Flush
  <2>1. /\ pc'[t] = "read_head" /\ ret' = ret
        /\ loc' = [loc EXCEPT ![t].reason = IF AllStreamsQueued THEN "all" ELSE "forced"]
    BY <1>1, <1>15 DEF DecideFlush, Goto
  <2>2. loc'[t].reason = IF JP!AllStreamsQueued THEN "all" ELSE "forced"
    BY <1>1, <1>2, <2>1 DEF Locals
  <2>3. AbsPc' = "loop"
    BY <1>10, <2>1 DEF PcAt, Pop
  <2>4. Same
    BY <1>1, <1>11, <1>12, <1>13, <2>1, <2>3 DEF Same
  <2>5. ((JP!Flush)' <=> JP!Flush) /\ ((JP!AllStreamsQueued)' <=> JP!AllStreamsQueued)
    BY <1>11, SameBuffer
  <2>6. Progress(t)'
    BY <1>1, <1>2, <1>14, <1>15, <2>1, <2>2, <2>5 DEF Progress, Searches, Pop
  <2>7. QED
    BY <2>4, <2>6
<1>16. CASE ~Flush
  <2>1. pc'[t] = "return" /\ ret' = "drained" /\ loc' = loc
    BY <1>1, <1>16 DEF DecideFlush, Goto
  <2>2. AbsPc' = "idle"
    BY <1>10, <2>1 DEF PcAt, Pop
  <2>3. JP!Return
    BY <1>1, <1>2, <1>11, <1>12, <1>13, <1>16, <2>1, <2>2 DEF JP!Return, JP!list
  <2>4. Progress(t)'
    BY <1>1, <1>14, <2>1 DEF Progress, Searches, Pop
  <2>5. QED
    BY <2>3, <2>4
<1>17. QED
  BY <1>15, <1>16

(* What a taking thread keeps. *)
LEMMA TakingProgress ==
    ASSUME NEW t \in Stream, Progress(t), pc[t] \in Pop, pc'[t] \in Pop \ {"callback"},
           UNCHANGED <<AbsList, AbsEnd, AbsLast, added, pkts>>,
           loc'[t].reason = loc[t].reason
    PROVE  Progress(t)'
<1>1. ((JP!Flush)' <=> JP!Flush) /\ ((JP!AllStreamsQueued)' <=> JP!AllStreamsQueued)
  BY SameBuffer
<1>2. added = Len(pkts) /\ JP!Flush /\ loc[t].reason = IF JP!AllStreamsQueued THEN "all" ELSE "forced"
  BY DEF Progress, Searches, Pop
<1>3. QED
  BY <1>1, <1>2 DEF Progress, Searches, Pop

(* pktl = m_packet_buffer *)
LEMMA ReadHeadRefines ==
    ASSUME TypeOK, TypeOK', NEW t \in Stream, Alone(t), Alone(t)', Progress(t),
           NEW m \in Nat, NEW q \in [1..m -> NodeId], Taking(t, q, m), ReadHead(t)
    PROVE  Same /\ Progress(t)'
<1>1. /\ UNCHANGED <<jb, pkts, freed, added, out, ret>>
      /\ pc[t] = "read_head" /\ pc'[t] = "unlink" /\ loc'[t].reason = loc[t].reason
      /\ Linked(q, m)
  BY DEF ReadHead, At, Goto, TypeOK, Taking, Whole, hist, Locals
<1>2. Linked(q, m)'
  BY <1>1 DEF Linked
<1>3. \A i : NodeOf(i)' = NodeOf(i)
  BY <1>1 DEF NodeOf, PtsOf
<1>4. ListAt(t, q, m)' = ListAt(t, q, m)
  BY <1>1, <1>3 DEF ListAt, OutOfList, Pop
<1>5. EndAt(t)' = EndAt(t) /\ LastAt(t)' = LastAt(t) /\ PcAt(t)' = PcAt(t)
  BY <1>1 DEF EndAt, LastAt, PcAt, OutOfList, Pop
<1>6. UNCHANGED <<AbsList, AbsEnd, AbsLast, AbsPc>>
  BY <1>1, <1>2, <1>4, <1>5, SameIf
<1>7. Progress(t)'
  BY <1>1, <1>6, TakingProgress DEF Pop
<1>8. QED
  BY <1>1, <1>6, <1>7 DEF Same, AbsNewest, AbsMonotone, AddedOf, PtsOf

(* The head of the list is unlinked; JitterBuffer still sees it. *)
LEMMA UnlinkRefines ==
    ASSUME TypeOK, TypeOK', JP!IInv, NEW t \in Stream, Alone(t), Alone(t)', Progress(t),
           NEW m \in Nat, NEW q \in [1..m -> NodeId], Taking(t, q, m), Unlink(t)
    PROVE  Same /\ Progress(t)'
<1> DEFINE n == loc[t].pktl
<1>1. /\ UNCHANGED <<pkts, freed, loc, added, out, ret>>
      /\ pc \in [Stream -> {"idle", "lock", "flush", "return"} \cup Insert \cup Pop]
      /\ jb \in Object
  BY DEF Unlink, Write, TypeOK
<1>2. /\ pc[t] = "unlink" /\ pc'[t] = "fix_end"
      /\ jb' = [jb EXCEPT !.head = jb.next[n]]
  BY <1>1 DEF Unlink, Write, At, Goto
<1>3. /\ Linked(q, m) /\ Nodes(q, m) = Live /\ jb.end = EndOf(q, m)
      /\ jb.head # NULL /\ n = jb.head
  BY <1>2 DEF Taking, Whole
<1>4. jb'.end = jb.end /\ jb'.last = jb.last
  BY <1>1, <1>2 DEF Object
<1>5. PICK k \in Nat : /\ m = k + 1
                       /\ \E r \in [1..k -> NodeId] :
                             (\A i \in 1..k : r[i] = q[i + 1]) /\ Removing(t, r, k)'
  BY UnlinkShape
<1>6. PICK r \in [1..k -> NodeId] : (\A i \in 1..k : r[i] = q[i + 1]) /\ Removing(t, r, k)'
  BY <1>5
<1>7. Linked(r, k)'
  BY <1>6 DEF Removing, Beside
<1>8. n = q[1] /\ n \in Live
  BY <1>3, <1>5, ListFacts DEF Linked
<1>9. \A i : NodeOf(i)' = NodeOf(i)
  BY <1>1 DEF NodeOf, PtsOf
<1>10. ListAt(t, r, k)' = ListAt(t, q, m)
  <2>1. ListAt(t, r, k)' = [i \in 1..(k + 1) |-> IF i = 1 THEN NodeOf(n) ELSE NodeOf(r[i - 1])]
    BY <1>1, <1>2, <1>9 DEF ListAt, OutOfList, Pop
  <2>2. ListAt(t, q, m) = [i \in 1..(k + 1) |-> NodeOf(q[i])]
    BY <1>2, <1>5 DEF ListAt, OutOfList, Pop
  <2>3. \A i \in 1..(k + 1) : i # 1 => i - 1 \in 1..k /\ (i - 1) + 1 = i
    OBVIOUS
  <2>4. \A i \in 1..(k + 1) : (IF i = 1 THEN NodeOf(n) ELSE NodeOf(r[i - 1])) = NodeOf(q[i])
    BY <1>6, <1>8, <2>3
  <2>5. QED
    BY <2>1, <2>2, <2>4
<1>11. jb.end # NULL
  BY <1>3, <1>5, ListFacts
<1>12. EndAt(t)' = EndAt(t)
  BY <1>2, <1>4, <1>11 DEF EndAt, OutOfList, Pop
<1>13. LastAt(t) = [s \in Stream |-> jb.last[s]]
  BY <1>2 DEF LastAt, OutOfList, Pop
<1>14. \A s \in Stream : pkts[n].type = s => jb.last[s] # NULL
  <2>1. /\ AbsList = ListAt(t, q, m) /\ AbsLast = LastAt(t)
    BY <1>3, Mapped DEF MapIs
  <2>2. 1 \in DOMAIN AbsList /\ AbsList[1].type = pkts[n].type
    <3>1. 1 \in 1..m
      BY <1>5
    <3>2. AbsList = [i \in 1..m |-> NodeOf(q[i])]
      BY <1>2, <2>1 DEF ListAt, OutOfList, Pop
    <3>3. QED
      BY <1>8, <3>1, <3>2 DEF NodeOf
  <2>3. JP!LastIsLastOfStream
    BY DEF JP!IInv, JP!PointersConsistent
  <2>4. \A s \in Stream : AbsLast[s] = NULL => \A i \in DOMAIN AbsList : AbsList[i].type # s
    BY <2>3 DEF JP!LastIsLastOfStream, JP!NULL, NULL
  <2>5. \A s \in Stream : AbsLast[s] = jb.last[s]
    BY <1>13, <2>1
  <2>6. QED
    BY <2>2, <2>4, <2>5
<1>15. LastAt(t)' = LastAt(t)
  <2>1. LastAt(t)' = [s \in Stream |-> IF jb.last[s] = NULL /\ pkts[n].type = s THEN n
                                       ELSE jb.last[s]]
    BY <1>1, <1>2, <1>4 DEF LastAt, OutOfList, Pop
  <2>2. QED
    BY <1>13, <1>14, <2>1
<1>16. PcAt(t)' = PcAt(t)
  BY <1>2 DEF PcAt, Pop
<1>17. UNCHANGED <<AbsList, AbsEnd, AbsLast, AbsPc>>
  BY <1>3, <1>7, <1>10, <1>12, <1>15, <1>16, SameIf
<1>18. Progress(t)'
  BY <1>1, <1>2, <1>17, TakingProgress DEF Pop
<1>19. QED
  BY <1>1, <1>17, <1>18 DEF Same, AbsNewest, AbsMonotone, AddedOf, PtsOf

(* The end and the stream's last pointer follow, and the node is deleted. *)
LEMMA RemoveRefines ==
    ASSUME TypeOK, TypeOK', NEW t \in Stream, Alone(t), Alone(t)', Progress(t),
           NEW m \in Nat, NEW q \in [1..m -> NodeId], Removing(t, q, m),
           FixEnd(t) \/ FixLast(t) \/ DeleteNode(t)
    PROVE  Same /\ Progress(t)'
<1> DEFINE n == loc[t].pktl
<1>1. /\ UNCHANGED <<pkts, loc, added, out, ret>>
      /\ pc \in [Stream -> {"idle", "lock", "flush", "return"} \cup Insert \cup Pop]
      /\ jb \in Object
  BY DEF FixEnd, FixLast, DeleteNode, Write, TypeOK, hist
<1>2. /\ Linked(q, m) /\ n \in Live /\ n # NULL /\ n \in DOMAIN pkts
      /\ pc[t] \in {"fix_end", "fix_last", "delete"}
  BY LiveFacts DEF Removing, Beside
<1>3. pc'[t] \in {"fix_last", "delete", "callback"}
  BY <1>1 DEF FixEnd, FixLast, DeleteNode, Write, Goto
<1>4. pc[t] \in OutOfList /\ pc'[t] \in OutOfList
  BY <1>2, <1>3 DEF OutOfList, Pop
<1>5. EndAt(t) = IF jb.end = NULL THEN n ELSE jb.end
  BY <1>2, <1>4 DEF EndAt
<1>6. EndAt(t)' = IF jb'.end = NULL THEN n ELSE jb'.end
  BY <1>1, <1>3, <1>4 DEF EndAt
<1>7. LastAt(t) = [s \in Stream |-> IF jb.last[s] = NULL /\ pkts[n].type = s THEN n ELSE jb.last[s]]
  BY <1>2, <1>4 DEF LastAt
<1>8. LastAt(t)' = [s \in Stream |-> IF jb'.last[s] = NULL /\ pkts[n].type = s THEN n ELSE jb'.last[s]]
  BY <1>1, <1>3, <1>4 DEF LastAt
<1>9. /\ jb'.head = jb.head /\ jb'.next = jb.next
      /\ EndAt(t)' = EndAt(t) /\ LastAt(t)' = LastAt(t)
  <2>1. CASE FixEnd(t)
    <3>1. pc[t] = "fix_end" /\ jb' = [jb EXCEPT !.end = IF jb.head = NULL THEN NULL ELSE @]
      BY <2>1 DEF FixEnd, Write, At
    <3>2. /\ jb'.head = jb.head /\ jb'.next = jb.next /\ jb'.last = jb.last
          /\ jb'.end = IF jb.head = NULL THEN NULL ELSE jb.end
      BY <1>1, <3>1 DEF Object
    <3>3. jb.end = IF m = 0 THEN n ELSE EndOf(q, m)
      BY <3>1 DEF Removing
    <3>4. (jb.head = NULL <=> m = 0) /\ (m # 0 => EndOf(q, m) # NULL)
      BY <1>2, ListFacts
    <3>5. EndAt(t)' = EndAt(t)
      BY <1>2, <1>5, <1>6, <3>2, <3>3, <3>4
    <3>6. QED
      BY <1>7, <1>8, <3>2, <3>5
  <2>2. CASE FixLast(t)
    <3>1. jb' = [jb EXCEPT !.last[pkts[n].type] = IF @ = n THEN NULL ELSE @]
      BY <2>2 DEF FixLast, Write
    <3>2. /\ jb'.head = jb.head /\ jb'.next = jb.next /\ jb'.end = jb.end
          /\ jb'.last = [jb.last EXCEPT ![pkts[n].type] = IF @ = n THEN NULL ELSE @]
          /\ jb.last \in [Stream -> Pointer]
      BY <1>1, <3>1 DEF Object
    <3>3. \A s \in Stream : jb'.last[s] = IF s = pkts[n].type /\ jb.last[s] = n THEN NULL
                                          ELSE jb.last[s]
      BY <3>2
    <3>4. \A s \in Stream : (IF jb'.last[s] = NULL /\ pkts[n].type = s THEN n ELSE jb'.last[s])
                            = IF jb.last[s] = NULL /\ pkts[n].type = s THEN n ELSE jb.last[s]
      BY <1>2, <3>3
    <3>5. LastAt(t)' = LastAt(t)
      BY <1>7, <1>8, <3>4
    <3>6. QED
      BY <1>5, <1>6, <3>2, <3>5
  <2>3. CASE DeleteNode(t)
    <3>1. jb' = jb
      BY <2>3 DEF DeleteNode
    <3>2. QED
      BY <1>5, <1>6, <1>7, <1>8, <3>1
  <2>4. QED
    BY <2>1, <2>2, <2>3
<1>10. Linked(q, m)'
  BY <1>2, <1>9 DEF Linked
<1>11. \A i : NodeOf(i)' = NodeOf(i)
  BY <1>1 DEF NodeOf, PtsOf
<1>12. ListAt(t, q, m)' = ListAt(t, q, m)
  BY <1>1, <1>4, <1>11 DEF ListAt
<1>13. PcAt(t)' = PcAt(t)
  BY <1>2, <1>3 DEF PcAt, Pop
<1>14. UNCHANGED <<AbsList, AbsEnd, AbsLast, AbsPc>>
  BY <1>2, <1>9, <1>10, <1>12, <1>13, SameIf
<1>15. Progress(t)'
  <2>1. ((JP!Flush)' <=> JP!Flush) /\ ((JP!AllStreamsQueued)' <=> JP!AllStreamsQueued)
    BY <1>14, SameBuffer
  <2>2. added = Len(pkts) /\ JP!Flush /\ loc[t].reason = IF JP!AllStreamsQueued THEN "all" ELSE "forced"
    BY <1>2 DEF Progress, Searches, Pop
  <2>3. pc'[t] = "callback" => n \in freed'
    <3>1. pc'[t] = "callback" => DeleteNode(t)
      BY <1>1, <1>2 DEF FixEnd, FixLast, Write, Goto
    <3>2. QED
      BY <3>1 DEF DeleteNode
  <2>4. QED
    BY <1>1, <1>2, <1>3, <2>1, <2>2, <2>3 DEF Progress, Searches, Pop
<1>16. QED
  BY <1>1, <1>14, <1>15 DEF Same, AbsNewest, AbsMonotone, AddedOf, PtsOf

(* m_pc.cb(): for JitterBuffer the head is flushed. *)
LEMMA CallbackRefines ==
    ASSUME TypeOK, TypeOK', JP!IInv, NEW t \in Stream, Alone(t), Alone(t)', Progress(t),
           NEW m \in Nat, NEW q \in [1..m -> NodeId], AtRest(t, q, m),
           NEW ok \in BOOLEAN, Callback(t, ok)
    PROVE  JP!FlushHead(ok) /\ Progress(t)'
<1> DEFINE n == loc[t].pktl
           ty == pkts[n].type
<1>1. /\ UNCHANGED <<jb, pkts, freed, loc, added>>
      /\ pc[t] = "callback" /\ pc'[t] = (IF ok THEN "flush" ELSE "return")
      /\ out' = Append(out, [id |-> n, type |-> ty, pts |-> PtsOf(n), reason |-> loc[t].reason])
      /\ ret' = IF ok THEN ret ELSE "failed"
  BY DEF Callback, At, Goto, TypeOK
<1>2. /\ Linked(q, m) /\ jb.end = EndOf(q, m) /\ LastIn(Live)
  BY DEF AtRest, Whole
<1>3. /\ added = Len(pkts) /\ JP!Flush /\ n \in DOMAIN pkts /\ n \in freed
      /\ loc[t].reason = IF JP!AllStreamsQueued THEN "all" ELSE "forced"
  BY <1>1 DEF Progress, Searches, Pop
<1>4. pc[t] \in OutOfList /\ pc'[t] \notin OutOfList \cup {"link_last", "link_next", "link_prev"}
  BY <1>1 DEF OutOfList, Pop
<1>5. ty \in Stream /\ \A s \in Stream : jb.last[s] # n \/ jb.last[s] = NULL
  BY <1>2, <1>3, PacketTypes DEF LastIn, Live
<1>6. MapIs /\ MapIs'
  BY Mapped, PTL
<1>7. Linked(q, m)'
  BY <1>1, <1>2 DEF Linked
<1>8. AbsList = ListAt(t, q, m) /\ AbsEnd = EndAt(t) /\ AbsLast = LastAt(t) /\ AbsPc = PcAt(t)
  BY <1>2, <1>6 DEF MapIs
<1>9. AbsList' = ListAt(t, q, m)' /\ AbsEnd' = EndAt(t)' /\ AbsLast' = LastAt(t)' /\ AbsPc' = PcAt(t)'
  BY <1>6, <1>7 DEF MapIs
<1>10. AbsList = [i \in 1..(m + 1) |-> IF i = 1 THEN NodeOf(n) ELSE NodeOf(q[i - 1])]
  BY <1>4, <1>8 DEF ListAt
<1>11. AbsList' = [i \in 1..m |-> NodeOf(q[i])]
  <2>1. \A i : NodeOf(i)' = NodeOf(i)
    BY <1>1 DEF NodeOf, PtsOf
  <2>2. QED
    BY <1>4, <1>9, <2>1 DEF ListAt
<1>12. JP!TypeOK
  BY DEF JP!IInv
<1>13. /\ AbsList \in Seq(JP!Node) /\ Len(AbsList) = m + 1
       /\ AbsList[1] = NodeOf(n)
  <2>1. AbsList \in Seq(JP!Node)
    BY <1>12 DEF JP!TypeOK
  <2>2. DOMAIN AbsList = 1..(m + 1) /\ 1 \in 1..(m + 1)
    BY <1>10
  <2>3. Len(AbsList) = m + 1
    BY <2>1, <2>2
  <2>4. QED
    BY <1>10, <2>1, <2>2, <2>3
<1>14. AbsList' = Tail(AbsList)
  <2> DEFINE w == Tail(AbsList)
  <2>1. w \in Seq(JP!Node) /\ Len(w) = m /\ \A i \in 1..m : w[i] = AbsList[i + 1]
    <3> HIDE DEF JP!Node
    <3>1. QED
      BY <1>13
  <2> HIDE DEF w
  <2>2. \A i \in 1..m : w[i] = NodeOf(q[i])
    <3>1. \A i \in 1..m : i + 1 \in 1..(m + 1) /\ i + 1 # 1 /\ (i + 1) - 1 = i
      OBVIOUS
    <3>2. QED
      BY <1>10, <2>1, <3>1
  <2>3. w = [i \in 1..m |-> w[i]]
    BY <2>1
  <2>4. QED
    BY <1>11, <2>2, <2>3 DEF w
<1>15. AbsEnd' = IF Len(AbsList) = 1 THEN NULL ELSE AbsEnd
  <2>1. AbsEnd' = jb.end
    BY <1>1, <1>4, <1>9 DEF EndAt
  <2>2. AbsEnd = IF jb.end = NULL THEN n ELSE jb.end
    BY <1>1, <1>4, <1>8 DEF EndAt
  <2>3. jb.end = NULL <=> m = 0
    BY <1>2, ListFacts DEF EndOf
  <2>4. Len(AbsList) = 1 <=> m = 0
    BY <1>13
  <2>5. QED
    BY <2>1, <2>2, <2>3, <2>4
<1>16. AbsLast' = [AbsLast EXCEPT ![ty] = IF @ = n THEN NULL ELSE @]
  <2>1. AbsLast' = [s \in Stream |-> jb.last[s]]
    BY <1>1, <1>4, <1>9 DEF LastAt
  <2>2. AbsLast = [s \in Stream |-> IF jb.last[s] = NULL /\ ty = s THEN n ELSE jb.last[s]]
    BY <1>1, <1>4, <1>8 DEF LastAt
  <2>3. \A s \in Stream : jb.last[s] = IF s = ty THEN IF AbsLast[s] = n THEN NULL ELSE AbsLast[s]
                                       ELSE AbsLast[s]
    BY <1>5, <2>2
  <2>4. [AbsLast EXCEPT ![ty] = IF @ = n THEN NULL ELSE @]
        = [s \in Stream |-> IF s = ty THEN IF AbsLast[s] = n THEN NULL ELSE AbsLast[s]
                            ELSE AbsLast[s]]
    BY <1>5, <2>2
  <2>5. QED
    BY <2>1, <2>3, <2>4
<1>17. AbsPc = "loop" /\ AbsPc' = IF ok THEN "loop" ELSE "idle"
  BY <1>1, <1>8, <1>9 DEF PcAt, Pop
<1>18. AbsNewest' = AbsNewest /\ AbsMonotone' = AbsMonotone
  BY <1>1 DEF AbsNewest, AbsMonotone, AddedOf, PtsOf
<1>19. AbsList[1] = [id |-> n, type |-> ty, pts |-> PtsOf(n)]
  BY <1>13 DEF NodeOf
<1> HIDE DEF n, ty
<1>20. AbsLast' = JP!LastReset(AbsList[1])
  BY <1>16, <1>19 DEF JP!LastReset, JP!NULL, NULL
<1>21. JP!FlushHead(ok)
  BY <1>1, <1>3, <1>14, <1>15, <1>17, <1>18, <1>19, <1>20
     DEF JP!FlushHead, JP!HeadUnlinked, JP!NULL, NULL
<1>22. Progress(t)'
  BY <1>1, <1>3 DEF Progress, Searches, Pop
<1>23. QED
  BY <1>21, <1>22

(* The points outside add_packet, its beginning and its end. *)
LEMMA RestRefines ==
    ASSUME TypeOK, TypeOK', NEW t \in Stream, Progress(t),
           \A u \in Stream \ {t} : pc'[u] = pc[u] /\ loc'[u] = loc[u],
           (\E p \in Pts : Send(t, p)) \/ Lock(t) \/ Return(t)
    PROVE  Same /\ Progress(t)'
<1>1. /\ pc[t] \in {"idle", "lock", "return"} /\ pc'[t] \in {"idle", "lock", "insert"}
      /\ UNCHANGED <<jb, pkts, added, out, ret>>
  BY DEF Send, Lock, Return, At, Goto, TypeOK, hist
<1>2. Same
  BY <1>1, QuietStep DEF Quiet
<1>3. Progress(t)'
  BY <1>1 DEF Progress, Searches, Pop
<1>4. QED
  BY <1>2, <1>3

(* A step of a thread alone in add_packet is one of JitterBuffer, or none. *)
LEMMA StepRefines ==
    ASSUME TypeOK, TypeOK', JP!IInv, NEW t \in Stream, Alone(t), Alone(t)', Progress(t),
           Shaped(t), fault' = "none",
           \A u \in Stream \ {t} : pc'[u] = pc[u] /\ loc'[u] = loc[u],
           \/ \E p \in Pts : Send(t, p)
           \/ Lock(t) \/ InsertStep(t) \/ FlushStep(t) \/ Return(t)
    PROVE  (JP!Next \/ Same) /\ Progress(t)'
<1>1. PICK m \in Nat : \E q \in [1..m -> NodeId] : Shape(t, q, m)
  BY DEF Shaped
<1>2. PICK q \in [1..m -> NodeId] : Shape(t, q, m)
  BY <1>1
<1>3. CASE (\E p \in Pts : Send(t, p)) \/ Lock(t) \/ Return(t)
  BY <1>3, RestRefines
<1>4. CASE \E ok \in BOOLEAN : Callback(t, ok)
  <2>1. PICK ok \in BOOLEAN : Callback(t, ok)
    BY <1>4
  <2>2. AtRest(t, q, m)
    BY <1>2, <2>1 DEF Callback, At, Shape, Searching, AtLink, AtLast, Taking, Removing
  <2>3. JP!FlushHead(ok) /\ Progress(t)'
    BY <2>1, <2>2, CallbackRefines
  <2>4. QED
    BY <2>3 DEF JP!Next
<1>5. CASE NewNode(t)
  <2>1. AtRest(t, q, m)
    BY <1>2, <1>5 DEF NewNode, At, Shape, Searching, AtLink, AtLast, Taking, Removing
  <2>2. QED
    BY <1>5, <2>1, NewNodeRefines
<1>6. CASE Peek(t) \/ CompareEnd(t) \/ Walk(t) \/ AssertLast(t)
  <2>1. pc[t] \in {"peek", "compare", "walk", "assert"}
    BY <1>6 DEF Peek, CompareEnd, Walk, AssertLast, At
  <2>2. Searching(t, q, m)
    BY <1>2, <2>1 DEF Shape, AtRest, AtLink, AtLast, Taking, Removing
  <2>3. QED
    BY <1>6, <2>2, SearchRefines
<1>7. CASE SetEnd(t) \/ LinkNext(t)
  <2>1. pc[t] \in {"set_end", "link_next"}
    BY <1>7 DEF SetEnd, LinkNext, Write, At
  <2>2. Searching(t, q, m) \/ AtLink(t, q, m)
    BY <1>2, <2>1 DEF Shape, AtRest, AtLast, Taking, Removing
  <2>3. QED
    BY <1>7, <2>2, LinkNextRefines
<1>8. CASE LinkPrev(t)
  <2>1. pc[t] = "link_prev"
    BY <1>8 DEF LinkPrev, Write, At
  <2>2. AtLink(t, q, m)
    BY <1>2, <2>1 DEF Shape, AtRest, Searching, AtLast, Taking, Removing
  <2>3. JP!AddPacket(t, loc[t].ts) /\ Progress(t)'
    BY <1>8, <2>2, LinkPrevRefines
  <2>4. loc[t].ts \in Pts
    BY DEF TypeOK, Locals
  <2>5. QED
    BY <2>3, <2>4 DEF JP!Next
<1>9. CASE LinkLast(t)
  <2>1. AtLast(t, q, m)
    BY <1>2, <1>9 DEF LinkLast, Write, At, Shape, AtRest, Searching, AtLink, Taking, Removing
  <2>2. QED
    BY <1>9, <2>1, LinkLastRefines
<1>10. CASE DecideFlush(t)
  <2>1. AtRest(t, q, m)
    BY <1>2, <1>10 DEF DecideFlush, At, Shape, Searching, AtLink, AtLast, Taking, Removing
  <2>2. (Same \/ JP!Return) /\ Progress(t)'
    BY <1>10, <2>1, DecideRefines
  <2>3. QED
    BY <2>2 DEF JP!Next
<1>11. CASE ReadHead(t)
  <2>1. Taking(t, q, m)
    BY <1>2, <1>11 DEF ReadHead, At, Shape, AtRest, Searching, AtLink, AtLast, Removing
  <2>2. QED
    BY <1>11, <2>1, ReadHeadRefines
<1>12. CASE Unlink(t)
  <2>1. Taking(t, q, m)
    BY <1>2, <1>12 DEF Unlink, Write, At, Shape, AtRest, Searching, AtLink, AtLast, Removing
  <2>2. QED
    BY <1>12, <2>1, UnlinkRefines
<1>13. CASE FixEnd(t) \/ FixLast(t) \/ DeleteNode(t)
  <2>1. pc[t] \in {"fix_end", "fix_last", "delete"}
    BY <1>13 DEF FixEnd, FixLast, DeleteNode, Write, At
  <2>2. Removing(t, q, m)
    BY <1>2, <2>1 DEF Shape, AtRest, Searching, AtLink, AtLast, Taking
  <2>3. QED
    BY <1>13, <2>2, RemoveRefines
<1>14. QED
  BY <1>3, <1>4, <1>5, <1>6, <1>7, <1>8, <1>9, <1>10, <1>11, <1>12, <1>13
     DEF InsertStep, FlushStep

(* A thread that does not move stays where it is in its step. *)
LEMMA ProgressStays ==
    ASSUME NEW u \in Stream, Progress(u), pc'[u] = pc[u], loc'[u] = loc[u],
           UNCHANGED <<jb, pkts, freed>>, Same
    PROVE  Progress(u)'
<1>1. UNCHANGED <<AbsList, AbsEnd, AbsLast, added>>
  BY DEF Same
<1>2. /\ \A n : Before(n)' = Before(n) /\ (JP!PtsOf(n))' = JP!PtsOf(n)
      /\ \A s : (JP!SearchFrom(s))' = JP!SearchFrom(s)
      /\ \A s, p : (JP!InsertPoint(s, p))' = JP!InsertPoint(s, p)
      /\ (JP!Flush)' <=> JP!Flush
      /\ (JP!AllStreamsQueued)' <=> JP!AllStreamsQueued
  BY <1>1, SameBuffer
<1>3. PassedBy(u)' <=> PassedBy(u)
  BY <1>1, <1>2 DEF PassedBy, JP!ComparePts
<1>4. FoundBy(u)' <=> FoundBy(u)
  BY <1>2 DEF FoundBy
<1>5. PtsOf(loc[u].this)' = PtsOf(loc[u].this)
  BY DEF PtsOf
<1>6. QED
  BY <1>1, <1>2, <1>3, <1>4, <1>5 DEF Progress

(* As long as no two calls overlap, every step of the threads is one of    *)
(* JitterBuffer, or none.                                                  *)
LEMMA ApartRefines ==
    ASSUME TypeOK, TypeOK', NoOverlapInv, NoOverlapInv', RefInv, Next
    PROVE  (JP!Next \/ Same) /\ \A u \in Stream : Alone(u)' => Progress(u)'
<1>1. PICK t \in Stream :
         \/ \E p \in Pts : Send(t, p)
         \/ Lock(t) \/ InsertStep(t) \/ FlushStep(t) \/ Return(t)
         \/ Crash(t)
  BY DEF Next
<1>2. /\ fault = "none" /\ ~Overlapping /\ fault' = "none" /\ ~Overlapping'
      /\ \A u \in Stream : Alone(u) => Shaped(u)
      /\ JP!IInv /\ \A u \in Stream : Alone(u) => Progress(u)
  BY DEF NoOverlapInv, RefInv
<1>3. \A u \in Stream : Inside(u) => Alone(u)
  BY <1>2 DEF Overlapping, Alone
<1>4. ~Crash(t)
  BY <1>2 DEF Crash
<1>5. \/ \E p \in Pts : Send(t, p)
      \/ Lock(t) \/ InsertStep(t) \/ FlushStep(t) \/ Return(t)
  BY <1>1, <1>4
<1>6. \A u \in Stream \ {t} : pc'[u] = pc[u] /\ loc'[u] = loc[u] /\ (Inside(u)' <=> Inside(u))
  <2>1. \A u \in Stream \ {t} : pc'[u] = pc[u] /\ loc'[u] = loc[u]
    BY <1>5, OthersStay
  <2>2. QED
    BY <2>1 DEF Inside
<1>7. CASE Alone(t)
  <2>1. Alone(t)'
    BY <1>6, <1>7 DEF Alone
  <2>2. (JP!Next \/ Same) /\ Progress(t)'
    BY <1>2, <1>5, <1>6, <1>7, <2>1, StepRefines
  <2>3. ASSUME NEW u \in Stream, Alone(u)', u # t
        PROVE  Progress(u)'
    <3>1. pc'[t] \in {"idle", "lock"}
      BY <2>3 DEF Alone, Inside
    <3>2. pc'[u] \in {"idle", "lock"}
      BY <1>6, <1>7, <2>3 DEF Alone, Inside
    <3>3. added' = Len(pkts')
      BY <2>2, <3>1 DEF Progress, Searches
    <3>4. QED
      BY <3>2, <3>3 DEF Progress, Searches, Pop
  <2>4. QED
    BY <2>2, <2>3
<1>8. CASE ~Alone(t)
  <2>1. PICK v \in Stream \ {t} : Inside(v)
    BY <1>8 DEF Alone
  <2>2. ~Inside(t) /\ ~Inside(t)'
    BY <1>2, <1>6, <2>1 DEF Overlapping
  <2>3. UNCHANGED <<jb, pkts, freed, fault>>
    BY <1>5, <2>2, OutsideStep
  <2>4. UNCHANGED <<added, out, ret>>
    <3>1. pc[t] \in {"idle", "lock"}
      BY <2>2 DEF Inside
    <3>2. ~(InsertStep(t) \/ Return(t))
      BY <3>1 DEF InsertStep, NewNode, Peek, CompareEnd, Walk, AssertLast, SetEnd, LinkNext,
         LinkPrev, LinkLast, Write, Return, At
    <3>3. ~FlushStep(t)
      BY <3>1 DEF FlushStep, DecideFlush, ReadHead, Unlink, FixEnd, FixLast, Write, DeleteNode,
         Callback, At
    <3>4. QED
      BY <1>5, <3>2, <3>3 DEF Send, Lock, hist
  <2>5. Same
    <3>1. pc[t] \in Quiet /\ pc'[t] \in Quiet
      BY <2>2 DEF Inside, Quiet
    <3>2. QED
      BY <1>6, <2>3, <2>4, <3>1, QuietStep
  <2>6. ASSUME NEW u \in Stream, Alone(u)'
        PROVE  Progress(u)'
    <3>1. u = v
      BY <1>6, <2>1, <2>6 DEF Alone
    <3>2. Progress(u)
      BY <1>2, <1>3, <2>1, <3>1
    <3>3. pc'[u] = pc[u] /\ loc'[u] = loc[u]
      BY <1>6, <2>1, <3>1
    <3>4. QED
      BY <2>3, <2>5, <3>2, <3>3, ProgressStays
  <2>7. QED
    BY <2>5, <2>6
<1>9. QED
  BY <1>7, <1>8

(* A step of the system that leaves its variables alone. *)
LEMMA IdleRefines ==
    ASSUME UNCHANGED <<jb, pkts, freed, pc, loc, added, out, ret>>, RefInv
    PROVE  Same /\ \A u \in Stream : Alone(u)' => Progress(u)'
<1>2. UNCHANGED <<AbsList, AbsEnd, AbsLast, AbsPc, AbsNewest, AbsMonotone>>
  <2>1. Chain' = Chain
    BY DEF Chain
  <2>2. Popped' = Popped /\ Early' = Early /\ Taken' = Taken
    BY DEF Popped, Early, Taken
  <2>3. \A n : NodeOf(n)' = NodeOf(n)
    BY DEF NodeOf, PtsOf
  <2>4. AbsList' = AbsList
    BY <2>1, <2>2, <2>3 DEF AbsList
  <2>5. AbsEnd' = AbsEnd /\ AbsLast' = AbsLast /\ AbsPc' = AbsPc
    BY <2>2 DEF AbsEnd, AbsLast, AbsPc
  <2>6. QED
    BY <2>4, <2>5 DEF AbsNewest, AbsMonotone, AddedOf, PtsOf
<1>3. Same
  BY <1>2 DEF Same
<1>4. ASSUME NEW u \in Stream, Alone(u)' PROVE Progress(u)'
  <2>1. Alone(u)
    BY <1>4 DEF Alone, Inside
  <2>2. Progress(u)
    BY <2>1 DEF RefInv
  <2>3. QED
    BY <1>3, <2>2, ProgressStays
<1>5. QED
  BY <1>3, <1>4

(* At first both buffers are empty. *)
LEMMA InitRefines == Init => JP!Init /\ RefInv
<1> SUFFICES ASSUME Init PROVE JP!Init /\ RefInv
  OBVIOUS
<1>1. /\ jb.head = NULL /\ jb.end = NULL /\ \A s \in Stream : jb.last[s] = NULL
      /\ pkts = <<>> /\ added = 0 /\ out = <<>> /\ ret = "drained"
      /\ \A t \in Stream : pc[t] = "idle"
  BY DEF Init
<1>2. PICK t \in Stream : TRUE
  BY SharedAssumption
<1>3. TypeOK
  BY SharedInit
<1>4. Alone(t)
  BY <1>1 DEF Alone, Inside
<1>5. \A i \in 1..0 : FALSE
  OBVIOUS
<1>6. PICK q \in [1..0 -> NodeId] : TRUE
  <2>1. [i \in 1..0 |-> 1] \in [1..0 -> NodeId]
    BY <1>5
  <2>2. QED
    BY <2>1
<1>7. Linked(q, 0)
  BY <1>1, <1>5, <1>6 DEF Linked
<1>8. pc[t] = "idle" /\ pc[t] \notin OutOfList
  BY <1>1 DEF OutOfList, Pop
<1>9. AbsList = ListAt(t, q, 0) /\ AbsEnd = EndAt(t) /\ AbsLast = LastAt(t) /\ AbsPc = PcAt(t)
  BY <1>3, <1>4, <1>7, Mapped DEF MapIs
<1>10. AbsList = <<>>
  <2>1. AbsList = [i \in 1..0 |-> NodeOf(q[i])]
    BY <1>8, <1>9 DEF ListAt
  <2>2. QED
    BY <2>1
<1>11. AbsEnd = 0 /\ AbsLast = [s \in Stream |-> 0] /\ AbsPc = "idle"
  BY <1>1, <1>8, <1>9 DEF EndAt, LastAt, PcAt, Pop, NULL
<1>12. AbsNewest = [s \in Stream |-> 0] /\ AbsMonotone
  <2>1. \A s \in Stream : AddedOf(s) = {}
    BY <1>1, <1>5 DEF AddedOf
  <2>2. QED
    BY <2>1 DEF AbsNewest, AbsMonotone
<1>13. JP!Init
  BY <1>1, <1>10, <1>11, <1>12 DEF JP!Init, JP!NULL
<1>14. JP!IInv
  BY <1>13, JP!InitInv, BufferAssumptions
<1>15. \A u \in Stream : Progress(u)
  BY <1>1 DEF Progress, Searches, Pop
<1>16. QED
  BY <1>13, <1>14, <1>15 DEF RefInv

(* The inductive invariant of the refinement. *)
RInv == SInv /\ (~overlap => RefInv)

LEMMA RefinementStep ==
    ASSUME RInv, SInv', [Next]_vars, ~overlap'
    PROVE  RefInv' /\ (JP!Next \/ Same)
<1>1. TypeOK /\ TypeOK' /\ NoOverlapInv'
  BY DEF RInv, SInv
<1>2. ~overlap
  BY DEF Next, vars
<1>3. NoOverlapInv /\ RefInv
  BY <1>2 DEF RInv, SInv
<1>4. (JP!Next \/ Same) /\ \A u \in Stream : Alone(u)' => Progress(u)'
  <2>1. CASE Next
    BY <1>1, <1>3, <2>1, ApartRefines
  <2>2. CASE UNCHANGED vars
    <3>1. UNCHANGED <<jb, pkts, freed, pc, loc, added, out, ret>>
      BY <2>2 DEF vars
    <3>2. QED
      BY <1>3, <3>1, IdleRefines
  <2>3. QED
    BY <2>1, <2>2
<1>5. JP!IInv /\ [JP!Next]_(JP!vars)
  BY <1>3, <1>4 DEF RefInv, Same, JP!vars
<1>6. (JP!IInv)'
  BY <1>5, JP!NextInv, BufferAssumptions
<1>7. QED
  BY <1>4, <1>6 DEF RefInv

LEMMA RefinementInvariance == Spec => []RInv
<1>1. Init /\ SInv => RInv
  BY InitRefines DEF RInv
<1>2. RInv /\ SInv' /\ [Next]_vars => RInv'
  BY RefinementStep DEF RInv
<1>3. QED
  BY <1>1, <1>2, SharedInvariance, PTL DEF Spec

(* The buffer of the refinement mapping is the one of its proofs. *)
LEMMA SameInit == JP!Init => J!Init
  BY DEF J!Init, JP!Init, J!NULL, JP!NULL

LEMMA SameNext == JP!Next => J!Next
<1>1. ASSUME NEW s, NEW p, JP!AddPacket(s, p)
      PROVE  J!AddPacket(s, p)
  BY <1>1, Zenon DEF J!AddPacket, JP!AddPacket, J!InsertPoint, JP!InsertPoint,
     J!SearchFrom, JP!SearchFrom, J!Index, JP!Index, J!PtsOf, JP!PtsOf, J!Later,
     JP!Later, J!ComparePts, JP!ComparePts, J!NewNode, JP!NewNode, J!NULL, JP!NULL,
     J!InsertAt, JP!InsertAt
<1>2. ASSUME NEW ok, JP!FlushHead(ok)
      PROVE  J!FlushHead(ok)
  BY <1>2 DEF J!FlushHead, JP!FlushHead, J!Flush, JP!Flush, J!AllStreamsQueued,
     JP!AllStreamsQueued, J!SpanTooLong, JP!SpanTooLong, J!Sub64, JP!Sub64,
     J!PtsOf, JP!PtsOf, J!Index, JP!Index, J!NULL, JP!NULL, J!HeadUnlinked,
     JP!HeadUnlinked, J!LastReset, JP!LastReset
<1>3. ASSUME JP!Return
      PROVE  J!Return
  BY <1>3 DEF J!Return, JP!Return, J!Flush, JP!Flush, J!AllStreamsQueued,
     JP!AllStreamsQueued, J!SpanTooLong, JP!SpanTooLong, J!Sub64, JP!Sub64,
     J!PtsOf, JP!PtsOf, J!Index, JP!Index, J!NULL, JP!NULL, J!list, JP!list
<1>4. QED
  BY <1>1, <1>2, <1>3, Zenon DEF J!Next, JP!Next

(* As long as no two calls of add_packet overlap, the pointer operations   *)
(* of the encoder threads carry out those of JitterBuffer.                 *)
THEOREM SharedImplements == Spec => ImplementsJitterBuffer
<1>1. Init => J!Init
  BY InitRefines, SameInit
<1>2. RInv /\ SInv' /\ [Next]_vars => (~overlap' => J!Next \/ UNCHANGED J!vars)
  <2> SUFFICES ASSUME RInv, SInv', [Next]_vars, ~overlap'
               PROVE  J!Next \/ UNCHANGED J!vars
    OBVIOUS
  <2>1. JP!Next \/ Same
    BY RefinementStep
  <2>2. Same => UNCHANGED J!vars
    BY DEF Same, J!vars
  <2>3. QED
    BY <2>1, <2>2, SameNext
<1>3. QED
  BY <1>1, <1>2, RefinementInvariance, SharedInvariance, PTL DEF Spec, ImplementsJitterBuffer
=============================================================================
