-------------------------- MODULE SharedJitterBuffer --------------------------
(***************************************************************************)
(* The linked list of jni/jitter_buffer.cpp as the two encoder threads     *)
(* use it through RtmpHandler::send_video and send_audio                   *)
(* (jni/rtmp_handler.cpp).  Every access to a shared pointer is a step of  *)
(* its own.  The data packets are added under m_mutex; the configuration   *)
(* packet (avc_dcr or asc) that precedes a stream's first data packet is   *)
(* added before the lock is taken.                                         *)
(*                                                                         *)
(* A node is named by the order of its allocation and never reused; 0 is   *)
(* NULL.  A next_point is the node whose next field it designates, or 0    *)
(* for &m_packet_buffer.  The thread of stream s is called s.              *)
(***************************************************************************)
EXTENDS Integers, Sequences, SequencesExt

CONSTANTS
    Stream,       \* the packet types, and the threads that send them
    Pts,          \* the timestamps a packet may carry
    MaxDelta,     \* m_max_interleave_delta
    Wrap,         \* the modulus of uint64_t arithmetic
    MaxPackets,   \* bound on the nodes allocated
    CfgPending,   \* the streams whose next send begins with a config packet
    NoThread      \* nobody holds m_mutex

ASSUME SharedAssumption ==
    /\ Stream # {} /\ NoThread \notin Stream
    /\ Pts \subseteq Nat /\ 0 \in Pts
    /\ {MaxDelta, Wrap, MaxPackets} \subseteq Nat
    /\ \A p \in Pts : p + MaxDelta < Wrap

VARIABLES
    jb,        \* the JitterBuffer object: head, end, last and the next fields
    pkts,      \* type and timestamp of every node allocated so far
    freed,     \* the nodes already deleted
    holder,    \* the thread that holds m_mutex
    need_cfg,  \* the streams whose need_cfg flag is set
    pc, loc,   \* each thread's control point and local variables
    fault,     \* "none", or what brought the process down
    (* History, read by no action of the code: *)
    added, out, ret,
    overlap    \* two threads have been inside add_packet at the same time

thread == <<pc, loc>>
hist == <<added, out, ret>>
vars == <<jb, pkts, freed, holder, need_cfg, pc, loc, fault, added, out, ret,
          overlap>>

NULL == 0
NodeId == 1..MaxPackets
Pointer == 0..MaxPackets

(* The points of add_packet at which a thread can be. *)
Insert == {"insert", "peek", "compare", "walk", "assert", "set_end",
           "link_next", "link_prev", "link_last"}
Pop == {"read_head", "unlink", "fix_end", "fix_last", "delete", "callback"}
-----------------------------------------------------------------------------
Sub64(a, b) == IF a >= b THEN a - b ELSE Wrap + a - b
PtsOf(n) == pkts[n].pts

\* The value of *next_point.
Deref(np) == IF np = NULL THEN jb.head ELSE jb.next[np]

(* What interleave_packet_per_pts tests before it flushes. *)
AllStreamsQueued == \A s \in Stream : jb.last[s] # NULL
SpanTooLong ==
    /\ MaxDelta > 0
    /\ jb.head # NULL
    /\ \E s \in Stream :
          jb.last[s] # NULL /\ Sub64(PtsOf(jb.last[s]), PtsOf(jb.head)) > MaxDelta
Flush == /\ \E s \in Stream : jb.last[s] # NULL
         /\ AllStreamsQueued \/ SpanTooLong

(* The nodes whose memory the next step of thread t reads or writes. *)
Touched(t) ==
    LET np == loc[t].np
        owner == {np} \ {NULL}
    IN  CASE pc[t] \in {"peek", "assert", "link_next", "link_prev"} -> owner
          [] pc[t] = "compare" -> {jb.end}
          [] pc[t] = "walk" -> owner \cup ({Deref(np)} \ {NULL})
          [] pc[t] = "flush" /\ ~AllStreamsQueued /\ jb.head # NULL ->
                {jb.head} \cup (Range(jb.last) \ {NULL})
          [] pc[t] = "read_head" -> {jb.head}
          [] pc[t] \in {"unlink", "delete"} -> {loc[t].pktl}
          [] OTHER -> {}

Safe(t) == NULL \notin Touched(t) /\ Touched(t) \cap freed = {}

(* Thread t is at a point and may take its step; and where it goes next. *)
At(t, point) == fault = "none" /\ pc[t] = point /\ Safe(t)
Goto(t, point) == pc' = [pc EXCEPT ![t] = point]
-----------------------------------------------------------------------------
Init ==
    /\ jb = [head |-> NULL, end |-> NULL, last |-> [s \in Stream |-> NULL],
             next |-> [n \in NodeId |-> NULL]]
    /\ pkts = <<>>
    /\ freed = {}
    /\ holder = NoThread
    /\ need_cfg = CfgPending
    /\ pc = [t \in Stream |-> "idle"]
    /\ loc \in [Stream -> {[ts |-> 0, cfg |-> FALSE, this |-> NULL, np |-> NULL,
                            pktl |-> NULL, reason |-> "all"]}]
    /\ fault = "none"
    /\ added = 0 /\ out = <<>> /\ ret = "drained"
    /\ overlap = FALSE

(* send_video or send_audio begins; a pending config packet goes to        *)
(* add_packet at once, without the lock.                                   *)
Send(t, p) ==
    /\ At(t, "idle")
    /\ Len(pkts) < MaxPackets
    /\ loc' = [loc EXCEPT ![t].ts = p, ![t].cfg = t \in need_cfg]
    /\ need_cfg' = need_cfg \ {t}
    /\ Goto(t, IF t \in need_cfg THEN "insert" ELSE "lock")
    /\ UNCHANGED <<jb, pkts, freed, holder, fault, hist>>

\* Mutant: the lock is not waited for.
LockAtOnce(t) ==
    /\ At(t, "lock")
    /\ holder' = t
    /\ loc' = [loc EXCEPT ![t].cfg = FALSE]
    /\ Goto(t, "insert")
    /\ UNCHANGED <<jb, pkts, freed, need_cfg, fault, hist>>

(* AutoLock _l(m_mutex), then add_packet with the data packet. *)
Lock(t) ==
    /\ At(t, "lock")
    /\ holder = NoThread
    /\ holder' = t
    /\ loc' = [loc EXCEPT ![t].cfg = FALSE]
    /\ Goto(t, "insert")
    /\ UNCHANGED <<jb, pkts, freed, need_cfg, fault, hist>>

(* interleave_add_packet: allocate the node and read locate_last(). *)
NewNode(t) ==
    /\ At(t, "insert")
    /\ Len(pkts) < MaxPackets
    /\ pkts' = Append(pkts, [type |-> t, pts |-> loc[t].ts])
    /\ loc' = [loc EXCEPT ![t].this = Len(pkts) + 1, ![t].np = jb.last[t]]
    /\ Goto(t, "peek")
    /\ UNCHANGED <<jb, freed, holder, need_cfg, fault, hist>>

(* The search for the place to link at: whether *next_point is NULL, the   *)
(* comparison with m_packet_buffer_end, and the turns of the while loop.   *)
Peek(t) ==
    /\ At(t, "peek")
    /\ Goto(t, IF Deref(loc[t].np) = NULL THEN "assert" ELSE "compare")
    /\ UNCHANGED <<jb, pkts, freed, holder, need_cfg, loc, fault, hist>>

CompareEnd(t) ==
    /\ At(t, "compare")
    /\ \/ PtsOf(jb.end) > loc[t].ts /\ Goto(t, "walk") /\ UNCHANGED loc
       \/ /\ PtsOf(jb.end) <= loc[t].ts
          /\ Goto(t, "assert")
          /\ loc' = [loc EXCEPT ![t].np = jb.end]
    /\ UNCHANGED <<jb, pkts, freed, holder, need_cfg, fault, hist>>

Walk(t) ==
    /\ At(t, "walk")
    /\ LET n == Deref(loc[t].np)
       IN  \/ n = NULL /\ Goto(t, "assert") /\ UNCHANGED loc
           \/ /\ n # NULL /\ PtsOf(n) > loc[t].ts
              /\ Goto(t, "link_next") /\ UNCHANGED loc
           \/ /\ n # NULL /\ PtsOf(n) <= loc[t].ts
              /\ loc' = [loc EXCEPT ![t].np = n] /\ UNCHANGED pc
    /\ UNCHANGED <<jb, pkts, freed, holder, need_cfg, fault, hist>>

(* The assertion that *next_point is NULL. *)
AssertLast(t) ==
    /\ At(t, "assert")
    /\ \/ Deref(loc[t].np) = NULL /\ Goto(t, "set_end") /\ UNCHANGED fault
       \/ Deref(loc[t].np) # NULL /\ fault' = "assertion" /\ UNCHANGED pc
    /\ UNCHANGED <<jb, pkts, freed, holder, need_cfg, loc, hist>>

(* A step that writes one pointer of the list and goes on. *)
Write(t, from, to, new) ==
    /\ At(t, from)
    /\ jb' = new
    /\ Goto(t, to)
    /\ UNCHANGED <<pkts, freed, holder, need_cfg, loc, fault, out, ret>>

(* m_packet_buffer_end = this_pktl; this_pktl->next = *next_point;         *)
(* *next_point = this_pktl; and locate_last() = this_pktl.                 *)
SetEnd(t) == /\ Write(t, "set_end", "link_next", [jb EXCEPT !.end = loc[t].this])
             /\ UNCHANGED added

\* Mutant: the rest of the list is not linked behind the new node.
LinkNextNull(t) ==
    /\ Write(t, "link_next", "link_prev", [jb EXCEPT !.next[loc[t].this] = NULL])
    /\ UNCHANGED added

LinkNext(t) ==
    /\ Write(t, "link_next", "link_prev",
             [jb EXCEPT !.next[loc[t].this] = Deref(loc[t].np)])
    /\ UNCHANGED added
LinkPrev(t) ==
    /\ Write(t, "link_prev", "link_last",
             IF loc[t].np = NULL THEN [jb EXCEPT !.head = loc[t].this]
             ELSE [jb EXCEPT !.next[loc[t].np] = loc[t].this])
    /\ added' = added + 1
LinkLast(t) == /\ Write(t, "link_last", "flush", [jb EXCEPT !.last[t] = loc[t].this])
               /\ UNCHANGED added

(* interleave_packet_per_pts decides whether to flush. *)
DecideFlush(t) ==
    /\ At(t, "flush")
    /\ \/ /\ Flush
          /\ Goto(t, "read_head")
          /\ loc' = [loc EXCEPT ![t].reason = IF AllStreamsQueued THEN "all" ELSE "forced"]
          /\ UNCHANGED ret
       \/ ~Flush /\ Goto(t, "return") /\ ret' = "drained" /\ UNCHANGED loc
    /\ UNCHANGED <<jb, pkts, freed, holder, need_cfg, fault, added, out>>

(* pktl = m_packet_buffer; out->clone(&pktl->pkt, true) *)
ReadHead(t) ==
    /\ At(t, "read_head")
    /\ loc' = [loc EXCEPT ![t].pktl = jb.head]
    /\ Goto(t, "unlink")
    /\ UNCHANGED <<jb, pkts, freed, holder, need_cfg, fault, hist>>

(* m_packet_buffer = pktl->next; m_packet_buffer_end = NULL when that is   *)
(* NULL; locate_last() = NULL when it was pktl.                            *)
Unlink(t) ==
    /\ Write(t, "unlink", "fix_end", [jb EXCEPT !.head = jb.next[loc[t].pktl]])
    /\ UNCHANGED added
FixEnd(t) ==
    /\ Write(t, "fix_end", "fix_last",
             [jb EXCEPT !.end = IF jb.head = NULL THEN NULL ELSE @])
    /\ UNCHANGED added

\* Mutant: the pointer to the stream's last node is left dangling.
FixLastSkipped(t) == Write(t, "fix_last", "delete", jb) /\ UNCHANGED added

FixLast(t) ==
    /\ Write(t, "fix_last", "delete",
             [jb EXCEPT !.last[pkts[loc[t].pktl].type] =
                 IF @ = loc[t].pktl THEN NULL ELSE @])
    /\ UNCHANGED added

(* SAFE_DELETE(pktl) *)
DeleteNode(t) ==
    /\ At(t, "delete")
    /\ freed' = freed \cup {loc[t].pktl}
    /\ Goto(t, "callback")
    /\ UNCHANGED <<jb, pkts, holder, need_cfg, loc, fault, hist>>

(* m_pc.cb(): a failure leaves the loop of add_packet. *)
Callback(t, ok) ==
    /\ At(t, "callback")
    /\ LET n == loc[t].pktl
       IN  out' = Append(out, [id |-> n, type |-> pkts[n].type, pts |-> PtsOf(n),
                               reason |-> loc[t].reason])
    /\ Goto(t, IF ok THEN "flush" ELSE "return")
    /\ ret' = IF ok THEN ret ELSE "failed"
    /\ UNCHANGED <<jb, pkts, freed, holder, need_cfg, loc, fault, added>>

(* add_packet returns: a config packet is followed by the locked data      *)
(* packet, a data packet ends the send and gives the lock back.            *)
Return(t) ==
    /\ At(t, "return")
    /\ Goto(t, IF loc[t].cfg THEN "lock" ELSE "idle")
    /\ holder' = IF loc[t].cfg THEN holder ELSE NoThread
    /\ UNCHANGED <<jb, pkts, freed, need_cfg, loc, fault, hist>>

(* The next step of thread t would follow NULL or touch a deleted node. *)
Crash(t) ==
    /\ fault = "none"
    /\ ~Safe(t)
    /\ fault' = IF NULL \in Touched(t) THEN "null_dereference" ELSE "use_after_free"
    /\ UNCHANGED <<jb, pkts, freed, holder, need_cfg, thread, hist>>

InsertStep(t) ==
    \/ NewNode(t) \/ Peek(t) \/ CompareEnd(t) \/ Walk(t) \/ AssertLast(t)
    \/ SetEnd(t) \/ LinkNext(t) \/ LinkPrev(t) \/ LinkLast(t)
FlushStep(t) ==
    \/ DecideFlush(t) \/ ReadHead(t) \/ Unlink(t) \/ FixEnd(t) \/ FixLast(t)
    \/ DeleteNode(t) \/ \E ok \in BOOLEAN : Callback(t, ok)

Inside(t) == pc[t] \notin {"idle", "lock"}
Overlapping == \E t, u \in Stream : t # u /\ Inside(t) /\ Inside(u)

Next ==
    /\ \E t \in Stream :
          \/ \E p \in Pts : Send(t, p)
          \/ Lock(t) \/ InsertStep(t) \/ FlushStep(t) \/ Return(t)
          \/ Crash(t)
    /\ overlap' = (overlap \/ Overlapping')

Spec == Init /\ [][Next]_vars
-----------------------------------------------------------------------------
(* The unlocked configuration packets do harm only when they meet another  *)
(* call: as long as no two calls of add_packet overlap, no thread follows  *)
(* a NULL or deleted node and the assertion holds.                         *)
FaultNeedsOverlap == fault # "none" => overlap

(* m_mutex keeps the data packets apart: of two calls inside add_packet    *)
(* one adds a configuration packet.                                        *)
OverlapNeedsConfig ==
    \A t, u \in Stream : t # u /\ Inside(t) /\ Inside(u) => loc[t].cfg \/ loc[u].cfg

(* The assertion at the end of interleave_add_packet (jitter_buffer.cpp:   *)
(* 185): the place found for a new last node is the end of the list.       *)
AssertionHolds == fault # "assertion"

(* The nodes that the list reaches, in its order. *)
Chain == LET Place[k \in NodeId] ==
                 IF k = 1 THEN jb.head
                 ELSE IF Place[k - 1] = NULL THEN NULL ELSE jb.next[Place[k - 1]]
         IN  [k \in {i \in NodeId : Place[i] # NULL} |-> Place[k]]
-----------------------------------------------------------------------------
(* The buffer as JitterBuffer sees it.  A node is added when the list      *)
(* reaches it, and taken when its callback has been called: between these  *)
(* two points and the writes of the other pointers the mapping makes up    *)
(* for those writes, or undoes them.                                       *)
Popped == {t \in Stream : pc[t] \in Pop \ {"read_head", "unlink"}}
Taken == loc[CHOOSE t \in Popped : TRUE].pktl

NodeOf(n) == [id |-> n, type |-> pkts[n].type, pts |-> PtsOf(n)]
AbsList == (IF Popped = {} THEN <<>> ELSE <<NodeOf(Taken)>>)
           \o [i \in DOMAIN Chain |-> NodeOf(Chain[i])]

(* The threads whose node is the end of a list that does not reach it yet. *)
Early == {t \in Stream : pc[t] \in {"link_next", "link_prev"} /\ jb.end = loc[t].this}
AbsEnd == IF Early # {} THEN loc[CHOOSE t \in Early : TRUE].np
          ELSE IF Popped # {} /\ jb.end = NULL THEN Taken ELSE jb.end

AbsLast == [s \in Stream |->
               IF pc[s] = "link_last" THEN loc[s].this
               ELSE IF Popped # {} /\ jb.last[s] = NULL /\ pkts[Taken].type = s THEN Taken
               ELSE jb.last[s]]

AbsPc == IF \E t \in Stream : pc[t] \in Pop \cup {"link_last", "flush"}
         THEN "loop" ELSE "idle"

AddedOf(s) == {i \in 1..added : pkts[i].type = s}
AbsNewest == [s \in Stream |-> IF AddedOf(s) = {} THEN 0 ELSE PtsOf(Max(AddedOf(s)))]
AbsMonotone == \A s \in Stream : \A i, j \in AddedOf(s) : i < j => PtsOf(i) <= PtsOf(j)

J == INSTANCE JitterBuffer WITH
        packet_buffer <- AbsList, buffer_end <- AbsEnd, last_pktl <- AbsLast,
        pc <- AbsPc, newest <- AbsNewest, monotone <- AbsMonotone

(* As long as no two calls overlap, the pointer operations of both threads *)
(* implement the sequential buffer.                                        *)
ImplementsJitterBuffer ==
    J!Init /\ [][~overlap' => J!Next \/ UNCHANGED J!vars]_vars
=============================================================================
