-------------------------- MODULE VideoEncoder_proofs --------------------------
(***************************************************************************)
(* Proofs about VideoEncoder, for any number of packets.  The inductive    *)
(* invariant IInv says where every packet is, by number: packets leave the *)
(* queue in the order of the feeds, so that what was deleted before the    *)
(* destructor's loop, the packet in hand and the queue are consecutive     *)
(* numbers, and the loop deletes the ones after the packet in hand.        *)
(***************************************************************************)
EXTENDS VideoEncoder, SequenceTheorems, TLAPS

(* Where the two threads are in relation to each other. *)
Threads ==
    /\ quit <=> app \notin {"init", "feed", "quit"}
    /\ cancel_wait <=> app \in {"join", "drain", "closed"}
    /\ app \in {"drain", "closed"} => pc = "ended"
    /\ app \notin {"drain", "closed"} => i = 0
    /\ app \in {"init", "quit"} => fed = 0
    /\ app = "feed" \/ (fed > 0 /\ app # "closed") => enc = "open"

(* Which control points have a packet in hand. *)
Hand ==
    /\ pc \in {"pop", "popped", "encode", "send", "free"} => pkt # NULL
    /\ pc \in {"test", "front", "wait"} => pkt = NULL
    /\ pc = "pop" => queue # <<>> /\ pkt = queue[1]

(* The number of packets in hand that are not in the queue, 0 or 1. *)
InHand == IF pkt = NULL \/ pc = "pop" THEN 0 ELSE 1

(* The packets deleted by the encode thread. *)
ByThread == Len(freed) - i

(* The queue has the latest packets; the others come before it. *)
Queued ==
    /\ ByThread \in Nat
    /\ Len(freed) + InHand + Len(queue) = fed
    /\ \A k \in DOMAIN queue : queue[k] = k + fed - Len(queue)

(* The thread deletes in order; the loop goes on after the packet in hand. *)
Deleted ==
    /\ InHand = 1 => pkt = ByThread + 1
    /\ \A k \in DOMAIN freed : freed[k] = IF k <= ByThread THEN k ELSE k + InHand

(* What was sent is older than what can still be sent. *)
SentBefore ==
    \A k \in DOMAIN sent :
        /\ 1 <= sent[k]
        /\ sent[k] <= ByThread + (IF pc \in {"free", "ended"} THEN InHand ELSE 0)

(* The loop stops half way. *)
HalfWay ==
    /\ i <= Len(queue) + 1
    /\ app = "closed" => i >= Len(queue)

(* TypeOK, with natural numbers for the packets. *)
Types ==
    /\ queue \in Seq(Nat) /\ freed \in Seq(Nat) /\ sent \in Seq(Nat)
    /\ cancel_wait \in BOOLEAN /\ quit \in BOOLEAN
    /\ enc \in {"null", "open", "closed"}
    /\ pc \in {"test", "front", "wait", "pop", "popped", "encode", "send", "free", "ended"}
    /\ pkt \in Nat
    /\ call \in {0, 1}
    /\ app \in {"init", "feed", "quit", "cancel", "join", "drain", "closed"}
    /\ i \in Nat
    /\ fed \in 0..MaxFrames

IInv == /\ Types /\ Threads /\ NoSleepOnWork /\ Hand /\ Queued /\ Deleted
        /\ SentBefore /\ FramesInOrder /\ HalfWay
-----------------------------------------------------------------------------
(* What Append and Tail do to a queue of packets, element by element. *)
LEMMA AppendElements ==
    ASSUME NEW q \in Seq(Nat), NEW x \in Nat
    PROVE  /\ Append(q, x) \in Seq(Nat)
           /\ Len(q) \in Nat /\ DOMAIN q = 1..Len(q)
           /\ Len(Append(q, x)) = Len(q) + 1
           /\ DOMAIN Append(q, x) = 1..(Len(q) + 1)
           /\ \A k \in 1..Len(q) : Append(q, x)[k] = q[k]
           /\ Append(q, x)[Len(q) + 1] = x
  OBVIOUS

LEMMA TailElements ==
    ASSUME NEW q \in Seq(Nat), q # <<>>
    PROVE  /\ Tail(q) \in Seq(Nat)
           /\ q[1] \in Nat
           /\ Len(q) \in Nat \ {0} /\ DOMAIN q = 1..Len(q)
           /\ Len(Tail(q)) = Len(q) - 1
           /\ DOMAIN Tail(q) = 1..(Len(q) - 1)
           /\ \A k \in 1..(Len(q) - 1) : Tail(q)[k] = q[k + 1]
  OBVIOUS

(* Nothing was fed when the encoder's thread starts. *)
LEMMA InitIInv == Init => IInv
<1> SUFFICES ASSUME Init
             PROVE  IInv
  OBVIOUS
<1> USE DEF Init, NULL
<1>1. Types
  <2>1. <<>> \in Seq(Nat) /\ fed \in 0..MaxFrames /\ i \in Nat /\ pkt \in Nat
    BY FramesAssumption
  <2>2. cancel_wait \in BOOLEAN /\ quit \in BOOLEAN
    OBVIOUS
  <2> QED
    BY <2>1, <2>2 DEF Types
<1>2. Len(queue) = 0 /\ Len(freed) = 0 /\ Len(sent) = 0
  OBVIOUS
<1> QED
  BY <1>1, <1>2 DEF IInv, Threads, NoSleepOnWork, Hand, Queued, Deleted, SentBefore,
     FramesInOrder, HalfWay, InHand, ByThread
-----------------------------------------------------------------------------
(* The parts of IInv about the list of packets are kept by the steps that  *)
(* move none and keep the one in hand.                                     *)
LEMMA PacketsStay ==
    ASSUME IInv, UNCHANGED <<queue, freed, sent, fed, i, pkt>>, Types',
           InHand' = InHand,
           pc \in {"free", "ended"} => pc' \in {"free", "ended"}
    PROVE  (Queued /\ Deleted /\ SentBefore /\ FramesInOrder)'
<1>1. Queued' /\ Deleted' /\ FramesInOrder'
  BY DEF IInv, Queued, Deleted, FramesInOrder, ByThread
<1>2. SentBefore'
  BY DEF IInv, Types, SentBefore, ByThread, InHand
<1> QED
  BY <1>1, <1>2

(* The two threads, the wait and the loop's counter. *)
LEMMA NextControl ==
    ASSUME IInv, Next
    PROVE  (Types /\ Threads /\ NoSleepOnWork /\ Hand /\ HalfWay)'
<1> DEFINE Control == Types /\ Threads /\ NoSleepOnWork /\ Hand /\ HalfWay
<1> USE DEF IInv, Types, Threads, NoSleepOnWork, Hand, HalfWay, NULL, m_queue, history
<1>1. CASE InitEncoder
  BY <1>1 DEF InitEncoder
<1>2. CASE Feed
  <2>1. /\ fed' = fed + 1 /\ fed' \in 1..MaxFrames
        /\ queue' = Append(queue, fed')
    BY <1>2, FramesAssumption DEF Feed
  <2>2. /\ queue' \in Seq(Nat) /\ Len(queue') = Len(queue) + 1 /\ Len(queue) \in Nat
        /\ queue # <<>> => queue'[1] = queue[1]
    BY <2>1, AppendElements
  <2>3. pc' = IF pc = "wait" /\ Len(queue') = 1 THEN "front" ELSE pc
    BY <1>2 DEF Feed, WokenByPush
  <2>4. /\ app = "feed" /\ enc = "open" /\ app' = app /\ enc' = enc /\ pkt' = pkt
        /\ UNCHANGED <<cancel_wait, quit, call, i, freed, sent>>
    BY <1>2 DEF Feed
  <2>5. pc' \in {"test", "front", "wait", "pop", "popped", "encode", "send", "free", "ended"}
    BY <2>3
  <2>6. pc' = "wait" => FALSE
    <3>1. pc = "wait" => Len(queue') = 1
      BY <2>2
    <3> QED
      BY <2>3, <3>1
  <2>7. Types'
    BY <2>1, <2>2, <2>4, <2>5
  <2>8. Threads' /\ NoSleepOnWork' /\ HalfWay'
    BY <1>2, <2>1, <2>2, <2>4, <2>6 DEF Feed
  <2>9. Hand'
    <3>1. pc' = pc \/ (pc = "wait" /\ pc' = "front")
      BY <2>3
    <3>2. queue' # <<>>
      BY <2>2
    <3> QED
      BY <2>2, <2>4, <3>1, <3>2
  <2> QED
    BY <2>7, <2>8, <2>9
<1>3. CASE SetQuit
  BY <1>3 DEF SetQuit
<1>4. CASE CancelWait
  BY <1>4 DEF CancelWait, WokenByCancel
<1>5. CASE Join
  BY <1>5 DEF Join
<1>6. CASE Drain
  <2>1. queue # <<>> /\ i < Len(queue) /\ queue' = Tail(queue)
    BY <1>6 DEF Drain, DrainMore
  <2>2. /\ queue' \in Seq(Nat) /\ Len(queue') = Len(queue) - 1 /\ Len(queue) \in Nat
        /\ queue[1] \in Nat
    BY <2>1, TailElements
  <2>3. freed' \in Seq(Nat)
    BY <1>6, <2>2, AppendElements DEF Drain
  <2> QED
    BY <1>6, <2>1, <2>2, <2>3 DEF Drain
<1>7. CASE CloseEncoder
  BY <1>7 DEF CloseEncoder, DrainMore
<1>8. CASE Test
  BY <1>8 DEF Test
<1>9. CASE QueueFront
  <2>1. CASE queue = <<>>
    BY <1>9, <2>1 DEF QueueFront
  <2>2. CASE queue # <<>>
    <3>1. queue[1] \in Nat \ {0}
      BY <2>2, TailElements DEF Queued, InHand
    <3> QED
      BY <1>9, <2>2, <3>1 DEF QueueFront
  <2> QED
    BY <2>1, <2>2
<1>10. CASE SpuriousWakeup
  BY <1>10 DEF SpuriousWakeup
<1>11. CASE Pop
  <2>1. queue # <<>> /\ queue' = Tail(queue)
    BY <1>11 DEF Pop
  <2>2. queue' \in Seq(Nat) /\ Len(queue') = Len(queue) - 1 /\ Len(queue) \in Nat
    BY <2>1, TailElements
  <2> QED
    BY <1>11, <2>1, <2>2 DEF Pop
<1>12. CASE TestPopped
  BY <1>12 DEF TestPopped
<1>13. CASE EncodeAny
  BY <1>13 DEF EncodeAny, Encode
<1>14. CASE SendVideo
  <2>1. sent' \in Seq(Nat)
    BY <1>14, AppendElements DEF SendVideo
  <2> QED
    BY <1>14, <2>1 DEF SendVideo
<1>15. CASE Free
  <2>1. freed' \in Seq(Nat)
    BY <1>15, AppendElements DEF Free
  <2> QED
    BY <1>15, <2>1 DEF Free
<1> QED
  BY <1>1, <1>2, <1>3, <1>4, <1>5, <1>6, <1>7, <1>8, <1>9, <1>10, <1>11, <1>12,
     <1>13, <1>14, <1>15 DEF Next, App, EncodeThread

(* Where the packets are, after each step that moves one; for the others   *)
(* PacketsStay says it.                                                    *)
LEMMA NextPackets ==
    ASSUME IInv, Next, Types', Hand'
    PROVE  (Queued /\ Deleted /\ SentBefore /\ FramesInOrder)'
<1> DEFINE Packets == Queued /\ Deleted /\ SentBefore /\ FramesInOrder
<1> USE DEF NULL
<1>0. /\ queue \in Seq(Nat) /\ freed \in Seq(Nat) /\ sent \in Seq(Nat)
      /\ pkt \in Nat /\ i \in Nat /\ fed \in Nat /\ InHand \in {0, 1}
      /\ Len(queue) \in Nat /\ Len(freed) \in Nat /\ Len(sent) \in Nat
      /\ DOMAIN queue = 1..Len(queue) /\ DOMAIN freed = 1..Len(freed)
      /\ DOMAIN sent = 1..Len(sent)
      /\ ByThread \in Nat /\ ByThread = Len(freed) - i
      /\ Len(freed) + InHand + Len(queue) = fed
  BY FramesAssumption DEF IInv, Types, Queued, InHand, ByThread
<1>n. /\ Len(queue) \in Nat /\ Len(freed) \in Nat /\ fed \in Nat
      /\ ByThread \in Nat /\ Len(freed) + InHand + Len(queue) = fed
  BY <1>0
<1>q. \A k \in 1..Len(queue) : queue[k] = k + fed - Len(queue)
  BY <1>0 DEF IInv, Queued
<1>f. \A k \in 1..Len(freed) : freed[k] = IF k <= ByThread THEN k ELSE k + InHand
  BY <1>0 DEF IInv, Deleted
<1>s. \A k \in 1..Len(sent) :
         /\ sent[k] \in Nat \ {0}
         /\ sent[k] <= ByThread + (IF pc \in {"free", "ended"} THEN InHand ELSE 0)
  <2>1. \A k \in 1..Len(sent) : sent[k] \in Nat
    BY <1>0
  <2>2. \A k \in 1..Len(sent) :
           /\ 1 <= sent[k]
           /\ sent[k] <= ByThread + (IF pc \in {"free", "ended"} THEN InHand ELSE 0)
    BY <1>0 DEF IInv, SentBefore
  <2> QED
    BY <2>1, <2>2
<1>1. ASSUME \/ InitEncoder \/ SetQuit \/ CancelWait \/ Join \/ CloseEncoder
             \/ Test \/ SpuriousWakeup \/ TestPopped \/ EncodeAny
      PROVE  Packets'
  <2>1. UNCHANGED <<queue, freed, sent, fed, i, pkt>>
    BY <1>1 DEF InitEncoder, SetQuit, CancelWait, Join, CloseEncoder, Test,
       SpuriousWakeup, TestPopped, EncodeAny, Encode, m_queue, history
  <2>2. /\ pc = "pop" <=> pc' = "pop"
        /\ pc \in {"free", "ended"} => pc' \in {"free", "ended"}
    BY <1>1 DEF InitEncoder, SetQuit, CancelWait, WokenByCancel, Join, CloseEncoder,
       Test, SpuriousWakeup, TestPopped, EncodeAny, Encode
  <2>3. InHand' = InHand
    BY <2>1, <2>2 DEF InHand
  <2> QED
    BY <2>1, <2>2, <2>3, PacketsStay
<1>2. CASE Feed
  <2>1. /\ fed' = fed + 1 /\ queue' = Append(queue, fed')
        /\ UNCHANGED <<pkt, i, freed, sent>>
        /\ pc' = pc \/ (pc = "wait" /\ pc' = "front")
    BY <1>2 DEF Feed, WokenByPush
  <2>2. /\ Len(queue') = Len(queue) + 1
        /\ DOMAIN queue' = 1..(Len(queue) + 1)
        /\ \A k \in 1..Len(queue) : queue'[k] = queue[k]
        /\ queue'[Len(queue) + 1] = fed + 1
    BY <1>0, <2>1, AppendElements
  <2>3. InHand' = InHand /\ ByThread' = ByThread
    BY <2>1 DEF InHand, ByThread
  <2>4. ASSUME NEW k \in DOMAIN queue'
        PROVE  queue'[k] = k + fed' - Len(queue')
    <3>1. CASE k \in 1..Len(queue)
      <4>1. queue[k] = k + fed - Len(queue)
        BY <1>0, <3>1 DEF IInv, Queued
      <4> QED
        BY <1>0, <2>1, <2>2, <3>1, <4>1
    <3>2. CASE k = Len(queue) + 1
      BY <1>0, <2>1, <2>2, <3>2
    <3> QED
      BY <1>0, <2>2, <3>1, <3>2
  <2>5. Queued'
    BY <1>0, <2>1, <2>2, <2>3, <2>4 DEF Queued
  <2>6. Deleted' /\ FramesInOrder'
    BY <2>1, <2>3 DEF IInv, Deleted, FramesInOrder
  <2>7. SentBefore'
    BY <2>1, <2>3 DEF IInv, SentBefore
  <2> QED
    BY <2>5, <2>6, <2>7
<1>3. CASE Drain
  <2>1. /\ queue # <<>>
        /\ queue' = Tail(queue) /\ freed' = Append(freed, queue[1]) /\ i' = i + 1
        /\ UNCHANGED <<pkt, pc, sent, fed>>
    BY <1>0, <1>3 DEF Drain, DrainMore
  <2>2. /\ queue[1] \in Nat /\ Len(queue) # 0
        /\ Len(queue') = Len(queue) - 1 /\ DOMAIN queue' = 1..(Len(queue) - 1)
        /\ \A k \in 1..(Len(queue) - 1) : queue'[k] = queue[k + 1]
    BY <1>0, <2>1, TailElements
  <2>3. /\ Len(freed') = Len(freed) + 1 /\ DOMAIN freed' = 1..(Len(freed) + 1)
        /\ \A k \in 1..Len(freed) : freed'[k] = freed[k]
        /\ freed'[Len(freed) + 1] = queue[1]
    BY <1>0, <2>1, <2>2, AppendElements
  <2>4. InHand' = InHand /\ ByThread' = ByThread
    BY <1>0, <2>1, <2>3 DEF InHand, ByThread
  <2>6. ASSUME NEW k \in DOMAIN queue'
        PROVE  queue'[k] = k + fed' - Len(queue')
    <3>1. k + 1 \in 1..Len(queue)
      BY <1>0, <2>2
    <3>2. queue[k + 1] = (k + 1) + fed - Len(queue)
      BY <3>1, <1>q
    <3> QED
      BY <1>0, <2>1, <2>2, <3>2
  <2>7. Queued'
    BY <1>0, <2>1, <2>2, <2>3, <2>4, <2>6 DEF Queued
  <2>8. queue[1] = Len(freed) + 1 + InHand
    BY <1>0, <1>q, <2>2
  <2>9. ASSUME NEW k \in DOMAIN freed'
        PROVE  freed'[k] = IF k <= ByThread' THEN k ELSE k + InHand'
    <3>1. CASE k \in 1..Len(freed)
      BY <1>0, <2>3, <2>4, <3>1 DEF IInv, Deleted
    <3>2. CASE k = Len(freed) + 1
      BY <1>0, <2>3, <2>4, <2>8, <3>2
    <3> QED
      BY <1>0, <2>3, <3>1, <3>2
  <2>10. Deleted'
    BY <2>1, <2>4, <2>9 DEF IInv, Deleted
  <2>11. SentBefore' /\ FramesInOrder'
    BY <2>1, <2>4 DEF IInv, SentBefore, FramesInOrder
  <2> QED
    BY <2>7, <2>10, <2>11
<1>4. CASE QueueFront
  <2>1. /\ pc = "front" /\ pkt = 0
        /\ UNCHANGED <<queue, freed, sent, fed, i>>
        /\ pkt' = IF queue = <<>> THEN pkt ELSE queue[1]
        /\ pc' = IF queue # <<>> THEN "pop" ELSE IF cancel_wait THEN "ended" ELSE "wait"
    BY <1>4 DEF QueueFront, IInv, Hand, m_queue, history
  <2>2. InHand = 0 /\ InHand' = 0 /\ ByThread' = ByThread
    BY <2>1 DEF InHand, ByThread
  <2>3. Queued' /\ FramesInOrder'
    BY <2>1, <2>2 DEF IInv, Queued, FramesInOrder
  <2>4. Deleted'
    BY <2>1, <2>2 DEF IInv, Deleted
  <2>5. SentBefore'
    BY <1>0, <2>1, <2>2 DEF IInv, SentBefore
  <2> QED
    BY <2>3, <2>4, <2>5
<1>5. CASE Pop
  <2>1. /\ pc = "pop" /\ pc' = "popped"
        /\ queue # <<>> /\ pkt # 0 /\ i = 0
        /\ queue' = Tail(queue)
        /\ pkt' = pkt /\ freed' = freed /\ sent' = sent /\ fed' = fed /\ i' = i
    BY <1>5 DEF Pop, IInv, Hand, Threads, history
  <2>2. /\ Len(queue) # 0
        /\ Len(queue') = Len(queue) - 1 /\ DOMAIN queue' = 1..(Len(queue) - 1)
        /\ \A k \in 1..(Len(queue) - 1) : queue'[k] = queue[k + 1]
    BY <1>0, <2>1, TailElements
  <2>3. InHand = 0 /\ InHand' = 1 /\ ByThread' = ByThread /\ ByThread = Len(freed)
    BY <1>0, <2>1 DEF InHand, ByThread
  <2>5. ASSUME NEW k \in DOMAIN queue'
        PROVE  queue'[k] = k + fed' - Len(queue')
    <3>1. k + 1 \in 1..Len(queue)
      BY <1>0, <2>2
    <3>2. queue[k + 1] = (k + 1) + fed - Len(queue)
      BY <3>1, <1>q
    <3> QED
      BY <1>0, <2>1, <2>2, <3>2
  <2>6. Queued'
    <3>1. Len(freed) + Len(queue) = fed
      BY <1>n, <2>3
    <3>2. Len(queue') = Len(queue) - 1
      BY <2>2
    <3>3. Len(freed) + 1 + Len(queue') = fed
      BY <1>n, <3>1, <3>2
    <3>4. Len(freed') + InHand' + Len(queue') = fed'
      BY <2>1, <2>3, <3>3
    <3>5. ByThread' \in Nat
      BY <1>0, <2>3
    <3> QED
      BY <2>5, <3>4, <3>5 DEF Queued
  <2>7. pkt = ByThread + 1
    <3>1. queue[1] = 1 + fed - Len(queue)
      BY <1>0, <1>q, <2>2
    <3>2. pkt = queue[1]
      BY <1>5 DEF Pop, IInv, Hand
    <3> QED
      BY <1>n, <2>3, <3>1, <3>2
  <2>8. \A k \in 1..Len(freed) : freed[k] = k
    BY <1>0, <1>f, <2>3
  <2>9. Deleted'
    BY <1>0, <2>1, <2>3, <2>7, <2>8 DEF Deleted
  <2>10. SentBefore' /\ FramesInOrder'
    BY <1>0, <2>1, <2>3 DEF IInv, SentBefore, FramesInOrder
  <2> QED
    BY <2>6, <2>9, <2>10
<1>6. CASE SendVideo
  <2>1. /\ pc = "send" /\ pc' = "free" /\ pkt # 0
        /\ sent' = Append(sent, pkt)
        /\ UNCHANGED <<queue, pkt, freed, fed, i>>
    BY <1>6 DEF SendVideo, IInv, Hand, m_queue
  <2>2. /\ DOMAIN sent' = 1..(Len(sent) + 1)
        /\ \A k \in 1..Len(sent) : sent'[k] = sent[k]
        /\ sent'[Len(sent) + 1] = pkt
    BY <1>0, <2>1, AppendElements
  <2>3. InHand = 1 /\ InHand' = 1 /\ ByThread' = ByThread
    BY <2>1 DEF InHand, ByThread
  <2>4. Queued' /\ Deleted'
    BY <2>1, <2>3 DEF IInv, Queued, Deleted
  <2>5. pkt = ByThread + 1
    BY <2>3 DEF IInv, Deleted
  <2>6. \A k \in 1..Len(sent) : sent[k] \in Nat \ {0} /\ sent[k] <= ByThread
    BY <1>0, <1>s, <2>1
  <2>7. SentBefore'
    BY <1>0, <2>1, <2>2, <2>3, <2>5, <2>6 DEF SentBefore
  <2>8. ASSUME NEW j \in DOMAIN sent', NEW k \in DOMAIN sent', j < k
        PROVE  sent'[j] < sent'[k]
    <3>1. j \in 1..Len(sent)
      BY <1>0, <2>2, <2>8
    <3>2. CASE k \in 1..Len(sent)
      BY <1>0, <2>2, <2>8, <3>1, <3>2 DEF IInv, FramesInOrder
    <3>3. CASE k = Len(sent) + 1
      BY <1>0, <2>2, <2>5, <2>6, <3>1, <3>3
    <3> QED
      BY <1>0, <2>2, <3>2, <3>3
  <2> QED
    BY <2>4, <2>7, <2>8 DEF FramesInOrder
<1>7. CASE Free
  <2>1. /\ pc = "free" /\ pc' = "test" /\ pkt # 0 /\ pkt' = 0 /\ i = 0
        /\ freed' = Append(freed, pkt)
        /\ UNCHANGED <<queue, sent, fed, i>>
    BY <1>7 DEF Free, IInv, Hand, Threads, m_queue
  <2>2. /\ Len(freed') = Len(freed) + 1 /\ DOMAIN freed' = 1..(Len(freed) + 1)
        /\ \A k \in 1..Len(freed) : freed'[k] = freed[k]
        /\ freed'[Len(freed) + 1] = pkt
    BY <1>0, <2>1, AppendElements
  <2>3. InHand = 1 /\ InHand' = 0 /\ ByThread' = ByThread + 1 /\ ByThread = Len(freed)
    BY <1>0, <2>1, <2>2 DEF InHand, ByThread
  <2>4. pkt = ByThread + 1
    BY <2>3 DEF IInv, Deleted
  <2>5. Queued'
    BY <1>0, <2>1, <2>2, <2>3 DEF IInv, Queued
  <2>6. \A k \in 1..Len(freed) : freed[k] = k
    BY <1>0, <1>f, <2>3
  <2>7. Deleted'
    <3>1. ASSUME NEW k \in DOMAIN freed'
          PROVE  freed'[k] = IF k <= ByThread' THEN k ELSE k + InHand'
      <4>1. CASE k \in 1..Len(freed)
        BY <1>0, <2>2, <2>3, <2>6, <4>1
      <4>2. CASE k = Len(freed) + 1
        BY <1>0, <2>2, <2>3, <2>4, <4>2
      <4> QED
        BY <1>0, <2>2, <4>1, <4>2
    <3> QED
      BY <2>3, <3>1 DEF Deleted
  <2>8. SentBefore' /\ FramesInOrder'
    BY <1>0, <2>1, <2>3 DEF IInv, SentBefore, FramesInOrder
  <2> QED
    BY <2>5, <2>7, <2>8
<1> QED
  BY <1>1, <1>2, <1>3, <1>4, <1>5, <1>6, <1>7 DEF Next, App, EncodeThread

(* IInv is kept by every step. *)
LEMMA NextIInv == IInv /\ [Next]_vars => IInv'
<1>1. ASSUME IInv, Next
      PROVE  IInv'
  BY <1>1, NextControl, NextPackets DEF IInv
<1>2. ASSUME IInv, UNCHANGED vars
      PROVE  IInv'
  BY <1>2 DEF vars, IInv, Types, Threads, NoSleepOnWork, Hand, Queued, Deleted,
     SentBefore, FramesInOrder, HalfWay, InHand, ByThread
<1> QED
  BY <1>1, <1>2

(* IInv is an invariant of the encoder. *)
THEOREM Invariance == Spec => []IInv
  BY InitIInv, NextIInv, PTL DEF Spec
-----------------------------------------------------------------------------
(* Every variable keeps its type; packets are numbered by their feeds. *)
THEOREM TypeCorrect == Spec => []TypeOK
<1>1. ASSUME IInv
      PROVE  TypeOK
  <2> USE <1>1, FramesAssumption DEF IInv, Types, NULL
  <2>1. /\ Len(queue) \in Nat /\ Len(freed) \in Nat /\ Len(sent) \in Nat
        /\ DOMAIN queue = 1..Len(queue) /\ DOMAIN freed = 1..Len(freed)
        /\ DOMAIN sent = 1..Len(sent)
        /\ fed \in Nat /\ fed <= MaxFrames /\ InHand \in {0, 1}
        /\ ByThread \in Nat /\ ByThread + i = Len(freed)
        /\ Len(freed) + InHand + Len(queue) = fed
    BY DEF Queued, InHand, ByThread
  <2>2. ASSUME NEW k \in DOMAIN queue
        PROVE  queue[k] \in Frames
    <3>1. queue[k] = k + fed - Len(queue)
      BY DEF Queued
    <3> QED
      BY <2>1, <3>1 DEF Frames
  <2>3. ASSUME NEW k \in DOMAIN freed
        PROVE  freed[k] \in Frames
    <3>1. freed[k] = IF k <= ByThread THEN k ELSE k + InHand
      BY DEF Deleted
    <3> QED
      BY <2>1, <3>1 DEF Frames
  <2>4. pkt \in 0..MaxFrames
    <3>1. CASE pc = "pop"
      <4>1. 1 \in DOMAIN queue /\ pkt = queue[1]
        BY <2>1, <3>1 DEF Hand
      <4>2. pkt \in Frames
        BY <2>2, <4>1
      <4> QED
        BY <4>2 DEF Frames
    <3>2. CASE pc # "pop" /\ pkt # 0
      <4>1. InHand = 1 /\ pkt = ByThread + 1
        BY <3>2 DEF InHand, Deleted
      <4> QED
        BY <2>1, <4>1
    <3>3. CASE pkt = 0
      BY <3>3
    <3> QED
      BY <3>1, <3>2, <3>3
  <2>5. i \in 0..MaxFrames
    BY <2>1
  <2>6. queue \in Seq(Frames)
    BY <2>2, SeqDef
  <2>7. freed \in Seq(Frames)
    BY <2>3
  <2>8. ASSUME NEW k \in DOMAIN sent
        PROVE  sent[k] \in Frames
    <3>1. /\ sent[k] \in Nat /\ 1 <= sent[k]
          /\ sent[k] <= ByThread + (IF pc \in {"free", "ended"} THEN InHand ELSE 0)
      BY <2>1 DEF SentBefore
    <3> QED
      BY <2>1, <3>1 DEF Frames
  <2>9. sent \in Seq(Frames)
    BY <2>8
  <2> QED
    BY <2>4, <2>5, <2>6, <2>7, <2>9 DEF TypeOK
<1> QED
  BY <1>1, Invariance, PTL

(* Queue::push and Queue::cancel_wait lose no wakeup. *)
THEOREM NoSleepOnWorkHolds == Spec => []NoSleepOnWork
<1>1. IInv => NoSleepOnWork
  BY DEF IInv
<1> QED
  BY <1>1, Invariance, PTL

(* send_video gets the frames in the order of the feeds, each at most once. *)
THEOREM FramesInOrderHolds == Spec => []FramesInOrder
<1>1. IInv => FramesInOrder
  BY DEF IInv
<1> QED
  BY <1>1, Invariance, PTL

(* x264 encodes only between x264_encoder_open and x264_encoder_close. *)
THEOREM EncoderOpenHolds == Spec => []EncoderOpenWhenUsed
<1>1. ASSUME IInv, pc = "encode"
      PROVE  enc = "open"
  <2>1. InHand = 1 /\ app # "closed"
    BY <1>1 DEF IInv, Hand, Threads, InHand
  <2>2. fed > 0
    BY <1>1, <2>1, FramesAssumption DEF IInv, Types, Queued
  <2> QED
    BY <1>1, <2>1, <2>2 DEF IInv, Threads
<1>2. IInv => EncoderOpenWhenUsed
  BY <1>1 DEF EncoderOpenWhenUsed
<1> QED
  BY <1>2, Invariance, PTL

(* The list of packets deleted, in hand and queued, element by element. *)
LEMMA AllPackets ==
    ASSUME IInv
    PROVE  LET all == freed \o Held \o queue
           IN  /\ Len(Held) = InHand
               /\ Len(all) = fed
               /\ DOMAIN all = 1..fed
               /\ \A k \in 1..fed :
                     all[k] = IF k <= ByThread THEN k
                              ELSE IF k <= Len(freed) THEN k + InHand
                              ELSE IF k <= Len(freed) + InHand THEN ByThread + 1
                              ELSE k
<1> DEFINE fh == freed \o Held
           all == fh \o queue
<1>1. /\ queue \in Seq(Nat) /\ freed \in Seq(Nat) /\ pkt \in Nat
      /\ Len(queue) \in Nat /\ Len(freed) \in Nat
      /\ DOMAIN queue = 1..Len(queue) /\ DOMAIN freed = 1..Len(freed)
      /\ fed \in Nat /\ InHand \in {0, 1} /\ i \in Nat
      /\ ByThread \in Nat /\ ByThread + i = Len(freed)
      /\ Len(freed) + InHand + Len(queue) = fed
  BY FramesAssumption DEF IInv, Types, Queued, InHand, ByThread
<1>2. /\ Held \in Seq(Nat) /\ Len(Held) = InHand
      /\ InHand = 1 => Held[1] = ByThread + 1
  BY <1>1 DEF Held, InHand, IInv, Deleted
<1>3. /\ fh \in Seq(Nat) /\ Len(fh) = Len(freed) + InHand
      /\ \A k \in 1..(Len(freed) + InHand) :
            fh[k] = IF k <= Len(freed) THEN freed[k] ELSE Held[k - Len(freed)]
  BY <1>1, <1>2, ConcatProperties
<1> HIDE DEF fh
<1>4. /\ all \in Seq(Nat) /\ Len(all) = fed
      /\ \A k \in 1..fed :
            all[k] = IF k <= Len(freed) + InHand THEN fh[k]
                     ELSE queue[k - (Len(freed) + InHand)]
  <2>1. /\ all \in Seq(Nat) /\ Len(all) = Len(fh) + Len(queue)
        /\ \A k \in 1..(Len(fh) + Len(queue)) :
              all[k] = IF k <= Len(fh) THEN fh[k] ELSE queue[k - Len(fh)]
    <3>1. fh \in Seq(Nat) /\ queue \in Seq(Nat)
      BY <1>1, <1>3
    <3> QED
      BY <3>1, ConcatProperties
  <2>2. Len(fh) + Len(queue) = fed
    BY <1>1, <1>3
  <2> QED
    BY <1>3, <2>1, <2>2
<1>5. DOMAIN all = 1..fed
  BY <1>4
<1> HIDE DEF all
<1>6. ASSUME NEW k \in 1..fed
      PROVE  all[k] = IF k <= ByThread THEN k
                      ELSE IF k <= Len(freed) THEN k + InHand
                      ELSE IF k <= Len(freed) + InHand THEN ByThread + 1
                      ELSE k
  <2>1. CASE k <= Len(freed)
    <3>1. all[k] = freed[k]
      <4>1. k \in 1..(Len(freed) + InHand) /\ k <= Len(freed) + InHand
        BY <1>1, <2>1
      <4>2. all[k] = fh[k]
        BY <1>4, <4>1
      <4>3. fh[k] = freed[k]
        BY <1>3, <2>1, <4>1
      <4> QED
        BY <4>2, <4>3
    <3>2. k \in DOMAIN freed
      BY <1>1, <2>1
    <3>3. freed[k] = IF k <= ByThread THEN k ELSE k + InHand
      BY <3>2 DEF IInv, Deleted
    <3>4. all[k] = IF k <= ByThread THEN k ELSE k + InHand
      BY <3>1, <3>3
    <3> QED
      BY <2>1, <3>4
  <2>2. CASE k > Len(freed) /\ k <= Len(freed) + InHand
    <3>1. InHand = 1 /\ k = Len(freed) + 1
      BY <1>1, <2>2
    <3>2. all[k] = Held[1]
      <4>1. k \in 1..(Len(freed) + InHand) /\ k - Len(freed) = 1 /\ ~(k <= Len(freed))
        BY <1>1, <2>2, <3>1
      <4>2. all[k] = fh[k]
        BY <1>4, <2>2
      <4>3. fh[k] = Held[k - Len(freed)]
        BY <1>3, <4>1
      <4> QED
        BY <4>1, <4>2, <4>3
    <3>3. all[k] = ByThread + 1
      BY <1>2, <3>1, <3>2
    <3> QED
      BY <1>1, <2>2, <3>3
  <2>3. CASE k > Len(freed) + InHand
    <3> DEFINE j == k - (Len(freed) + InHand)
    <3>1. j \in 1..Len(queue) /\ all[k] = queue[j]
      BY <1>1, <1>4, <2>3
    <3>2. queue[j] = j + fed - Len(queue)
      BY <1>1, <3>1 DEF IInv, Queued
    <3> HIDE DEF j
    <3>3. Len(freed) + InHand = fed - Len(queue)
      BY <1>1
    <3>4. j + fed - Len(queue) = k
      BY <1>1, <3>3 DEF j
    <3>5. all[k] = k
      BY <3>1, <3>2, <3>4
    <3>6. ~(k <= ByThread) /\ ~(k <= Len(freed)) /\ ~(k <= Len(freed) + InHand)
      BY <1>1, <2>3
    <3> QED
      BY <3>5, <3>6
  <2> QED
    BY <1>1, <2>1, <2>2, <2>3
<1> QED
  BY <1>2, <1>4, <1>5, <1>6 DEF all, fh

(* Every packet is in one place: queued, in hand or deleted; and until the *)
(* destructor the three follow each other in the order of the feeds.       *)
THEOREM SingleOwnerHolds == Spec => []SingleOwner
<1>1. ASSUME IInv
      PROVE  SingleOwner
  <2> DEFINE all == freed \o Held \o queue
             f == Len(freed)
  <2>1. /\ f \in Nat /\ fed \in Nat /\ InHand \in {0, 1}
        /\ ByThread \in Nat /\ ByThread <= f /\ f + InHand <= fed
        /\ ~quit => ByThread = f
    BY <1>1, FramesAssumption DEF IInv, Types, Threads, Queued, InHand, ByThread
  <2>2. /\ Len(all) = fed
        /\ DOMAIN all = 1..fed
        /\ \A k \in 1..fed :
              all[k] = IF k <= ByThread THEN k
                       ELSE IF k <= f THEN k + InHand
                       ELSE IF k <= f + InHand THEN ByThread + 1
                       ELSE k
    BY <1>1, AllPackets
  <2>3. all \in Seq(Nat)
    BY <1>1 DEF IInv, Types, Held
  <2> HIDE DEF all, f
  <2>4. ASSUME NEW k \in 1..fed
        PROVE  all[k] \in 1..fed
    BY <2>1, <2>2
  <2>5. ASSUME NEW p \in 1..fed
        PROVE  \E k \in 1..fed : all[k] = p
    <3>1. CASE p <= ByThread \/ p > f + InHand
      BY <2>1, <2>2, <3>1
    <3>2. CASE InHand = 0
      BY <2>1, <2>2, <3>2
    <3>3. CASE InHand = 1 /\ p = ByThread + 1
      <4>1. f + 1 \in 1..fed /\ all[f + 1] = p
        BY <2>1, <2>2, <3>3
      <4> QED
        BY <4>1
    <3>4. CASE InHand = 1 /\ p > ByThread + 1 /\ p <= f + InHand
      <4>1. p - 1 \in 1..fed /\ all[p - 1] = p
        BY <2>1, <2>2, <3>4
      <4> QED
        BY <4>1
    <3> QED
      BY <2>1, <3>1, <3>2, <3>3, <3>4
  <2>6. ToSet(all) = 1..fed
    BY <2>2, <2>4, <2>5 DEF ToSet
  <2>7. ASSUME ~quit
        PROVE  all = [k \in 1..fed |-> k]
    <3>1. \A k \in 1..fed : all[k] = k
      BY <2>1, <2>2, <2>7
    <3> QED
      BY <2>2, <2>3, <3>1
  <2> QED
    BY <2>2, <2>6, <2>7 DEF SingleOwner, all
<1> QED
  BY <1>1, Invariance, PTL

(* The destructor leaves the younger half of the queue, and one packet in  *)
(* hand, and nothing else.                                                 *)
THEOREM LeakedAtCloseHolds == Spec => []LeakedAtClose
<1>1. ASSUME IInv, app = "closed"
      PROVE  /\ Len(queue) \in {i - 1, i}
             /\ Len(freed) = fed - Len(queue) - Len(Held)
             /\ \A k \in DOMAIN queue : k + fed - Len(queue) = queue[k]
  <2>1. /\ Len(queue) \in Nat /\ Len(freed) \in Nat /\ i \in Nat /\ fed \in Nat
        /\ InHand \in {0, 1} /\ Len(freed) + InHand + Len(queue) = fed
        /\ i <= Len(queue) + 1 /\ i >= Len(queue)
    BY <1>1, FramesAssumption DEF IInv, Types, Queued, HalfWay, InHand
  <2>2. Len(Held) = InHand
    BY <1>1, AllPackets
  <2>3. \A k \in DOMAIN queue : k + fed - Len(queue) = queue[k]
    BY <1>1 DEF IInv, Queued
  <2> QED
    BY <2>1, <2>2, <2>3
<1>2. IInv => LeakedAtClose
  BY <1>1 DEF LeakedAtClose
<1> QED
  BY <1>2, Invariance, PTL
=============================================================================
