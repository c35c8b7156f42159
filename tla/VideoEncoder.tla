----------------------------- MODULE VideoEncoder -----------------------------
(***************************************************************************)
(* One VideoEncoder object of jni/video_encoder.cpp, from openVideoEncoder *)
(* to closeVideoEncoder: the thread of the application that feeds it and   *)
(* destroys it, the thread that encodes, and the Queue<Packet *> of        *)
(* jni/xutil/xqueue.h between them.  A critical section of the queue's     *)
(* mutex is one step; waiting for its condition variable is a control      *)
(* point, left by a signal, a broadcast or spuriously.                     *)
(*                                                                         *)
(* A packet is named by the order of the feeds that were not dropped to    *)
(* keep the frame rate.                                                    *)
(***************************************************************************)
EXTENDS Integers, Sequences, SequencesExt

CONSTANT MaxFrames    \* bound on the packets fed

ASSUME FramesAssumption == MaxFrames \in Nat

VARIABLES
    queue, cancel_wait,   \* m_queue
    quit,                 \* m_quit
    enc,                  \* m_enc: "null", "open" or "closed"
    pc, pkt,              \* the encode thread: its control point and its pkt
    call,                 \* parity of its calls of x264_encoder_encode
    app, i,               \* the application's thread: its control point, and
                          \* the index of the destructor's loop
    (* History, read by no action of the code: *)
    fed,                  \* the packets fed so far
    freed,                \* the packets deleted, in order
    sent                  \* the packets given to send_video, in order

m_queue == <<queue, cancel_wait>>
history == <<fed, freed, sent>>
vars == <<queue, cancel_wait, quit, enc, pc, pkt, call, app, i, fed, freed, sent>>

NULL == 0
-----------------------------------------------------------------------------
\* Mutant: the thread is woken by the second packet only.
WokenBySecond(q) == IF pc = "wait" /\ Len(q) = 2 THEN "front" ELSE pc

(* push signals when its packet is the only one; the waiter tests again. *)
WokenByPush(q) == IF pc = "wait" /\ Len(q) = 1 THEN "front" ELSE pc

(* cancel_wait broadcasts. *)
WokenByCancel == IF pc = "wait" THEN "front" ELSE pc
-----------------------------------------------------------------------------
Init ==
    /\ queue = <<>> /\ cancel_wait = FALSE
    /\ quit = FALSE
    /\ enc = "null"
    /\ pc = "test" /\ pkt = NULL /\ call = 0
    /\ app = "init" /\ i = 0
    /\ fed = 0 /\ freed = <<>> /\ sent = <<>>

(* VideoEncoder::init; when it fails, openVideoEncoder closes the encoder, *)
(* which x264 may have opened before FPSCtrl::init failed.                 *)
InitEncoder ==
    /\ app = "init"
    /\ \/ enc' = "open" /\ app' = "feed"
       \/ enc' \in {"null", "open"} /\ app' = "quit"
    /\ UNCHANGED <<m_queue, quit, pc, pkt, call, i, history>>

(* sendRawVideo feeds a frame that the frame rate control lets through. *)
Feed ==
    /\ app = "feed"
    /\ ~quit
    /\ fed < MaxFrames
    /\ fed' = fed + 1
    /\ queue' = Append(queue, fed')
    /\ pc' = WokenByPush(queue')
    /\ UNCHANGED <<cancel_wait, quit, enc, pkt, call, app, i, freed, sent>>

(* closeVideoEncoder enters the destructor. *)
SetQuit ==
    /\ app \in {"feed", "quit"}
    /\ quit' = TRUE
    /\ app' = "cancel"
    /\ UNCHANGED <<m_queue, enc, pc, pkt, call, i, history>>

CancelWait ==
    /\ app = "cancel"
    /\ cancel_wait' = TRUE
    /\ pc' = WokenByCancel
    /\ app' = "join"
    /\ UNCHANGED <<queue, quit, enc, pkt, call, i, history>>

Join ==
    /\ app = "join"
    /\ pc = "ended"
    /\ app' = "drain"
    /\ UNCHANGED <<m_queue, quit, enc, pc, pkt, call, i, history>>

\* Mutant: the loop runs once only.
DrainOnce == i < 1 /\ queue # <<>>

(* The test of the loop that deletes what is queued: size() shrinks while  *)
(* i grows.                                                                *)
DrainMore == i < Len(queue)

Drain ==
    /\ app = "drain"
    /\ DrainMore
    /\ queue' = Tail(queue)
    /\ freed' = Append(freed, queue[1])
    /\ i' = i + 1
    /\ UNCHANGED <<cancel_wait, quit, enc, pc, pkt, call, app, fed, sent>>

\* Mutant: the encoder is closed before the thread is joined.
CloseBeforeJoin ==
    /\ app = "join"
    /\ enc' = "closed"
    /\ app' = "closed"
    /\ UNCHANGED <<m_queue, quit, pc, pkt, call, i, history>>

(* x264_encoder_close, taken to return whatever it is given. *)
CloseEncoder ==
    /\ app = "drain"
    /\ ~DrainMore
    /\ enc' = "closed"
    /\ app' = "closed"
    /\ UNCHANGED <<m_queue, quit, pc, pkt, call, i, history>>

App == InitEncoder \/ Feed \/ SetQuit \/ CancelWait \/ Join \/ Drain \/ CloseEncoder
-----------------------------------------------------------------------------
(* while (!m_quit) *)
Test ==
    /\ pc = "test"
    /\ pc' = IF quit THEN "ended" ELSE "front"
    /\ UNCHANGED <<m_queue, quit, enc, pkt, call, app, i, history>>

(* Queue::front, the first half of pop. *)
QueueFront ==
    /\ pc = "front"
    /\ pkt' = IF queue = <<>> THEN pkt ELSE queue[1]
    /\ pc' = IF queue # <<>> THEN "pop" ELSE IF cancel_wait THEN "ended" ELSE "wait"
    /\ UNCHANGED <<m_queue, quit, enc, call, app, i, history>>

(* A condition variable may wake its waiter for no reason. *)
SpuriousWakeup ==
    /\ pc = "wait"
    /\ pc' = "front"
    /\ UNCHANGED <<m_queue, quit, enc, pkt, call, app, i, history>>

(* The second half of pop takes the lock again. *)
Pop ==
    /\ pc = "pop"
    /\ queue' = Tail(queue)
    /\ pc' = "popped"
    /\ UNCHANGED <<cancel_wait, quit, enc, pkt, call, app, i, history>>

(* if (m_quit) break: the packet in hand is left behind. *)
TestPopped ==
    /\ pc = "popped"
    /\ pc' = IF quit THEN "ended" ELSE "encode"
    /\ UNCHANGED <<m_queue, quit, enc, pkt, call, app, i, history>>

\* Mutant: the loop on delayed frames does not look at m_quit.
DelayedUntilOutput(ret, delayed) == ret = 0 /\ delayed

(* The condition of the do loop: x264 keeps the picture and gives nothing. *)
EncodeAgain(ret, delayed) == ~quit /\ ret = 0 /\ delayed

(* x264_encoder_encode and encode_nals: ret is -1 when one of them fails,  *)
(* else whether there was output; a failure drops the packet.              *)
Encode(ret, delayed) ==
    /\ pc = "encode"
    /\ call' = 1 - call
    /\ pc' = IF ret < 0 THEN "free"
             ELSE IF EncodeAgain(ret, delayed) THEN "encode" ELSE "send"
    /\ UNCHANGED <<m_queue, quit, enc, pkt, app, i, history>>

SendVideo ==
    /\ pc = "send"
    /\ sent' = Append(sent, pkt)
    /\ pc' = "free"
    /\ UNCHANGED <<m_queue, quit, enc, pkt, call, app, i, fed, freed>>

\* Mutant: the packet is not deleted.
FreeNothing ==
    /\ pc = "free"
    /\ pkt' = NULL
    /\ pc' = "test"
    /\ UNCHANGED <<m_queue, quit, enc, call, app, i, history>>

(* cleanup: SAFE_DELETE(pkt) *)
Free ==
    /\ pc = "free"
    /\ freed' = Append(freed, pkt)
    /\ pkt' = NULL
    /\ pc' = "test"
    /\ UNCHANGED <<m_queue, quit, enc, call, app, i, fed, sent>>

EncodeAny == \E ret \in {-1, 0, 1}, delayed \in BOOLEAN : Encode(ret, delayed)
EncodeThread == \/ Test \/ QueueFront \/ Pop \/ TestPopped \/ EncodeAny
                \/ SendVideo \/ Free
-----------------------------------------------------------------------------
Next == App \/ EncodeThread \/ SpuriousWakeup

Spec == Init /\ [][Next]_vars

(* Both threads are scheduled; nobody has to feed or to close, but a       *)
(* destructor once entered goes on.                                        *)
Destructor == CancelWait \/ Join \/ Drain \/ CloseEncoder
FairSpec == Spec /\ WF_vars(EncodeThread) /\ WF_vars(Destructor)
-----------------------------------------------------------------------------
Frames == 1..MaxFrames

(* Every variable ranges over what the code can store in it. *)
TypeOK ==
    /\ queue \in Seq(Frames)
    /\ cancel_wait \in BOOLEAN /\ quit \in BOOLEAN
    /\ enc \in {"null", "open", "closed"}
    /\ pc \in {"test", "front", "wait", "pop", "popped", "encode", "send", "free", "ended"}
    /\ pkt \in 0..MaxFrames
    /\ call \in {0, 1}
    /\ app \in {"init", "feed", "quit", "cancel", "join", "drain", "closed"}
    /\ i \in 0..MaxFrames
    /\ fed \in 0..MaxFrames
    /\ freed \in Seq(Frames) /\ sent \in Seq(Frames)

(* The thread never sleeps on work or on a cancelled wait: push, which     *)
(* signals only for the first packet of an empty queue, and cancel_wait    *)
(* lose no wakeup.                                                         *)
NoSleepOnWork == pc = "wait" => queue = <<>> /\ ~cancel_wait

(* The packet in the encode thread's hands, until it is deleted. *)
Held == IF pkt = NULL \/ pc = "pop" THEN <<>> ELSE <<pkt>>

(* A packet is queued, held or deleted, in one place only, so that none is *)
(* deleted twice or used once deleted, and the queue splits them in order: *)
(* what was taken is older than what is left.                              *)
SingleOwner ==
    LET all == freed \o Held \o queue
    IN  /\ Len(all) = fed
        /\ ToSet(all) = 1..fed
        /\ quit \/ all = [k \in 1..fed |-> k]

(* send_video gets each frame at most once, and in the order of the feeds. *)
FramesInOrder == \A j, k \in DOMAIN sent : j < k => sent[j] < sent[k]

(* The encoder is used only between x264_encoder_open and                  *)
(* x264_encoder_close, although its thread starts before the one and runs  *)
(* on beside the destructor that does the other.                           *)
EncoderOpenWhenUsed == pc = "encode" => enc = "open"

(* What the destructor leaves undeleted: the younger half of the queue it  *)
(* found, rounded down, and a packet the thread popped before it saw       *)
(* m_quit; nothing else leaks.                                             *)
LeakedAtClose ==
    app = "closed" =>
        /\ Len(queue) \in {i - 1, i}
        /\ Len(freed) = fed - Len(queue) - Len(Held)
        /\ \A k \in DOMAIN queue : k + fed - Len(queue) = queue[k]

(* The destructor returns, whatever the thread was doing when it began and *)
(* however long x264 keeps pictures back.                                  *)
CloseReturns == app = "cancel" ~> app = "closed"
=============================================================================
