----------------------------- MODULE AudioEncoder -----------------------------
(***************************************************************************)
(* One AudioEncoder object of jni/audio_encoder.cpp after init succeeded:  *)
(* the thread that encodes, the recorder's thread, whose callbacks call    *)
(* sendRawAudio (FQRtmpPusher.onPeriodicNotification), and the thread that *)
(* stops the recorder and then destroys the encoder                        *)
(* (FQRtmpPusher.stopRecordingAudio).  m_mutex and m_cond are modelled     *)
(* step by step, for the destructor sets m_quit and signals without the    *)
(* mutex, and sendRawAudio looks at gfq.audio_enc without any.             *)
(*                                                                         *)
(* m_iobuf is the number of bytes it holds, in a unit of our choice.       *)
(***************************************************************************)
EXTENDS Integers, Sequences

CONSTANTS
    InputSize,    \* input_size: what one call of the encoder consumes
    FeedSizes,    \* what one callback of the recorder may deliver, if it reads any
    PtsIncr,      \* m_info.frameLength * 1000
    Samplerate,   \* m_samplerate
    MaxFeeds      \* bound on the feeds

ASSUME SizesAssumption == InputSize \in Nat \ {0} /\ FeedSizes \subseteq Nat
ASSUME PtsAssumption == PtsIncr \in Nat /\ Samplerate \in Nat \ {0}
ASSUME FeedsAssumption == MaxFeeds \in Nat

VARIABLES
    available,    \* GETAVAILABLEBYTESCOUNT(*m_iobuf)
    quit,         \* m_quit
    holder,       \* who holds m_mutex: "none", "encoder" or "recorder"
    m_pts,        \* the Frac of the next packet's timestamp
    object,       \* "alive", "deleted", or "cleared": gfq.audio_enc is NULL
    listening,    \* the recorder has a position update listener
    pc, rec, closer,   \* the three threads' control points
    fault,        \* a deleted encoder was used, or an error code was fed
    (* History, read by no action of the code: *)
    feeds,        \* the number of feeds so far
    sent,         \* the timestamps given to send_audio, in order
    lost,         \* the destructor's signal came between test and wait
    overlap,      \* a callback was in progress when the listener was removed
    misfed        \* AudioRecord.read's error code was given for a length

encoding == <<available, quit, holder, m_pts>>
control == <<pc, rec, closer>>
history == <<feeds, sent, lost, overlap, misfed>>
vars == <<available, quit, holder, m_pts, object, listening, pc, rec, closer,
          fault, feeds, sent, lost, overlap, misfed>>
-----------------------------------------------------------------------------
(* frac_init and frac_add of jni/xutil/xutil.cpp, for a positive increment: *)
(* val + num / den, rounded to nearest by the initial num of den / 2.       *)
FracInit(den) == LET num == den \div 2
                 IN  IF num >= den THEN [val |-> num \div den, num |-> num % den]
                     ELSE [val |-> 0, num |-> num]

\* Mutant: the remainder is dropped.
FracAddTruncated(f, incr) == [f EXCEPT !.val = @ + (f.num + incr) \div Samplerate]

FracAdd(f, incr) == [val |-> f.val + (f.num + incr) \div Samplerate,
                     num |-> (f.num + incr) % Samplerate]
-----------------------------------------------------------------------------
Init ==
    /\ available = 0 /\ quit = FALSE /\ holder = "none"
    /\ m_pts = FracInit(Samplerate)
    /\ object = "alive" /\ listening = TRUE
    /\ pc = "test" /\ rec = "idle" /\ closer = "open"
    /\ fault = FALSE
    /\ feeds = 0 /\ sent = <<>> /\ lost = FALSE /\ overlap = FALSE
    /\ misfed = FALSE

(* while (!m_quit) *)
Test ==
    /\ pc = "test"
    /\ pc' = IF quit THEN "ended" ELSE "lock"
    /\ UNCHANGED <<encoding, object, listening, rec, closer, fault, history>>

Lock ==
    /\ pc = "lock"
    /\ holder = "none"
    /\ holder' = "encoder"
    /\ pc' = "check"
    /\ UNCHANGED <<available, quit, m_pts, object, listening, rec, closer, fault, history>>

\* Mutant: the mutex is given back before the wait begins.
CheckSleepUnlocked ==
    /\ pc = "check" /\ ~quit /\ available < InputSize
    /\ holder' = "none"
    /\ pc' = "sleep"
    /\ UNCHANGED <<available, quit, m_pts, object, listening, rec, closer, fault, history>>

(* The condition of the waiting loop, and what follows when it is false:   *)
(* leaving at m_quit, or taking a frame's bytes.                           *)
CheckSleep ==
    /\ pc = "check" /\ ~quit /\ available < InputSize
    /\ pc' = "sleep"
    /\ UNCHANGED <<encoding, object, listening, rec, closer, fault, history>>

CheckQuit ==
    /\ pc = "check" /\ quit
    /\ holder' = "none"
    /\ pc' = "ended"
    /\ UNCHANGED <<available, quit, m_pts, object, listening, rec, closer, fault, history>>

Take ==
    /\ pc = "check" /\ ~quit /\ available >= InputSize
    /\ available' = available - InputSize
    /\ holder' = "none"
    /\ pc' = "encode"
    /\ UNCHANGED <<quit, m_pts, object, listening, rec, closer, fault, history>>

(* m_cond.wait() gives the mutex back and sleeps in one step. *)
Sleep ==
    /\ pc = "sleep"
    /\ holder' = "none"
    /\ pc' = "wait"
    /\ UNCHANGED <<available, quit, m_pts, object, listening, rec, closer, fault, history>>

SpuriousWakeup ==
    /\ pc = "wait"
    /\ pc' = "lock"
    /\ UNCHANGED <<encoding, object, listening, rec, closer, fault, history>>

(* aacEncEncode: an error or the end of the stream ends the thread, and it *)
(* may take input without giving output.                                   *)
Encode ==
    /\ pc = "encode"
    /\ pc' \in {"ended", "test", "send"}
    /\ UNCHANGED <<encoding, object, listening, rec, closer, fault, history>>

SendAudio ==
    /\ pc = "send"
    /\ sent' = Append(sent, m_pts.val)
    /\ m_pts' = FracAdd(m_pts, PtsIncr)
    /\ pc' = "test"
    /\ UNCHANGED <<available, quit, holder, object, listening, rec, closer, fault,
                   feeds, lost, overlap, misfed>>

EncodeThread == Test \/ Lock \/ CheckSleep \/ CheckQuit \/ Take \/ Sleep \/ Encode \/ SendAudio
-----------------------------------------------------------------------------
\* Mutant: the listener is not removed.
CallbackUnheard ==
    /\ rec = "idle"
    /\ feeds < MaxFeeds
    /\ rec' = "read"
    /\ UNCHANGED <<encoding, object, listening, pc, closer, fault, history>>

(* onPeriodicNotification begins: it reads from the AudioRecord. *)
Callback ==
    /\ rec = "idle"
    /\ listening
    /\ feeds < MaxFeeds
    /\ rec' = "read"
    /\ UNCHANGED <<encoding, object, listening, pc, closer, fault, history>>

(* sendRawAudio looks at gfq.audio_enc; quit() of a deleted one is a use   *)
(* after free.                                                             *)
SendRawAudio ==
    /\ rec = "read"
    /\ fault' = (object = "deleted")
    /\ rec' = IF object # "cleared" /\ ~quit THEN "feed" ELSE "idle"
    /\ UNCHANGED <<encoding, object, listening, pc, closer, history>>

(* AudioEncoder::feed locks the mutex ... *)
FeedLock ==
    /\ rec = "feed"
    /\ \/ object # "alive" /\ fault' = TRUE /\ UNCHANGED <<holder, rec>>
       \/ /\ object = "alive" /\ holder = "none"
          /\ holder' = "recorder" /\ rec' = "feeding" /\ UNCHANGED fault
    /\ UNCHANGED <<available, quit, m_pts, object, listening, pc, closer, history>>

(* What AudioRecord.read gives when it fails.  Its codes are negative and  *)
(* nothing on the way to m_iobuf looks at them.                            *)
ERROR == -1

(* ... and fills the buffer and signals.  A negative length is one that    *)
(* IOBuffer cannot survive: see ReadFromBuffer there.                      *)
FeedBuffer(len) ==
    /\ rec = "feeding"
    /\ \/ /\ object # "alive" \/ len < 0
          /\ fault' = TRUE
          /\ misfed' = (object = "alive")
          /\ UNCHANGED <<available, holder, pc, rec, feeds>>
       \/ /\ object = "alive" /\ len >= 0
          /\ available' = available + len
          /\ pc' = IF pc = "wait" THEN "lock" ELSE pc
          /\ holder' = "none"
          /\ rec' = "idle"
          /\ feeds' = feeds + 1
          /\ UNCHANGED <<fault, misfed>>
    /\ UNCHANGED <<quit, m_pts, object, listening, closer, sent, lost, overlap>>

Recorder == SendRawAudio \/ FeedLock \/ \E len \in FeedSizes \cup {ERROR} : FeedBuffer(len)
-----------------------------------------------------------------------------
(* stopRecordingAudio: no further callback begins.  The one in progress is *)
(* not waited for.                                                         *)
StopRecorder ==
    /\ closer = "open"
    /\ listening' = FALSE
    /\ overlap' = (rec # "idle")
    /\ closer' = "quit"
    /\ UNCHANGED <<encoding, object, pc, rec, fault, feeds, sent, lost, misfed>>

(* The destructor: m_quit = true; m_cond.signal(); join; delete. *)
SetQuit ==
    /\ closer = "quit"
    /\ quit' = TRUE
    /\ closer' = "signal"
    /\ UNCHANGED <<available, holder, m_pts, object, listening, pc, rec, fault, history>>

\* Mutant: the destructor does not signal.
SignalNobody ==
    /\ closer = "signal"
    /\ lost' = FALSE
    /\ closer' = "join"
    /\ UNCHANGED <<encoding, object, listening, pc, rec, fault, feeds, sent, overlap, misfed>>

Signal ==
    /\ closer = "signal"
    /\ pc' = IF pc = "wait" THEN "lock" ELSE pc
    /\ lost' = (pc = "sleep")
    /\ closer' = "join"
    /\ UNCHANGED <<encoding, object, listening, rec, fault, feeds, sent, overlap, misfed>>

Join ==
    /\ closer = "join"
    /\ pc = "ended"
    /\ closer' = "delete"
    /\ UNCHANGED <<encoding, object, listening, pc, rec, fault, history>>

Delete ==
    /\ closer = "delete"
    /\ object' = "deleted"
    /\ closer' = "clear"
    /\ UNCHANGED <<encoding, listening, pc, rec, fault, history>>

Clear ==
    /\ closer = "clear"
    /\ object' = "cleared"
    /\ closer' = "closed"
    /\ UNCHANGED <<encoding, listening, pc, rec, fault, history>>

Destructor == Signal \/ Join \/ Delete \/ Clear

Next ==
    /\ ~fault
    /\ EncodeThread \/ SpuriousWakeup \/ Callback \/ Recorder \/ StopRecorder
       \/ SetQuit \/ Destructor

Spec == Init /\ [][Next]_vars

(* The threads are scheduled.  No recording has to go on or to end, but a  *)
(* destructor once entered goes on.  A spurious wakeup need not happen.    *)
FairSpec == /\ Spec
            /\ WF_vars(~fault /\ EncodeThread)
            /\ WF_vars(~fault /\ Recorder)
            /\ WF_vars(~fault /\ (SetQuit \/ Destructor))
-----------------------------------------------------------------------------
(* Every variable ranges over what the code can store in it. *)
TypeOK ==
    /\ available \in Nat
    /\ quit \in BOOLEAN
    /\ holder \in {"none", "encoder", "recorder"}
    /\ m_pts \in [val : Nat, num : 0..(Samplerate - 1)]
    /\ object \in {"alive", "deleted", "cleared"}
    /\ listening \in BOOLEAN
    /\ pc \in {"test", "lock", "check", "sleep", "wait", "encode", "send", "ended"}
    /\ rec \in {"idle", "read", "feed", "feeding"}
    /\ closer \in {"open", "quit", "signal", "join", "delete", "clear", "closed"}
    /\ feeds \in 0..MaxFeeds
    /\ sent \in Seq(Nat)
    /\ {fault, lost, overlap, misfed} \subseteq BOOLEAN

(* The thread never sleeps on a whole frame: feed fills the buffer and     *)
(* signals under the mutex, and so loses no wakeup.                        *)
NoSleepOnInput == pc = "wait" => available < InputSize

(* The destructor waits for a thread that sleeps only when its signal, for *)
(* which it does not take the mutex, fell between the thread's test of     *)
(* m_quit and its wait.  Nothing but a feed still in progress or a         *)
(* spurious wakeup ends that wait.                                         *)
StuckOnlyBySignalLost == closer = "join" /\ pc = "wait" => lost

(* The destructor does not wait for the recorder's thread, yet only a      *)
(* callback that was in progress when the listener was removed can meet a  *)
(* deleted encoder: when there was none, close is safe to the end.  What   *)
(* else ends the process is a read that failed, whose error code is fed.   *)
FaultOnlyAfterOverlap == fault => overlap \/ misfed

(* Timestamps do not drift: packet k, from 0, carries the duration of the  *)
(* k frames before it in milliseconds, rounded to the nearest, however     *)
(* many remainders were carried.                                           *)
PtsExact ==
    \A k \in DOMAIN sent :
        sent[k] = ((k - 1) * PtsIncr + Samplerate \div 2) \div Samplerate

(* Unless its signal was lost, or a callback brought the process down, the *)
(* destructor returns.                                                     *)
CloseReturns ==
    closer = "signal" ~> closer = "closed" \/ fault \/ (lost /\ pc = "wait")

=============================================================================
