----------------------------- MODULE RacingSends -----------------------------
(***************************************************************************)
(* The timestamps of jni/rtmp_handler.cpp with both encoder threads at     *)
(* once: send_video and send_audio rebase a stream that starts again by    *)
(* reading and writing the other one's DataInfo outside m_mutex, one       *)
(* int32_t at a time.  The compiler may keep an offset it has read in a    *)
(* register or read it again, and may order the reads as it likes.         *)
(*                                                                         *)
(* RtmpHandler has the same calls one after another, and what they put     *)
(* into the list; a send is here the timestamp it is given.                *)
(***************************************************************************)
EXTENDS Integers

CONSTANTS Threshold, ShiftLimit, MaxTs, MaxRestarts   \* see RtmpHandler

ASSUME RacingAssumption == {Threshold, ShiftLimit, MaxTs, MaxRestarts} \subseteq Nat

Stream == {"audio", "video"}
None == -1

VARIABLES
    lts, tm_offset, need_cfg,   \* m_ainfo and m_vinfo
    enc_ts, restarts,           \* see RtmpHandler
    sending,                       \* each thread's sending of send_audio or send_video
    (* History, read by no action of the code: *)
    last,       \* the timestamp last sent on each stream
    high,       \* the highest timestamp either stream has reached
    two_rebase, \* both threads were rebasing at once
    crossed     \* one thread wrote to its DataInfo or the other's during the
                \* other's rebase

shared == <<lts, tm_offset, need_cfg>>
sendsVars == <<lts, tm_offset, need_cfg, enc_ts, restarts, sending,
               last, high, two_rebase, crossed>>

NotSending == [pc |-> "idle", ts |-> 0, new |-> FALSE, cfg |-> FALSE,
         seen |-> <<>>, shift |-> 0, base |-> 0]

(* The fields a rebase reads. *)
Field == Stream \X {"lts", "offset"}
Value(f) == IF f[2] = "lts" THEN lts[f[1]] ELSE tm_offset[f[1]]

Rebasing(s) == sending[s].new /\ sending[s].pc \notin {"send", "idle"}
-----------------------------------------------------------------------------
Abs(x) == IF x < 0 THEN -x ELSE x
Later(x, y) == IF x > y THEN x ELSE y

NewStream(s, ts) == ts - lts[s] < -Threshold

\* Mutant: the last timestamps are compared as the encoders gave them.
ShiftWithoutOffsets(seen) == seen[<<"audio", "lts">>] - seen[<<"video", "lts">>]

(* How far audio is ahead, by what the thread has read. *)
Shift(seen) == seen[<<"audio", "lts">>] + seen[<<"audio", "offset">>]
               - (seen[<<"video", "lts">>] + seen[<<"video", "offset">>])

(* The stream that is behind by the code's reckoning. *)
Behind(shift) == IF shift > 0 THEN "video" ELSE "audio"

Step(s, c) == /\ sending' = [sending EXCEPT ![s] = c]
              /\ two_rebase' = (two_rebase \/ \A t \in Stream : Rebasing(t)')
              /\ crossed' = (crossed \/ \E t \in Stream \ {s} :
                    Rebasing(t) /\ <<lts', tm_offset'>> # <<lts, tm_offset>>)

AfterRebase(c) == IF c.cfg THEN "cfg" ELSE "lts"
-----------------------------------------------------------------------------
SendsInit ==
    /\ lts = [s \in Stream |-> 0]
    /\ tm_offset = [s \in Stream |-> 0]
    /\ need_cfg = [s \in Stream |-> TRUE]
    /\ enc_ts = [s \in Stream |-> None]
    /\ restarts = [s \in Stream |-> 0]
    /\ sending = [s \in Stream |-> NotSending]
    /\ last = [s \in Stream |-> 0]
    /\ high = 0
    /\ two_rebase = FALSE
    /\ crossed = FALSE

Restart(s) ==
    /\ sending[s] = NotSending /\ restarts[s] < MaxRestarts /\ enc_ts[s] # None
    /\ restarts' = [restarts EXCEPT ![s] = @ + 1]
    /\ enc_ts' = [enc_ts EXCEPT ![s] = None]
    /\ UNCHANGED <<shared, sending, last, high, two_rebase, crossed>>

(* send_video or send_audio of a packet with timestamp ts, up to the test  *)
(* for a new stream. *)
Send(s, ts, key_frame, sps_pps_changed) ==
    /\ sending[s] = NotSending
    /\ IF enc_ts[s] = None THEN ts = 0 /\ key_frame ELSE ts > enc_ts[s]
    /\ enc_ts' = [enc_ts EXCEPT ![s] = ts]
    /\ UNCHANGED <<lts, tm_offset, restarts, last, high>>
    /\ LET new == NewStream(s, ts)
           cfg == IF s = "video" THEN key_frame /\ (need_cfg[s] \/ new \/ sps_pps_changed)
                  ELSE ts = 0 \/ new \/ need_cfg[s]
           c == [NotSending EXCEPT !.ts = ts, !.new = new, !.cfg = cfg]
       IN  Step(s, [c EXCEPT !.pc = IF new THEN "read" ELSE AfterRebase(c)])
    /\ need_cfg' = [need_cfg EXCEPT ![s] = @ \/ (s = "video" /\ NewStream(s, ts))]

Read(s, f) ==
    /\ sending[s].pc = "read" /\ f \notin DOMAIN sending[s].seen
    /\ UNCHANGED <<shared, enc_ts, restarts, last, high>>
    /\ LET seen == [g \in DOMAIN sending[s].seen \cup {f} |->
                       IF g = f THEN Value(f) ELSE sending[s].seen[g]]
       IN  Step(s, [sending[s] EXCEPT !.seen = seen,
                                   !.pc = IF DOMAIN seen = Field THEN "align" ELSE "read"])

(* The shift is computed, and the offset it goes to fetched. *)
Align(s, reread) ==
    /\ sending[s].pc = "align"
    /\ UNCHANGED <<shared, enc_ts, restarts, last, high>>
    /\ LET shift == Shift(sending[s].seen)
           base == IF reread THEN tm_offset[Behind(shift)]
                   ELSE sending[s].seen[<<Behind(shift), "offset">>]
       IN  Step(s, IF Abs(shift) > ShiftLimit
                   THEN [sending[s] EXCEPT !.pc = "add"]
                   ELSE [sending[s] EXCEPT !.pc = "align_write", !.shift = shift,
                                        !.base = base])

AlignWrite(s) ==
    /\ sending[s].pc = "align_write"
    /\ UNCHANGED <<lts, need_cfg, enc_ts, restarts, last, high>>
    /\ LET t == Behind(sending[s].shift)
           offset == sending[s].base + sending[s].shift
       IN  /\ tm_offset' = [tm_offset EXCEPT ![t] = offset]
           /\ Step(s, [sending[s] EXCEPT !.pc = "add", !.seen[<<t, "offset">>] = offset])

(* The stream's own offset is fetched. *)
Add(s, reread) ==
    /\ sending[s].pc = "add"
    /\ UNCHANGED <<shared, enc_ts, restarts, last, high>>
    /\ Step(s, [sending[s] EXCEPT !.pc = "add_write", !.seen = <<>>, !.shift = 0,
                    !.base = IF reread THEN tm_offset[s] ELSE sending[s].seen[<<s, "offset">>]])

\* Mutant: the timestamp that begins the stream is added, not the one that ended.
AddWriteNew(s) ==
    /\ sending[s].pc = "add_write"
    /\ tm_offset' = [tm_offset EXCEPT ![s] = sending[s].base + sending[s].ts]
    /\ UNCHANGED <<lts, need_cfg, enc_ts, restarts, last, high>>
    /\ Step(s, [sending[s] EXCEPT !.pc = AfterRebase(sending[s]), !.base = 0])

AddWrite(s) ==
    /\ sending[s].pc = "add_write"
    /\ tm_offset' = [tm_offset EXCEPT ![s] = sending[s].base + lts[s]]
    /\ UNCHANGED <<lts, need_cfg, enc_ts, restarts, last, high>>
    /\ Step(s, [sending[s] EXCEPT !.pc = AfterRebase(sending[s]), !.base = 0])

(* The configuration packet, which goes out before the lock is taken. *)
SendConfig(s) ==
    /\ sending[s].pc = "cfg"
    /\ last' = [last EXCEPT ![s] = sending[s].ts + tm_offset[s]]
    /\ need_cfg' = [need_cfg EXCEPT ![s] = FALSE]
    /\ UNCHANGED <<lts, tm_offset, enc_ts, restarts, high>>
    /\ Step(s, [sending[s] EXCEPT !.pc = "lts"])

WriteLts(s) ==
    /\ sending[s].pc = "lts"
    /\ lts' = [lts EXCEPT ![s] = sending[s].ts]
    /\ high' = Later(high, sending[s].ts + tm_offset[s])
    /\ UNCHANGED <<tm_offset, need_cfg, enc_ts, restarts, last>>
    /\ Step(s, [sending[s] EXCEPT !.pc = "send"])

(* The data packet, under m_mutex. *)
SendData(s) ==
    /\ sending[s].pc = "send"
    /\ last' = [last EXCEPT ![s] = sending[s].ts + tm_offset[s]]
    /\ high' = Later(high, sending[s].ts + tm_offset[s])
    /\ UNCHANGED <<lts, tm_offset, need_cfg, enc_ts, restarts>>
    /\ Step(s, NotSending)

SendsNext == \E s \in Stream :
    \/ Restart(s)
    \/ \E ts \in 0..MaxTs, key_frame, sps_pps_changed \in BOOLEAN :
          Send(s, ts, key_frame, sps_pps_changed)
    \/ \E f \in Field : Read(s, f)
    \/ \E reread \in BOOLEAN : Align(s, reread) \/ Add(s, reread)
    \/ AlignWrite(s) \/ AddWrite(s) \/ SendConfig(s) \/ WriteLts(s) \/ SendData(s)

SendsSpec == SendsInit /\ [][SendsNext]_sendsVars
-----------------------------------------------------------------------------
(* However a rebase races with the other thread's sends, video goes back   *)
(* by more than the threshold only once both threads rebased at the same   *)
(* time, and one lost what the other had added.                            *)
FarBackNeedsOverlap ==
    [][last'["video"] < last["video"] - Threshold => two_rebase]_sendsVars

(* A new video stream starts neither before the last video packet nor      *)
(* after everything that was sent, unless a rebase, its own or an earlier  *)
(* one, read a last timestamp or an offset that the other thread was about *)
(* to change.                                                              *)
StartsWithinUnlessCrossed ==
    [][sending["video"].new /\ last'["video"] # last["video"] =>
          crossed \/ last'["video"] \in last["video"]..Later(high, last["video"])]_sendsVars
=============================================================================
