----------------------------- MODULE RtmpHandler -----------------------------
(***************************************************************************)
(* RtmpHandler::send_video and send_audio of jni/rtmp_handler.cpp on top   *)
(* of the JitterBuffer they feed: how encoder timestamps, which start      *)
(* again from 0 whenever an encoder is reopened, are rebased, when a       *)
(* configuration packet (avc_dcr, asc) precedes the data, and what becomes *)
(* of the packets when RTMP_SendPacket fails.  packet_cb also writes every *)
(* packet to the file of m_flvmuxer, which is taken to be opened.          *)
(*                                                                         *)
(* Calls do not overlap here: SharedJitterBuffer shows what overlapping    *)
(* ones do to the list.  A frame that an encoder fails to encode, that a   *)
(* raw parser rejects or for which there is no memory changes no variable: *)
(* the timestamps sent are any of an encoder's, and it need not be the     *)
(* first that comes first.                                                 *)
(***************************************************************************)
EXTENDS Integers, Sequences, SequencesExt

CONSTANTS
    Threshold,    \* NEW_STREAM_TIMESTAMP_THESHO
    ShiftLimit,   \* NEW_STREAM_TIMESTAMP_THESHO*30
    U32,          \* the modulus of uint32_t
    W24,          \* the modulus of the times in the file
    MaxDelta, Wrap, MaxPackets,   \* see JitterBuffer
    MaxTs,        \* bound on the timestamps an encoder produces
    MaxRestarts   \* bound on the times each encoder is reopened

ASSUME HandlerAssumption ==
    /\ {Threshold, ShiftLimit, MaxTs, MaxRestarts} \subseteq Nat
    /\ {U32, W24, Wrap} \subseteq Nat \ {0} /\ U32 > 1 /\ MaxTs < U32 /\ U32 % W24 = 0
    /\ {MaxDelta, MaxPackets} \subseteq Nat /\ U32 + MaxDelta <= Wrap

Stream == {"audio", "video"}
None == -1

VARIABLES
    lts, tm_offset, need_cfg,   \* m_ainfo and m_vinfo
    enc_ts,       \* the timestamp of each encoder's latest packet, if any
    restarts,     \* how often each encoder was reopened
    call,         \* the send_audio or send_video in progress
    packet_buffer, buffer_end, last_pktl, pc, added, out, ret, newest, monotone,
                  \* the JitterBuffer
    m_tm_offset, tags,          \* m_flvmuxer
    (* History, read by no action of the code: *)
    sent,         \* what was handed to add_packet, in order
    failed,       \* the packets whose RTMP_SendPacket failed
    epoch,        \* the audio encoder's runs, and the video runs noticed
    headless,     \* the epochs in which a run's first frame was lost
    back_shift    \* audio was moved back by a rebase

jitter == <<packet_buffer, buffer_end, last_pktl, pc, added, out, ret, newest, monotone>>
info == <<lts, tm_offset, need_cfg>>
file == <<m_tm_offset, tags>>
vars == <<lts, tm_offset, need_cfg, enc_ts, restarts, call, packet_buffer, buffer_end,
          last_pktl, pc, added, out, ret, newest, monotone, m_tm_offset, tags, sent,
          failed, epoch, headless, back_shift>>

J == INSTANCE JitterBuffer WITH Pts <- 0..(U32 - 1)
M == INSTANCE FlvMuxer

Idle == [on |-> "none", ts |-> 0, step |-> "idle"]
-----------------------------------------------------------------------------
Abs(x) == IF x < 0 THEN -x ELSE x

(* The timestamp last sent on each stream, and how far audio is ahead. *)
AbsTs(s) == lts[s] + tm_offset[s]
Shift == AbsTs("audio") - AbsTs("video")

(* A timestamp far behind the stream's last one starts a new stream. *)
NewStream(s, ts) == ts - lts[s] < -Threshold

\* Mutants: a new stream starts again at 0; its last timestamp is subtracted.
RebasedWithoutLast(s) ==
    IF Abs(Shift) > ShiftLimit THEN tm_offset
    ELSE IF Shift > 0 THEN [tm_offset EXCEPT !["video"] = @ + Shift]
    ELSE [tm_offset EXCEPT !["audio"] = @ + Shift]
RebasedBackByLast(s) ==
    LET aligned == IF Abs(Shift) > ShiftLimit THEN tm_offset
                   ELSE IF Shift > 0 THEN [tm_offset EXCEPT !["video"] = @ + Shift]
                   ELSE [tm_offset EXCEPT !["audio"] = @ + Shift]
    IN  [aligned EXCEPT ![s] = @ - lts[s]]

(* The offsets once stream s is rebased: the stream that is behind the     *)
(* other by the code's reckoning is shifted, and s continues from its last *)
(* timestamp.                                                              *)
Rebased(s) ==
    LET aligned == IF Abs(Shift) > ShiftLimit THEN tm_offset
                   ELSE IF Shift > 0 THEN [tm_offset EXCEPT !["video"] = @ + Shift]
                   ELSE [tm_offset EXCEPT !["audio"] = @ + Shift]
    IN  [aligned EXCEPT ![s] = @ + lts[s]]

OffsetFor(s, ts) == IF NewStream(s, ts) THEN Rebased(s) ELSE tm_offset

\* Mutant: a new stream does not ask for its configuration.
NeedCfgOnce(s, ts) == need_cfg[s]

NeedCfg(s, ts) == need_cfg[s] \/ NewStream(s, ts)

(* send_rtmp_pkt with a media packet: int32_t ts becomes uint32_t. *)
Put(s, t, cfg) ==
    /\ J!AddPacket(s, t % U32)
    /\ sent' = Append(sent, [type |-> s, cfg |-> cfg, ts |-> t, epoch |-> epoch'[s]])
-----------------------------------------------------------------------------
Init ==
    /\ lts = [s \in Stream |-> 0]
    /\ tm_offset = [s \in Stream |-> 0]
    /\ need_cfg = [s \in Stream |-> TRUE]
    /\ enc_ts = [s \in Stream |-> None]
    /\ restarts = [s \in Stream |-> 0]
    /\ call = Idle
    /\ J!Init
    /\ M!Init
    /\ sent = <<>>
    /\ failed = {}
    /\ epoch = [s \in Stream |-> 0]
    /\ headless = {}
    /\ back_shift = FALSE

(* An encoder is closed and opened again; its timestamps start from 0. *)
Restart(s) ==
    /\ call = Idle
    /\ restarts[s] < MaxRestarts
    /\ enc_ts[s] # None
    /\ restarts' = [restarts EXCEPT ![s] = @ + 1]
    /\ enc_ts' = [enc_ts EXCEPT ![s] = None]
    /\ epoch' = IF s = "audio" THEN [epoch EXCEPT ![s] = @ + 1] ELSE epoch
    /\ UNCHANGED <<info, call, jitter, file, sent, failed, headless, back_shift>>

(* The encoder's next packet is later than the one before; the first may   *)
(* be late as well, for the encoder's first frame, at 0, can be lost.      *)
Encoded(s, ts) ==
    /\ call = Idle
    /\ added + 2 <= MaxPackets
    /\ ts > enc_ts[s]
    /\ headless' = IF enc_ts[s] = None /\ ts # 0
                   THEN headless \cup {<<s, epoch'[s]>>} ELSE headless
    /\ enc_ts' = [enc_ts EXCEPT ![s] = ts]
    /\ back_shift' = (back_shift \/ OffsetFor(s, ts)["audio"] < tm_offset["audio"])
    /\ tm_offset' = OffsetFor(s, ts)

(* send_video: rebase when a new stream begins, then the avc_dcr packet    *)
(* with a key frame that needs it, else the data packet at once.  The      *)
(* encoder's first frame, at 0, is a key frame; sps_pps_changed tells      *)
(* whether its parameter sets differ from the previous ones.               *)
SendVideo(ts, key_frame, sps_pps_changed) ==
    /\ epoch' = [epoch EXCEPT !["video"] = IF NewStream("video", ts) THEN @ + 1 ELSE @]
    /\ Encoded("video", ts)
    /\ ts = 0 => key_frame
    /\ LET cfg == key_frame /\ (NeedCfg("video", ts) \/ sps_pps_changed)
       IN  /\ call' = [on |-> "video", ts |-> ts, step |-> IF cfg THEN "cfg" ELSE "data"]
           /\ lts' = IF cfg THEN lts ELSE [lts EXCEPT !["video"] = ts]
           /\ Put("video", ts + tm_offset'["video"], cfg)
    /\ need_cfg' = [need_cfg EXCEPT !["video"] = NeedCfg("video", ts)]
    /\ UNCHANGED <<restarts, file, failed>>

(* send_audio: the asc packet precedes the first frame, one that needs it, *)
(* and any frame at 0.                                                     *)
SendAudio(ts) ==
    /\ epoch' = epoch
    /\ Encoded("audio", ts)
    /\ LET cfg == ts = 0 \/ NeedCfg("audio", ts)
       IN  /\ call' = [on |-> "audio", ts |-> ts, step |-> IF cfg THEN "cfg" ELSE "data"]
           /\ lts' = IF cfg THEN lts ELSE [lts EXCEPT !["audio"] = ts]
           /\ Put("audio", ts + tm_offset'["audio"], cfg)
    /\ UNCHANGED <<need_cfg, restarts, file, failed>>

(* The config packet's add_packet returned 0, which is all send_rtmp_pkt   *)
(* reports: the flag is reset and the data packet follows.                 *)
AfterConfig ==
    /\ call.step = "cfg" /\ pc = "idle"
    /\ need_cfg' = [need_cfg EXCEPT ![call.on] = FALSE]
    /\ lts' = [lts EXCEPT ![call.on] = call.ts]
    /\ epoch' = epoch
    /\ Put(call.on, call.ts + tm_offset[call.on], FALSE)
    /\ call' = [call EXCEPT !.step = "data"]
    /\ UNCHANGED <<tm_offset, enc_ts, restarts, file, failed, headless, back_shift>>

AfterData ==
    /\ call.step = "data" /\ pc = "idle"
    /\ call' = Idle
    /\ UNCHANGED <<info, enc_ts, restarts, jitter, file, sent, failed, epoch, headless, back_shift>>

(* write_tag's int of a uint32_t. *)
AsInt(pts) == IF pts < U32 \div 2 THEN pts ELSE pts - U32

(* add_packet gives the head of its list to packet_cb, which writes it to  *)
(* the file and sends it.                                                  *)
PacketCb(ok) ==
    /\ J!FlushHead(ok)
    /\ M!write_tag(AsInt(packet_buffer[1].pts))
    /\ failed' = IF ok THEN failed ELSE failed \cup {packet_buffer[1].id}
    /\ UNCHANGED <<info, enc_ts, restarts, call, sent, epoch, headless, back_shift>>

AddPacketReturns ==
    /\ J!Return
    /\ UNCHANGED <<info, enc_ts, restarts, call, file, sent, failed, epoch, headless,
                   back_shift>>

Next ==
    \/ \E s \in Stream : Restart(s)
    \/ \E ts \in 0..MaxTs :
          \/ SendAudio(ts)
          \/ \E key_frame, sps_pps_changed \in BOOLEAN :
                SendVideo(ts, key_frame, sps_pps_changed)
    \/ AfterConfig \/ AfterData
    \/ \E ok \in BOOLEAN : PacketCb(ok)
    \/ AddPacketReturns

Spec == Init /\ [][Next]_vars
-----------------------------------------------------------------------------
(* What the server receives of a stream begins with its configuration: no  *)
(* data packet is given to packet_cb before the asc packet of its encoder  *)
(* run, or the avc_dcr packet of its video stream.  A run whose first      *)
(* frame was lost may do without: the asc packet goes with a frame at 0    *)
(* and the avc_dcr packet with a key frame.                                *)
ConfigBeforeData ==
    \A i \in DOMAIN out :
        LET p == sent[out[i].id]
        IN  ~p.cfg /\ <<p.type, p.epoch>> \notin headless =>
                \E j \in 1..(i - 1) : /\ sent[out[j].id].cfg
                                      /\ out[j].type = out[i].type
                                      /\ sent[out[j].id].epoch = p.epoch

(* Video never goes back by more than the threshold of rtmp_handler.cpp    *)
(* below which a restart goes unnoticed, whatever either encoder does.     *)
IsVideo(i) == sent[i].type = "video"
VideoNeverFarBack ==
    \A i, j \in DOMAIN sent :
        /\ i < j /\ IsVideo(i) /\ IsVideo(j)
        /\ \A k \in i + 1..j - 1 : ~IsVideo(k)
        => sent[j].ts >= sent[i].ts - Threshold

(* A timestamp that is negative as an int32_t, and so wraps to a huge      *)
(* uint32_t, is an audio one, and only after a rebase has moved audio      *)
(* back.                                                                   *)
WrapsOnlyAfterBackShift ==
    \A i \in DOMAIN sent : sent[i].ts < 0 => sent[i].type = "audio" /\ back_shift

(* The file has the times of the stream, whatever is restarted, rebased or *)
(* not sent.  While no run lost its first frame, the first packet given to *)
(* packet_cb is at 0 and no time is shifted by m_tm_offset; else all are   *)
(* by the first packet's, but for one at 1, whose offset of -1 reads as    *)
(* none.                                                                   *)
FileHasStreamTimes ==
    /\ headless = {} => \A i \in DOMAIN out : tags[i] = out[i].pts % W24
    /\ \A i \in DOMAIN out :
          out[1].pts # 1 => tags[i] = (out[i].pts - out[1].pts) % W24

(* "If asc-pkt is successfully sent, reset the flag" (rtmp_handler.cpp:    *)
(* 318): when the flag is reset no send of the latest asc packet failed.   *)
AscResetMeansSent ==
    ~need_cfg["audio"] =>
        LET i == SelectLastInSeq(sent, LAMBDA p : p.type = "audio" /\ p.cfg)
        IN  i \notin failed
=============================================================================
