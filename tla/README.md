# fqrtmpplayer: specification and proofs

TLA+ models of fqrtmpplayer, an Android application that records camera and
microphone, encodes with x264 and fdk-aac, and sends the result to an RTMP
server, or plays a url through a service around libvlc.  TLC checks the models on
small instances; TLAPS proves the core properties for every value of the constants.

Paths are relative to `src/player-android/`; `jni/` is the native library,
`fqrtmpplayer/` stands for `src/com/dxyh/fqrtmpplayer/`.

## 1. The system

    camera callback --sendRawVideo--> VideoEncoder.feed --Queue--> encode thread --send_video--+
                                                                                               |
                                                                                  RtmpHandler + JitterBuffer --packet_cb--> FLV file, RTMP
                                                                                               |
    recorder callback --sendRawAudio-> AudioEncoder.feed -IOBuffer-> encode thread --send_audio-+

| Component | State | Operations | What is hard | What makes it correct |
|---|---|---|---|---|
| JitterBuffer (`jni/jitter_buffer.cpp`) | one linked list, its end, the last node of each stream | `add_packet`: link by timestamp, then flush the head while every stream has a packet or the span is too long | pointers into a list whose nodes are deleted; unsigned span; failing callback; two threads | pointers never dangle; per-stream FIFO; merged order; nothing lost; bounded holding |
| RtmpHandler (`jni/rtmp_handler.cpp`) | per stream `lts`, `tm_offset`, `need_cfg`; memory pool; mutex; RTMP session | `connect`, `disconnect`, `send_video`, `send_audio`, `packet_cb` | restarts of an encoder begin again at timestamp 0; configuration before data; the mutex covers data packets only; failures swallowed | time goes on across restarts; configuration first; no fault in the shared list |
| VideoEncoder (`jni/video_encoder.cpp`) | queue of raw frames, `m_quit`, x264, frame rate control | open, `feed`, `encode_routine`, close | thread started before `init`; close against a sleeping or encoding thread; who deletes a packet | no lost wakeup; close returns; each frame encoded at most once and in order |
| Queue (`jni/xutil/xqueue.h`) | `std::queue`, `m_cancel_wait`, mutex, condition | push, front, pop, size, cancel_wait | pop is two critical sections; signal only when the size becomes 1 | a sleeper has nothing to do |
| AudioEncoder (`jni/audio_encoder.cpp`) | IOBuffer, `m_quit`, mutex, condition, `m_pts` | open, `feed`, `encode_routine`, close | destructor signals without the mutex; feed races with deletion; milliseconds per frame are a fraction | no lost wakeup on feed; when close can hang; no drift |
| IOBuffer, MemHolder, Frac (`jni/xutil/xutil.cpp`) | buffer with `published`, `consumed`, `size`; one shared block; a fraction | ensure_size, move_data, read_from_buffer, ignore, recycle; alloc; frac_add | boundary arithmetic; a signed length taken for an unsigned one; a pool shared by two threads | IOBuffer is a byte queue; the remainder is kept |
| Raw parsers (`jni/raw_parser.cpp`) | NAL units found, SPS and PPS, asc | `process` | boundaries of start codes | every NAL unit once; change of SPS/PPS noticed |
| FLVMuxer (`jni/flv_muxer.cpp`) | file, timestamp offset | `write_tag` | sentinel offset, truncation of timestamps | the file has the times of the stream |
| JNI layer (`jni/libfqrtmpjni.cpp`, `libfqrtmp_events.cpp`) | `gfq`: encoders, handler, weak reference | nativeNew, nativeRelease, open/close/send | failing connect leaves a handler without session; events reach a dead object | objects are used between open and close only |
| FQRtmpPusher, LibFQRtmp, MainActivity | flags (`mPausing`, `mPreviewing`, `mServerConnected`, ...), recorder, camera | process, onResume, onPause, close, startPreview, switchCameraId, handler messages | start of recording on a pool thread against pause and close on the main thread; error messages that arrive late; views of a layout that was replaced | every open has its close; nothing runs after close |
| CameraHolder (`fqrtmpplayer/camera/`) | device, users, keep-until time, delayed release message | open, release, keep, handleMessage | pushers that close, resume and replace each other share it; `keep`, and with it the delayed message, is never used | its assertions hold: one user at a time |
| Player (`PlayerService`, `FQRtmpPlayer`, `VLCPlayer`) | service connection, libvlc player | bind, prepare, start, stop, release, events | asynchronous binding, close before connected, death of the service between two calls, exceptions the activity does not catch, callbacks on libvlc's thread | what plays is the open player's; a closed one is unbound |
| Vendored: libyuv, librtmp, x264, fdk-aac, libvlc | | | | external |

The repository has no tests; its statements about itself are the assertions and
the comments, and the two findings below quote those.

## 2. Modules

| Module | Models | Proofs |
|---|---|---|
| `PacketMerge` | what the buffer promises: a merge of the streams' queues | |
| `JitterBuffer` | the buffer used by one call at a time; implements `PacketMerge` | `JitterBuffer_proofs` |
| `SharedJitterBuffer` | the same list pointer by pointer, with two sending threads and `m_mutex`; implements `JitterBuffer` | `SharedJitterBuffer_proofs` |
| `RtmpHandler` | `send_video`/`send_audio` and `packet_cb`, composed with `JitterBuffer` and `FlvMuxer` through `INSTANCE` | `RtmpHandler_proofs` |
| `RacingSends` | the timestamps of `send_video`/`send_audio` with both threads at once, read and written one field at a time | `VideoPath_proofs` |
| `MemPool` | the block both sends allocate from, one of them outside the mutex | `VideoPath_proofs` |
| `VideoParser` | from x264's bytes to NAL units, the packet body and the avc_dcr | `VideoPath_proofs` |
| `FlvMuxer` | the times of the tags in the file, a part of `RtmpHandler` | |
| `ByteQueue` | what an IOBuffer promises | |
| `IOBuffer` | the buffer cell by cell; implements `ByteQueue` | `AudioPath_proofs` |
| `VideoEncoder` | one encoder object, its queue, its thread, the thread that feeds and destroys it | `VideoEncoder_proofs` |
| `FpsControl` | which frames `feed` drops | `VideoPath_proofs` |
| `AudioEncoder` | one encoder object, its thread, the recorder's callback, the thread that stops and destroys | `AudioPath_proofs` |
| `Pusher` | the life of the pushers, the camera and the native objects under `MainActivity` | `Pusher_proofs` |
| `Player` | the players of `MainActivity`, their binding to `PlayerService`, and its player | `Player_proofs` |
| `MCVideoPath` | `FpsControl`, `VideoParser`, `MemPool` and `RacingSends` side by side, and the units TLC tries | |
| the other `MC*` | instances for TLC, where constants need a definition | |

Definitions marked `Mutant:` are changed versions of the definition that follows
them; no specification uses them.  Putting one in the place of its original must
break the property `PROJECT.json` pairs it with, which shows that the property
depends on the code.

### JitterBuffer

The list is the sequence of its nodes; a node is the number of the `add_packet`
call that made it, so that `m_packet_buffer_end` and `m_last_pktl` are numbers and
a dangling pointer is a number that is not in the list.  `AddPacket` is the entry
of `add_packet` up to the end of `interleave_add_packet`; `FlushHead(ok)` is one
turn of the loop that pops and calls the callback; `Return` the turn that does
not.  `out`, `ret`, `newest`, `monotone`, `added` are history.

`PacketMerge` has neither list nor pointers nor unsigned numbers: packets wait in a
set, and the oldest of a stream may be delivered when every stream has one, or when
some stream's youngest is too far from it.  The refinement maps the list to the set
of its nodes and `out` to what was delivered, each with the reason the code had.

### SharedJitterBuffer

Each read or write of a shared pointer is a step.  `Touched(t)` is what the next
step of thread t dereferences; when that includes NULL or a deleted node the step
is `Crash`.  `CfgPending` chooses the streams whose first send begins with a
configuration packet, which the code adds *outside* `m_mutex`.  As long as no two
threads are inside `add_packet` (`overlap`), the module implements `JitterBuffer`
under the mapping at its end: a node is added when `link_prev` makes the list reach it,
and taken at its callback.  Where `m_packet_buffer_end` or `m_last_pktl` are written before
or after that step, the mapping undoes the write or makes up for it.  With overlapping
calls nothing of the kind is true, and the process may fault.

### RtmpHandler

`SendVideo`/`SendAudio` are the calls up to their first `add_packet`, `AfterConfig` what follows a
configuration packet, `AfterData` the return.  `Restart` is an encoder closed and opened again,
which makes its timestamps begin at 0 while the handler keeps its `lts`.  A frame that the encoder
fails to encode, which it drops (`jni/video_encoder.cpp:309-318`), that the parsers reject or for
which there is no memory changes nothing: a run's first packet is then later than 0 (`headless`).
Timestamps are integers, taken modulo `U32` where `send_rtmp_pkt` makes them `uint32_t`, and made
signed again (`AsInt`) where `packet_cb` gives them to `FlvMuxer`'s `write_tag`, whose file is
taken to be open.  `TagTime` writes what `write_tag` writes of a time: three bytes, for the fourth
is always 0.

### RacingSends, MemPool

`m_mutex` covers the data packets only; these two modules are about what is outside it.
In `RacingSends` a rebase reads its four fields in any order (`Read`), computes and
writes the alignment (`Align`, `AlignWrite`) and adds the last timestamp (`Add`,
`AddWrite`).  The compiler may keep what it read or read it again (`reread`), for the
fields are plain `int32_t`s; a torn `int32_t` does not exist on the targets.  What was sent
is a timestamp, and the list is left to the other modules.

In `MemPool` an `alloc` is its writes: `m_capacity` is raised (`Alloc`), the block made
(`Malloc`), the old one freed (`FreeOld`), `m_buf` cleared and set (`ClearBuf`,
`AssignBuf`) and returned.  A payload is filled in two halves, so that it can be torn.  A
use of a freed, missing or short block is a fault, after which nothing is claimed.

### VideoParser

A frame is the bytes `encode_nals` concatenates; `Find` is a turn of `process`'s loop, `Split`
what its turns find, and `SendFrame` takes it through the parser, the copy with lengths and the
decision to send an avc_dcr.  x264's part is in `Coded`: which start codes it writes and which
units a key frame has.  Its repeated headers are assumed, for `FQRtmpPusher` asks for them.  The
units are constants: any sequences of numbers in which, as the standard wants it, no start code
occurs (`ParserAssumption`).

### IOBuffer

`b` is the object; its memory is a function from offsets to the number of the byte written
there.  `EnsureSize` is `ensure_size` with `move_data`, `ReadFromBuffer` and `Ignore` what
`AudioEncoder` calls, with an int that becomes a `uint32_t`: what `AudioRecord.read` gave may be
an error code, and is then a length near 2^32.  After a `memcpy` that leaves its buffer nothing
is claimed.  The queue that `ByteQueue` speaks of is the window from `consumed` to
`published`.

### VideoEncoder, AudioEncoder

Critical sections of `Queue` are atomic, for nothing outside its mutex reads or
writes it.  `AudioEncoder` needs the mutex in the open: its destructor sets
`m_quit` and signals without it.  `volatile bool` reads and writes are taken as
sequentially consistent.  x264 and fdk-aac are external: `Encode` allows every
result the code distinguishes.  A feed of an error code ends the model of `AudioEncoder`
with `fault`; what it does to the buffer is `IOBuffer`'s.

`FpsControl` is `FPSCtrl`: one action per way through `feed`.  `get_frame` is any int at first,
for no constructor sets it, and a difference of ints that overflows gives any result.

### Player

The activity's thread handles one message or user action at a time; what it still has to
call is `todo`, one call per step, so that an event of libvlc or the death of the service can
fall between any two.  A call to a dead service throws, and what is left in the `try` is
skipped (`CallFails`).  The service's own state is whose data source and callback it has.
An event tests the callback (`VlcEvent`) and then uses it (`CallBack`); `release` may come
between, and the null pointer ends the service's process.  What the service throws besides
comes back to the activity, which catches `RemoteException` only: its process ends (`crash`), and
the model with it, when `setDisplay` is given an invalid surface or `prepare` has no uri because
`setDataSource` bailed out of a url without scheme.  Android's part, `Connect` and
`ServiceDies`, is external.

### Pusher

The main thread runs one handler at a time, so each of its handlers is one action, the
composition of the methods it calls; a method is an operator on the record `s`, which
holds the fields of all pushers, what `gfq` points to and who opened it, the camera's
users, the looper's messages and the pool.  `startRecordingAudio` runs on the pool, as
four actions that interleave with the handlers: `StartRecordingAudio`, a
`CreateRecord` for each sample rate, `OpenAudioEncoder` and `StartRecording`.  Finer
interleavings, inside a handler, are not modelled.  The pool has one thread at a time,
for a `ThreadPoolExecutor` with an unbounded queue never exceeds its core size by more
than the one thread it needs.  `process` waits for its two threads, so they are part
of it.  `layout` is the pusher whose live layout the activity shows: a close, or an empty url,
puts the info layout in its place, and `startPreview`, `initializeFirstTime` and
`setOrientationIndicator` then look up a view that is not there.  The process ends (`crash`) at
such a view, a null reference in `startPreview` or `startRecordingAudio`, a failed assertion of
`CameraHolder` or the use of a deleted weak reference.  The callbacks of the recorder and of
the sensors, with autofocus, are left out, and with them the null references they can meet on
their own: `onPeriodicNotification` tests `mLibFQRtmp` and then uses it
(`fqrtmpplayer/FQRtmpPusher.java:769`), and `autoFocus` uses an `mFocusMode` that a pusher
resumed without a preview has not set (line 668).  `CameraHolder.keep` is never
called; with it go the delayed release and its message.  Cameras that open but do not
start, which throw what nobody catches, are left out.

## 3. Runs

| Run | Bounds | Shows |
|---|---|---|
| `jitter` | 2 streams, 5 packets, timestamps 0..3 in any order, delta 1 | pointers, order and bounds of the buffer; `ImplementsPacketMerge` |
| `shared` | 2 threads, 4 packets, timestamps 0 and 2, both configurations pending | `ImplementsJitterBuffer` and no fault until calls overlap; calls overlap only when one adds a configuration |
| `config_outside_lock` (violation) | 4 packets | `assert(!*next_point)` fails |
| `handler` | 7 packets, timestamps 0..3, one restart of each encoder, threshold 1, alignment limit 2 | configuration first, video never far back, when timestamps wrap, times of the file |
| `asc_reset` (violation) | 6 packets | a comment of `send_audio` does not hold |
| `video_path` | see below | the four stages of a video frame |
| `io_buffer` | 22 bytes, writes of up to 5, error codes down to -6, chunks of 2, 20 cells | no fault but by an error code, and `ImplementsByteQueue` |
| `video_encoder` | 6 frames | see below |
| `audio_encoder` | 4 feeds of 1 to 3 units, frames of 2, 7/3 ms per frame | see below |
| `pusher` | 2 pushers, one resume, 2 sample rates | camera assertions, everything released, where missing views, null references and leaks come from |
| `pusher_camera` | 1 pusher, one resume, 2 camera switches | video encoder and preview agree; errors close the pusher |
| `player` | 3 players, 2 deaths of the service | what plays, who is bound, that open players start or why the activity ends |

`video_path` is one run for the stages that share no state with each other, because a
product would only repeat the states of one in those of another; `stage` says
which one a behaviour is about, and the others stand still.

| Stage | Bounds | Shows |
|---|---|---|
| `FpsControl` | rates 4, 7, 10, 15, 20, 24, 30 on both sides, 26 frames, 2 of them late | the rate is kept, runs of drops are short |
| `VideoParser` | 3 SPS, 2 PPS, an SEI, slices with zeros inside, 2 slices a frame, any number of frames and restarts | units, body and configuration |
| `MemPool` | 3 calls of each thread, sizes 1..4, slack 2 | when payloads are torn, blocks misused, and the capacity wrong |
| `RacingSends` | timestamps 0..4, one restart of each encoder, threshold 1, alignment limit 4 | what is left of the timestamps when rebases race |

Why the bounds are enough: five packets let one stream queue three, be forced out, and meet a
packet of the other stream before, between and after them; seven let one encoder send, restart and
send again with configurations beside the other; six frames give a queue of five behind a packet
in hand, so that the destructor's loop has a half to leave. Two pushers are the one that fails or
is replaced and its successor, and one resume suffices to resume a closed pusher and to start a
second recording while the first is pending; a third player comes after one whose close was lost.
The thresholds are scaled with the timestamps so that noticed and unnoticed restarts, aligned and
unaligned streams, and wrapped timestamps all occur. Three calls let the pool grow twice in each
thread. Twenty-two bytes fill, move and grow an IOBuffer several times over, with every alignment
of `published` and `consumed`. The frames of `FpsControl` are enough for every pair of its rates
with the camera's the higher to drop several times; `Scale` is the code's `a` divided by ten, and
2^31 is scaled to 255 so that the overflow is reached. The file's times are cut to half of `U32`,
so that times above the cut occur after a wrap. Deadlock checking is off because the runs end: the
number of packets is bounded, closed encoders do nothing more, and a destroyed activity neither.

What the runs say about behaviour a reader may not expect:

- `StuckOnlyBySignalLost`: `~AudioEncoder` can hang in `join`.  It does so only if
  its signal falls between the thread's test of `m_quit` and its wait, and then
  only until a feed in progress or a spurious wakeup.
- `FaultOnlyAfterOverlap`: `sendRawAudio` can use a deleted encoder, but only if a
  callback was in progress when the listener was removed.
- `LeakedAtClose`: `~VideoEncoder` leaves the younger half of its queue, and a
  packet popped just before `m_quit`, undeleted, and nothing else.
- `VideoNeverFarBack` allows video to go back by as much as the threshold: a restart
  within it is not noticed.
- `FarBackNeedsOverlap`, `StartsWithinUnlessCrossed`: with real threads video may go back
  further, but only after both streams rebased at the same time; a single rebase
  that another send crosses can only misplace where a stream starts.
- `WrapsOnlyAfterBackShift`: audio timestamps below 0, which become huge
  `uint32_t`s, do occur; video's never do.
- `MisuseNeedsOverlap`, `CapacityTrueUnlessTwoGrow`: a video payload can be overwritten by
  audio's, and a block can be freed under its user; after two growths at once
  `m_capacity` can stay larger than the block for good.
- `FrameFaithful`: a body is longer than its frame by a byte for each short start code;
  the block has room for as many as the code's "just in case" says.
- `ConfigCurrent`: a restart that the timestamps do not show is noticed by the parameter
  sets if they differ, and needs no notice if they do not.
- `FaultNeedsOverlap`, `OverlapNeedsConfig`: only a configuration packet can meet another call
  inside the list, and only then can the list be damaged.
- `FileHasStreamTimes`: while no run has lost its first frame to a failing encoder, the first
  packet is at 0 and the tags have the packets' times, through any restarts, rebases and failing
  sends.  Once a run did, the first packet can be later, and all tags are relative to it; and if it
  is at 1, `m_tm_offset` is left at the value that means none, and the next packet sets it again.
- `ConfigBeforeData` is about runs that did not lose their first frame: the asc packet goes with an
  audio frame at 0, and the avc_dcr with a key frame, which a lost first frame was.
- `FaultExactlyByMisread`: `AudioRecord.read`'s error codes are fed as lengths, and then
  `ensure_size` adds around 2^32, makes no room, and the `memcpy` leaves the buffer.  Nothing
  else makes a `memcpy` of `IOBuffer` fault.
- `RateKept` is conditional on `StepsInReach`: at a ratio of 28 to 3, which `FPSCtrl::init` accepts,
  rounding puts two frames to adopt 10 apart, `feed` takes that for a jump
  (`jni/video_encoder.cpp:233`) and adopts a frame at once.
- `DropsBounded`: the value `get_frame` is not given may make one run of drops longer at
  the start; after the second frame adopted in time it cannot.
- `CrashHasCause`: after an error `MainActivity` keeps the closed pusher, and the next resume
  uses its `mLibFQRtmp`, which is null, or looks for its `frame_layout`, which the close took
  away; so does the resume of a pusher given an empty url, and of one whose layout a late error
  message of its predecessor replaced; a pause that overtakes the pool's `startRecordingAudio`
  leaves it a null `mAudioRecord`; and a pusher whose `nativeNew` made no weak reference (empty or
  unparsed url) makes `nativeRelease` use a deleted one.  Nothing else that is modelled crashes;
  the callbacks and autofocus named in section 2 are not.
- `CloseReleasesAll`: the same overtaking can leave a recorder running and an audio encoder
  open after the pause or close; no other history can.
- `DeafOnlyAfterRetry`: when the first sample rate fails, the second one records with a
  callback thread that was told to quit.
- `PlaysForTheOpenOne`, `ClosedIsUnbound`: a close before `onServiceConnected` does nothing, and
  the closed player is connected, plays and stays bound; no other history does this.
- `OpenIsStarted`: an open player is started or closed in the end, unless the activity's process
  ends before: when `onServiceConnected` comes before the surface is there or after it is gone, or
  for a url without scheme.  A death of the service does not prevent it.

### Findings

1. `jni/jitter_buffer.cpp:185`, `assert(!*next_point)`: configuration packets are
   added without the mutex, and the assertion fails when they meet another packet.
2. `jni/rtmp_handler.cpp:318`, "If asc-pkt is successfully sent, reset the flag":
   `add_packet` returns 0 when the send failed, and the flag is reset.

The comment above the second, "asc-pkt's timestamp is always 0" (`jni/rtmp_handler.cpp:311`), can be
read off the code: the timestamp passed is `timestamp+m_ainfo.tm_offset`.

## 4. Fairness

- `VideoEncoder!FairSpec`, `AudioEncoder!FairSpec`: the operating system schedules the
  threads, so the encode thread, a callback in progress and a destructor that was
  entered go on (weak fairness).  Feeding, closing and spurious wakeups may never
  happen.  `CloseReturns` of the video encoder does not assume that x264 ever gives
  output.

- `Pusher!FairSpec`: the main looper runs the messages posted to it.  The user, the
  system and the pool may stop at any point.
- `Player!Spec`: the activity's thread goes on with its message and takes the next one, and
  Android connects what is bound.  Events, user actions and deaths of the service may
  never happen.

## 5. Proofs

`JitterBuffer_proofs` proves, for every non-empty set of streams, every set of
natural timestamps that contains 0, every delta and modulus such that no timestamp
plus delta reaches the modulus, and any number of packets: `TypeOK`,
`PointersConsistent`, `StreamFIFO`, `SortedWhileMonotone`, `InOrderUntilForced`,
`NoLossNoDuplicate`, `BoundedHold` and `ImplementsPacketMerge`.

The inductive invariant `IInv` is `TypeOK`, `PointersConsistent`, unique identifiers,
`StreamFIFO`, `SortedWhileMonotone` and `NewestBounds` (while monotone, nothing queued
is later than its stream's newest timestamp).  The parts need each other: the
insertion point is found from `m_last_pktl`, which is right only if it is the
stream's last node; it keeps the list sorted only if no node of the stream is
later than the packet.  `AddPacketInv` and `FlushHeadInv` are the two steps that change the
list, over `InsertAtProperties`, `SearchFromProperties` and `InsertPointProperties`.
`InOrderUntilForced` adds that what was sent is not later than what can still come;
`NoLossNoDuplicate` and `BoundedHold` are inductive beside `IInv`.

`PacketMergeImplemented` maps each step of `JitterBuffer` under `IInv` to one of the merge:
`MergePut` for an added packet; for a flushed head, that it is the oldest of its stream
(`StreamFIFO` of what is queued), that `m_last_pktl` tells whether every stream waits
(`MergeAllWait`) and that a span the unsigned test finds too long is one in the integers
(`MergeTooFar`).

`PointersCorrect` is the sequential half of finding 1: the assertion cannot fail
unless calls overlap.

`VideoEncoder_proofs` proves, for any number of packets, every invariant of the `video_encoder`
run, `NoSleepOnWork`, `SingleOwner`, `EncoderOpenWhenUsed` and `LeakedAtClose`, and with them
`TypeOK` and `FramesInOrder`.  Its `IInv` locates every packet by number: what the thread deleted
(`ByThread` of them), the packet in hand and the queue are consecutive until the destructor's
loop, which then deletes the numbers after the one in hand (`Queued`, `Deleted`); what was sent is
older than what can still be sent (`SentBefore`).  `SingleOwner` alone is not inductive: it does
not say which packet is in hand while the loop runs.

`AudioPath_proofs` proves of `AudioEncoder`, for every frame size, every set of delivered sizes,
every frame length, every sample rate above 0 and any number of feeds: `TypeOK`, `NoSleepOnInput`,
`StuckOnlyBySignalLost`, `FaultOnlyAfterOverlap` and `PtsExact`. Its `IInv` says which control
points hold `m_mutex` (`Mutex`: a feed cannot fall between the thread's test and its wait), how
far the object is taken apart at each step of the destructor (`Closing`), that a thread asleep
beside the join has lost its signal (`Sleeping`), and that `m_pts.val * Samplerate + m_pts.num` is
the exact sum of the durations so far (`Accumulated`), from which `DivUnique` gives each
timestamp.

Of `IOBuffer` it proves, for any chunk sizes and any number of bytes such that the sums of sizes
stay below 2^32 (`BufferAssumption`; a phone has no such buffer), `FaultExactlyByMisread` and
`ImplementsByteQueue`: an error code, as a length, is more than any buffer there can be, so its
`memcpy` leaves the buffer whatever `ensure_size` did (`MisreadFaults`).  `BufferInv` says that
the object is a window of its memory and that the window holds the latest bytes in order
(`Contents`); the lemmas show, for `move_data` and for the growth in turn, that they keep the
window's bytes (`SameBytes`) wherever they put them.

`VideoPath_proofs` is about the four stages of a video frame.

Of `MemPool`, for any payload sizes, any growth and any number of
calls (`PoolAssumption`): `MisuseNeedsOverlap` and `CapacityTrueUnlessTwoGrow`.
`PoolInv` says what a thread may rely on at each line of `alloc` and after it.  It comes in three
strengths, each void once its flag is raised: the capacity is the block's until both
threads grow the pool (`CapacityOf`, `CapacityInv`), the block lent is there and long enough
until the pool grows under a loan (`LoanOf`), and what was written is there until both
have a loan (`PayloadOf`).  `PoolHistory` ties the flags to the present, which is how a step of one
thread knows what the other one cannot be doing (`StepHistory`, `OtherOwned`).

Of `RacingSends`, for any timestamps, threshold, alignment limit and number of restarts, the
two action properties, `FarBackNeedsOverlap` and `StartsWithinUnlessCrossed`.  What a rebase
has read of the offsets is still so as long as no two rebases met or nothing was written under one
(`Calm`, `OffsetsCurrent`); of the last timestamps, only as long as nothing was written under it
(`LtsCurrent`).  So at most one of the two threads can have moved an offset in the meantime, and
the last video packet is not ahead of where the video stream stands, or will stand once its
timestamp is written (`LastInv`); a stream that was moved on starts within the highest
timestamp reached (`HighInv`).  Both properties compare a step's packet with these two.

Of `VideoParser`, for any units that satisfy `ParserAssumption`, frames of any number of slices and
encoders reopened at will: `FrameFaithful` and `ConfigCurrent`.  `process`'s loop, its storing and the
lengths written are recursive functions over bytes and units, and what they compute is proved by
induction: `SetInduction` is induction over the natural numbers, got from the least element of the
complement (`WFMin`), and `Agree` says that a recursive function's equation has one solution, so that
it is enough to name it.  `BytesLaid` says where each unit lies among the bytes, `FindUnit` that a
turn of the loop finds the unit that lies next (no start code is inside it, and the code before it is
found by its last three bytes, which is why a long one leaves the unit before it no zero too many),
and `SplitIs` that the loop finds all units and no others.  `KeyFrameStored` and `InterFrameStored` say
what `Store` leaves of a frame, `BodyIs` how long its body is.  The invariant `ParserInv` adds to
`FrameFaithful` that the server has the stored parameter sets unless they are owed to it
(`ServerHasSets`), and that those of a run that gave a frame are stored (`RunIsStored`).
`ConfigCurrent` alone is not inductive: it says nothing of a run that has given no frame, which is
when the sets are compared.

Of `FpsControl`, `DropsBounded` for any rates that `init` accepts, any number of late
frames and any first `get_frame`, from `FpsAssumption` and `PlacesFit` (the number of a frame
fits an int).  In `IInv` a run of drops began within reach of the place awaited (`InReach`), or,
before a second frame was adopted in time, where the difference to that place
overflows (`Overflowing`); a late frame takes the place last computed, so that what is stored is
never the uninitialized value again once `Settled`.

Also `RateKept`, for as long as `NoDriftYet`.  The property does not hold of
unbounded runs: `a` and `b` are quotients that the code truncates, and `Scale % orig_fps` is
lost again with every frame adopted.  From 30 to 15 frames a second, at the code's `Scale`, the
places are a frame too far after some 500000 of them, nine hours.  Where the rate
divides `Scale` they never are.  `FeedInStep` and `RateStep` are the induction, over `Quotient`,
`PlacesGrow` and `Proportion`, which are the arithmetic of the quotients.

`SharedJitterBuffer_proofs` proves, for any threads, packets and configurations,
`OverlapNeedsConfig` and `FaultNeedsOverlap`: the sequential correctness of the buffer
and the locking of its callers, put together.  `LockInv` says that a thread inside the
list with a data packet has the mutex.  `SInv` adds that, until two threads were inside
together, the list is well formed at each control point of the one that is inside: for
every line of `interleave_add_packet` and of the flushing loop a conjunct says which sequence of
nodes the pointers spell, and which single node is beside it, being linked or unlinked.
`FaultNeedsOverlap` is not inductive without that, for whether a pointer may be followed
depends on all earlier ones.

`SharedImplements` proves the refinement `ImplementsJitterBuffer`.  `ChainIs` says that the list
followed from its head is the sequence of `SInv`, so that at each control point the mapping
gives a sequence written down with it (`Mapped`).  The step of `JitterBuffer` that a thread
carries out takes it many steps; `Progress` says how far it is: which part of the list its
search has passed, that the place found is `InsertPoint`, that the flush it is in the middle of
was due, with the reason it recorded.  Then `link_prev` is `AddPacket`, the callback is
`FlushHead`, the return is `Return`, and every other step a stutter.  `RInv` joins this to the
inductive invariant of `JitterBuffer`, of which `JitterBuffer_proofs` is instantiated under the
mapping: that the search ends at `InsertPoint` needs the abstract list's pointers to be right.
`SharedAssumption` has the same bound on timestamps as `JitterBuffer`: none is so near the
modulus that the largest delta wraps.

`RtmpHandler_proofs` proves, for every set of timestamps, every threshold and alignment limit
and any number of packets and restarts (`HandlerAssumption`), `ConfigBeforeData`,
`VideoNeverFarBack`, `WrapsOnlyAfterBackShift` and `FileHasStreamTimes`.  `HInv` relates the
handler's `lts` and `tm_offset` to what was added to the buffer, and what is in the buffer
to what came out; `JitterBuffer_proofs` is instantiated for the latter, so that the order
of the buffer is a lemma there and not proved again.  Which runs lost their first frame is part
of it: what a file's first tag is, and whether a run's data has its configuration, depends on it.

`Pusher_proofs` proves every invariant of the two pusher runs, for any number of pushers, resumes,
switches and sample rates: `CameraAssertionsHold`, `VideoEncoderFollowsPreview`,
`CloseReleasesAll`, `CrashHasCause` and `DeafOnlyAfterRetry`.  They are one invariant, `PInv`,
because they need each other: that the camera is the activity's pusher's (`CameraInv`) needs that
a pusher it left is closed (`PausedInv`); that the audio encoder is not opened over another needs
that only the activity's pusher has native objects (`NativeInv`) and what the one task of a
recording has done so far (`RecordInv`); that a pusher misses no view needs that the layout shown
is that of the one with native objects unless it was taken away.  A pusher not yet created is in
no set and no queue (`BirthInv`).  `Inv` is stated of the record between two methods of a handler,
so that a handler's proof composes the lemmas of its methods as the handler composes the methods.

`Player_proofs` proves, for any number of `FQRtmpPlayer`s and of deaths of the service,
`PlaysForTheOpenOne` and `ClosedIsUnbound`.  The calls that the activity's thread has still to
make come in a fixed order (`Ordered`), and the next of them tells what the service holds
(`PlayerHeld`; on the way to `prepare`, which throws without one, it may have no url), unless a
player whose close was lost is still bound beside the activity's own (`Stuck`).  That a closed
player is unbound needs of every bound one that it is open, or that its unbinding is among those
calls (`BoundInv`).  A player that unbinds takes its messages out of the queue; that this keeps
the others and their order (`KeptIs`) is an induction like those above.

The proofs are of `Spec`, which the fair specifications imply.

Only model-checked: liveness (`CloseReturns` of both encoders, `ErrorCloses`, `OpenIsStarted`),
which is outside the prover's reach, and `RateKept` beyond `NoDriftYet`, which is false of longer
runs.  The two violations are TLC's by nature.

## 6. Plan

What the present modules leave to do, in this order:

1. `RtmpHandler.connect` and `disconnect` against senders that are still running, with what
   `nativeNew` and `nativeRelease` do to `gfq`.
2. A failing `init` of either encoder, whose destructor then runs.

## 7. Not modelled

Most of the lines counted as C, C++ or Java in the repository are vendored: `jni/libyuv` alone
has some 52000, beside the wrapper of libvlc under `org/videolan`, and `contrib` builds
librtmp, x264, fdk-aac and libvlc.  They have specifications of their own, the code uses a few
functions of each, and the models allow every result the code tells apart.  The project's own
code, some 9500 lines, is covered where it keeps state that several calls or threads
share.  Of it the following is left out:

- JNI glue, argument parsing and settings (`libfqrtmpjni.cpp`, `common.cpp`, `LibFQRtmp`,
  configuration classes): conversions without state.
- Colour conversion, rotation and parameters of x264 and fdk-aac in `init` and `feed`: pure
  data, done by libyuv.
- `AudioRawParser` and the constant bytes of packet bodies: fixed layouts.
- `xfile`, `xmedia`, most of `xutil` (sockets, paths, strings): not used by the push
  path or straight calls of the operating system.
- `AudioPlayer`: `mPlayOwnVoice` is false, so that it is never made.
- User interface, crash handlers, logging, device lists.
