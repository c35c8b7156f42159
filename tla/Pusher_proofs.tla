----------------------------- MODULE Pusher_proofs -----------------------------
(***************************************************************************)
(* Proofs about Pusher, for any number of pushers, resumes, switches and   *)
(* sample rates.  A handler is a composition of methods on the record s,   *)
(* and so is the proof: for each method a lemma says which fields it       *)
(* changes, and one that it keeps the invariant Inv of the record.         *)
(***************************************************************************)
EXTENDS Pusher, FiniteSetTheorems, TLAPS

-----------------------------------------------------------------------------
(* The invariant is stated of a state t between any two of the methods     *)
(* that a handler composes: f is the activity's pusher, c the number of    *)
(* pushers created.                                                        *)

(* The camera is the activity's pusher's, whose preview runs only while it *)
(* is not paused and has the video encoder.                                *)
CameraInv(t, f) ==
    /\ t.camera \subseteq {f}
    /\ t.users = IF t.camera = {} THEN 0 ELSE 1
    /\ t.crash # "assertion"
    /\ t.previewing \subseteq (t.camera \cap t.lib) \ t.pausing
    /\ \A k \in Pushers : k \in t.previewing <=> t.video_enc = k

(* Only the activity's pusher has native objects and its layout shown, its *)
(* camera only with them or after it was resumed without, and the layout   *)
(* with them unless it was taken away.                                     *)
NativeInv(t, f) ==
    /\ t.lib \subseteq {f}
    /\ t.camera \subseteq t.lib \cup t.reopened
    /\ t.crash = "none" => t.camera \subseteq t.lib
    /\ t.rtmp_hdlr # 0 => t.rtmp_hdlr \in t.lib
    /\ t.lib \cap t.started # {} => t.weak_thiz = "live"
    /\ t.layout \in {0, f}
    /\ \A k \in t.lib : t.layout = k \/ k \in t.stripped

(* Nothing is known of a pusher not created yet. *)
Unborn(t, k) ==
    /\ k \notin t.lib \cup t.camera \cup t.pausing \cup t.started \cup t.overlap
    /\ k \notin t.reopened \cup t.retried
    /\ ~Pending(t, k)
    /\ t.record[k] = "null" /\ t.audio_enc # k
    /\ \A i \in DOMAIN t.looper : t.looper[i].to # k

BirthInv(t, c) == \A k \in Pushers : k > c => Unborn(t, k)

(* A pusher the activity left is paused, and so is one that was closed,    *)
(* unless it was resumed since.                                            *)
PausedInv(t, f, c) ==
    \A k \in 1..c : /\ k # f => k \in t.pausing
                    /\ k \in t.lib \cup t.reopened \cup t.pausing

(* The recording of a pusher whose pauses overtook no task of its own: it  *)
(* has one task at most, no task and no recorder while it is paused, a     *)
(* recorder once its task has made one, and the audio encoder only then.   *)
RecordInv(t, k) ==
    /\ k \in t.pausing => t.record[k] = "null" /\ ~Pending(t, k)
    /\ Pending(t, k) => k \in t.lib \cup t.reopened
    /\ t.audio_enc = k =>
          /\ k \in t.lib \ t.pausing
          /\ t.record[k] # "null"
          /\ Pending(t, k) => t.task = k /\ t.step = "listen"
    /\ t.task = k => k \notin ToSet(t.pool)
    /\ \A i, j \in DOMAIN t.pool : t.pool[i] = k /\ t.pool[j] = k => i = j
    /\ Pending(t, k) =>
          t.record[k] = IF t.task = k /\ t.step \in {"open", "listen"} THEN "ready" ELSE "null"
    /\ t.task = k \/ t.record[k] = "recording" => k \in t.hears \cup t.retried

RecordingInv(t) ==
    /\ \A k \in Pushers \ t.overlap : RecordInv(t, k)
    /\ t.step = "idle" <=> t.task = 0

(* What the history says of leaks and crashes. *)
HistoryInv(t) ==
    /\ t.leaked => t.overlap # {}
    /\ t.crash = "null" => t.by \in t.overlap \cup t.reopened
    /\ t.crash = "no view" => t.by \in t.stripped \cup t.reopened
    /\ t.crash = "deleted ref" => t.by \notin t.started

Inv(t, f, c) ==
    /\ t \in State
    /\ CameraInv(t, f) /\ NativeInv(t, f)
    /\ BirthInv(t, c) /\ PausedInv(t, f, c)
    /\ RecordingInv(t) /\ HistoryInv(t)

PInv ==
    /\ activity \in {"resumed", "paused", "destroyed"}
    /\ created \in 0..MaxPushers /\ mFQRtmp \in 0..created
    /\ Inv(s, mFQRtmp, created)
    /\ activity # "resumed" => mFQRtmp \in s.pausing \cup {0}
-----------------------------------------------------------------------------
(* The fields that a method leaves alone, by what they are about. *)
SameCamera(t, u) == /\ u.camera = t.camera /\ u.users = t.users
                    /\ u.previewing = t.previewing /\ u.video_enc = t.video_enc
SameNative(t, u) == /\ u.lib = t.lib /\ u.rtmp_hdlr = t.rtmp_hdlr
                    /\ u.weak_thiz = t.weak_thiz /\ u.started = t.started
SameRecord(t, u) == u.record = t.record /\ u.hears = t.hears /\ u.audio_enc = t.audio_enc
SamePool(t, u) == u.pool = t.pool /\ u.task = t.task /\ u.step = t.step
SameLooper(t, u) == u.looper = t.looper
SamePause(t, u) == u.pausing = t.pausing
SameEnd(t, u) == u.crash = t.crash /\ u.by = t.by
SameLeak(t, u) == u.leaked = t.leaked
SamePast(t, u) == /\ u.overlap = t.overlap /\ u.retried = t.retried
                  /\ u.reopened = t.reopened /\ u.stripped = t.stripped
                  /\ u.layout = t.layout

(* What each field of the record ranges over. *)
LEMMA Fields ==
    ASSUME NEW t \in State
    PROVE  /\ t.lib \in SUBSET Pushers /\ t.camera \in SUBSET Pushers
           /\ t.pausing \in SUBSET Pushers /\ t.previewing \in SUBSET Pushers
           /\ t.start_fail \in SUBSET Pushers
           /\ t.record \in [Pushers -> {"null", "ready", "recording"}]
           /\ t.hears \in SUBSET Pushers
           /\ t.audio_enc \in 0..MaxPushers /\ t.video_enc \in 0..MaxPushers
           /\ t.rtmp_hdlr \in 0..MaxPushers
           /\ t.weak_thiz \in {"null", "live", "deleted"}
           /\ t.users \in 0..1
           /\ t.looper \in Seq(Message) /\ t.pool \in Seq(Pushers)
           /\ t.task \in 0..MaxPushers
           /\ t.step \in {"idle", "create", "open", "listen"} /\ t.idx \in 0..Samplerates
           /\ t.finishing \in BOOLEAN
           /\ t.crash \in {"none", "null", "no view", "assertion", "deleted ref"}
           /\ t.by \in 0..MaxPushers /\ t.leaked \in BOOLEAN
           /\ t.started \in SUBSET Pushers /\ t.overlap \in SUBSET Pushers
           /\ t.retried \in SUBSET Pushers /\ t.reopened \in SUBSET Pushers
           /\ t.stripped \in SUBSET Pushers /\ t.layout \in 0..MaxPushers
  BY DEF State

(* A pusher is a number from 1 on, and 0 stands for null. *)
LEMMA Numbers ==
    /\ MaxPushers \in Nat /\ Samplerates \in Nat
    /\ 0 \in 0..MaxPushers /\ 0 \notin Pushers
    /\ Pushers \subseteq 0..MaxPushers
    /\ \A k \in 0..MaxPushers : k # 0 => k \in Pushers
  BY PusherAssumption DEF Pushers

(* stopRecordingAudio. *)
LEMMA StopRecordingFields ==
    ASSUME NEW t \in State, NEW k \in Pushers
    PROVE  LET u == StopRecordingAudio(t, k)
           IN  /\ u \in State
               /\ u.record = [t.record EXCEPT ![k] = "null"]
               /\ u.hears = t.hears \ {k}
               /\ u.audio_enc = IF t.record[k] # "null" /\ k \in t.lib THEN 0 ELSE t.audio_enc
               /\ SameCamera(t, u) /\ SameNative(t, u) /\ SamePool(t, u) /\ SameLooper(t, u)
               /\ SamePause(t, u) /\ SameEnd(t, u) /\ SameLeak(t, u) /\ SamePast(t, u)
<1> DEFINE r == [t.record EXCEPT ![k] = "null"]
           h == t.hears \ {k}
           e == IF t.record[k] # "null" /\ k \in t.lib THEN 0 ELSE t.audio_enc
           u == [t EXCEPT !.record = r, !.hears = h, !.audio_enc = e]
<1>1. /\ t.record \in [Pushers -> {"null", "ready", "recording"}] /\ t.hears \in SUBSET Pushers
      /\ t.audio_enc \in 0..MaxPushers
  BY Fields
<1>2. /\ r \in [Pushers -> {"null", "ready", "recording"}] /\ h \in SUBSET Pushers
      /\ e \in 0..MaxPushers
  BY <1>1, Numbers
<1>3. StopRecordingAudio(t, k) = u
  BY DEF StopRecordingAudio, State
<1> HIDE DEF r, h, e
<1>4. u \in State
  BY <1>2 DEF State
<1>5. /\ u.record = r /\ u.hears = h /\ u.audio_enc = e
      /\ SameCamera(t, u) /\ SameNative(t, u) /\ SamePool(t, u) /\ SameLooper(t, u)
      /\ SamePause(t, u) /\ SameEnd(t, u) /\ SameLeak(t, u) /\ SamePast(t, u)
  BY DEF State, SameCamera, SameNative, SamePool, SameLooper, SamePause, SameEnd, SameLeak,
         SamePast
<1> HIDE DEF u
<1>6. QED
  BY <1>3, <1>4, <1>5 DEF r, h, e

(* stopPreview, which closes the video encoder. *)
LEMMA StopPreviewFields ==
    ASSUME NEW t \in State, NEW k \in Pushers
    PROVE  LET u == StopPreview(t, k)
           IN  /\ u \in State
               /\ u.camera = t.camera /\ u.users = t.users
               /\ u.previewing = t.previewing \ {k}
               /\ u.video_enc = IF k \in t.camera \cap t.previewing \cap t.lib
                                THEN 0 ELSE t.video_enc
               /\ SameNative(t, u) /\ SameRecord(t, u) /\ SamePool(t, u) /\ SameLooper(t, u)
               /\ SamePause(t, u) /\ SameEnd(t, u) /\ SameLeak(t, u) /\ SamePast(t, u)
<1> DEFINE v == IF k \in t.camera \cap t.previewing \cap t.lib THEN 0 ELSE t.video_enc
           p == t.previewing \ {k}
           u == [t EXCEPT !.video_enc = v, !.previewing = p]
<1>1. t.video_enc \in 0..MaxPushers /\ t.previewing \in SUBSET Pushers
  BY Fields
<1>2. v \in 0..MaxPushers /\ p \in SUBSET Pushers
  BY <1>1, Numbers
<1>3. StopPreview(t, k) = u
  BY DEF StopPreview, State
<1> HIDE DEF v, p
<1>4. u \in State
  BY <1>2 DEF State
<1>5. /\ u.camera = t.camera /\ u.users = t.users /\ u.previewing = p /\ u.video_enc = v
      /\ SameNative(t, u) /\ SameRecord(t, u) /\ SamePool(t, u) /\ SameLooper(t, u)
      /\ SamePause(t, u) /\ SameEnd(t, u) /\ SameLeak(t, u) /\ SamePast(t, u)
  BY DEF State, SameNative, SameRecord, SamePool, SameLooper, SamePause, SameEnd, SameLeak,
         SamePast
<1> HIDE DEF u
<1>6. QED
  BY <1>3, <1>4, <1>5 DEF v, p

(* closeCamera: the assertion of CameraHolder.release is not its caller's  *)
(* to fail as long as a pusher with the camera is its user.                *)
LEMMA CloseCameraFields ==
    ASSUME NEW t \in State, NEW k \in Pushers, k \in t.camera => t.users = 1
    PROVE  LET u == CloseCamera(t, k)
           IN  /\ u \in State
               /\ u.camera = t.camera \ {k}
               /\ u.users = IF k \in t.camera THEN 0 ELSE t.users
               /\ u.previewing = IF k \in t.camera THEN t.previewing \ {k} ELSE t.previewing
               /\ u.video_enc = t.video_enc
               /\ SameNative(t, u) /\ SameRecord(t, u) /\ SamePool(t, u) /\ SameLooper(t, u)
               /\ SamePause(t, u) /\ SameEnd(t, u) /\ SameLeak(t, u) /\ SamePast(t, u)
<1>1. CASE k \notin t.camera
  <2>1. CloseCamera(t, k) = t
    BY <1>1 DEF CloseCamera
  <2>2. t.camera = t.camera \ {k}
    BY <1>1
  <2>3. QED
    BY <1>1, <2>1, <2>2 DEF SameNative, SameRecord, SamePool, SameLooper, SamePause, SameEnd,
       SameLeak, SamePast
<1>2. CASE k \in t.camera
  <2> DEFINE c == t.camera \ {k}
             p == t.previewing \ {k}
             n == 0
             u == [t EXCEPT !.users = n, !.camera = c, !.previewing = p]
  <2>1. t.camera \in SUBSET Pushers /\ t.previewing \in SUBSET Pushers
    BY Fields
  <2>2. c \in SUBSET Pushers /\ p \in SUBSET Pushers /\ n \in 0..1
    BY <2>1
  <2>3. CloseCamera(t, k) = u
    BY <1>2 DEF CloseCamera, Release, State
  <2> HIDE DEF c, p, n
  <2>4. u \in State
    BY <2>2 DEF State
  <2>5. /\ u.camera = c /\ u.users = n /\ u.previewing = p /\ u.video_enc = t.video_enc
        /\ SameNative(t, u) /\ SameRecord(t, u) /\ SamePool(t, u) /\ SameLooper(t, u)
        /\ SamePause(t, u) /\ SameEnd(t, u) /\ SameLeak(t, u) /\ SamePast(t, u)
    BY DEF State, SameNative, SameRecord, SamePool, SameLooper, SamePause, SameEnd, SameLeak,
           SamePast
  <2> HIDE DEF u
  <2>6. QED
    BY <1>2, <2>3, <2>4, <2>5 DEF c, p, n
<1>3. QED
  BY <1>1, <1>2

(* FQRtmpPusher.onPause. *)
LEMMA OnPauseFields ==
    ASSUME NEW t \in State, NEW k \in Pushers, k \in t.camera => t.users = 1
    PROVE  LET u == OnPause(t, k)
           IN  /\ u \in State
               /\ u.pausing = t.pausing \cup {k}
               /\ u.overlap = IF Pending(t, k) THEN t.overlap \cup {k} ELSE t.overlap
               /\ u.retried = t.retried /\ u.reopened = t.reopened
               /\ u.stripped = t.stripped /\ u.layout = t.layout
               /\ u.record = [t.record EXCEPT ![k] = "null"]
               /\ u.hears = t.hears \ {k}
               /\ u.audio_enc = IF t.record[k] # "null" /\ k \in t.lib THEN 0 ELSE t.audio_enc
               /\ u.camera = t.camera \ {k}
               /\ u.users = IF k \in t.camera THEN 0 ELSE t.users
               /\ u.previewing = t.previewing \ {k}
               /\ u.video_enc = IF k \in t.camera \cap t.previewing \cap t.lib
                                THEN 0 ELSE t.video_enc
               /\ SameNative(t, u) /\ SamePool(t, u) /\ SameLooper(t, u)
               /\ SameEnd(t, u) /\ SameLeak(t, u)
<1> DEFINE g == t.pausing \cup {k}
           o == IF Pending(t, k) THEN t.overlap \cup {k} ELSE t.overlap
           x == [t EXCEPT !.pausing = g, !.overlap = o]
           y == StopRecordingAudio(x, k)
           z == StopPreview(y, k)
           u == CloseCamera(z, k)
<1>1. t.pausing \in SUBSET Pushers /\ t.overlap \in SUBSET Pushers
  BY Fields
<1>2. g \in SUBSET Pushers /\ o \in SUBSET Pushers
  BY <1>1
<1>3. OnPause(t, k) = u
  BY DEF OnPause, State
<1> HIDE DEF g, o
<1>4. x \in State
  BY <1>2 DEF State
<1>5. /\ x.pausing = g /\ x.overlap = o /\ x.retried = t.retried /\ x.reopened = t.reopened
      /\ x.stripped = t.stripped /\ x.layout = t.layout
      /\ SameCamera(t, x) /\ SameNative(t, x) /\ SameRecord(t, x) /\ SamePool(t, x)
      /\ SameLooper(t, x) /\ SameEnd(t, x) /\ SameLeak(t, x)
  BY DEF State, SameCamera, SameNative, SameRecord, SamePool, SameLooper, SameEnd, SameLeak
<1> HIDE DEF x
<1>6. /\ y \in State
      /\ y.record = [x.record EXCEPT ![k] = "null"]
      /\ y.hears = x.hears \ {k}
      /\ y.audio_enc = IF x.record[k] # "null" /\ k \in x.lib THEN 0 ELSE x.audio_enc
      /\ SameCamera(x, y) /\ SameNative(x, y) /\ SamePool(x, y) /\ SameLooper(x, y)
      /\ SamePause(x, y) /\ SameEnd(x, y) /\ SameLeak(x, y) /\ SamePast(x, y)
  BY <1>4, StopRecordingFields
<1> HIDE DEF y
<1>7. /\ z \in State
      /\ z.camera = y.camera /\ z.users = y.users
      /\ z.previewing = y.previewing \ {k}
      /\ z.video_enc = IF k \in y.camera \cap y.previewing \cap y.lib
                       THEN 0 ELSE y.video_enc
      /\ SameNative(y, z) /\ SameRecord(y, z) /\ SamePool(y, z) /\ SameLooper(y, z)
      /\ SamePause(y, z) /\ SameEnd(y, z) /\ SameLeak(y, z) /\ SamePast(y, z)
  BY <1>6, StopPreviewFields
<1> HIDE DEF z
<1>8. z.camera = t.camera /\ z.users = t.users
  BY <1>5, <1>6, <1>7 DEF SameCamera
<1>9. /\ u \in State
      /\ u.camera = z.camera \ {k}
      /\ u.users = IF k \in z.camera THEN 0 ELSE z.users
      /\ u.previewing = IF k \in z.camera THEN z.previewing \ {k} ELSE z.previewing
      /\ u.video_enc = z.video_enc
      /\ SameNative(z, u) /\ SameRecord(z, u) /\ SamePool(z, u) /\ SameLooper(z, u)
      /\ SamePause(z, u) /\ SameEnd(z, u) /\ SameLeak(z, u) /\ SamePast(z, u)
  BY <1>7, <1>8, CloseCameraFields
<1> HIDE DEF u
<1>10. /\ u.pausing = g /\ u.overlap = o /\ u.retried = t.retried /\ u.reopened = t.reopened
       /\ u.stripped = t.stripped /\ u.layout = t.layout
  BY <1>5, <1>6, <1>7, <1>9 DEF SamePause, SamePast
<1>11. /\ u.record = [t.record EXCEPT ![k] = "null"]
       /\ u.hears = t.hears \ {k}
       /\ u.audio_enc = IF t.record[k] # "null" /\ k \in t.lib THEN 0 ELSE t.audio_enc
  BY <1>5, <1>6, <1>7, <1>9 DEF SameRecord, SameNative
<1>12. /\ u.camera = t.camera \ {k}
       /\ u.users = IF k \in t.camera THEN 0 ELSE t.users
  BY <1>8, <1>9
<1>13. z.previewing = t.previewing \ {k}
  BY <1>5, <1>6, <1>7 DEF SameCamera
<1>14. u.previewing = t.previewing \ {k}
  BY <1>9, <1>13
<1>15. u.video_enc = IF k \in t.camera \cap t.previewing \cap t.lib THEN 0 ELSE t.video_enc
  BY <1>5, <1>6, <1>7, <1>9 DEF SameCamera, SameNative
<1>16. /\ SameNative(t, u) /\ SamePool(t, u) /\ SameLooper(t, u)
       /\ SameEnd(t, u) /\ SameLeak(t, u)
  BY <1>5, <1>6, <1>7, <1>9 DEF SameNative, SamePool, SameLooper, SameEnd, SameLeak
<1>17. QED
  BY <1>3, <1>9, <1>10, <1>11, <1>12, <1>14, <1>15, <1>16 DEF g, o

(* The invariant of the recordings outlives whatever leaves the recordings *)
(* alone, and takes nothing from a pusher but from a paused one.           *)
LEMMA RecordingKept ==
    ASSUME NEW t, NEW u, RecordingInv(t), SameRecord(t, u), SamePool(t, u),
           t.overlap \subseteq u.overlap, t.retried \subseteq u.retried,
           u.pausing = t.pausing,
           \A k \in Pushers \ u.pausing :
               (k \in t.lib => k \in u.lib) /\ (k \in t.reopened => k \in u.reopened)
    PROVE  RecordingInv(u)
<1>1. u.step = "idle" <=> u.task = 0
  BY DEF RecordingInv, SamePool
<1>2. ASSUME NEW k \in Pushers \ u.overlap
      PROVE  RecordInv(u, k)
  <2>1. RecordInv(t, k)
    BY <1>2 DEF RecordingInv
  <2>2. Pending(u, k) <=> Pending(t, k)
    BY DEF Pending, SamePool
  <2>3. /\ u.pool = t.pool /\ u.task = t.task /\ u.step = t.step
        /\ u.record = t.record /\ u.hears = t.hears /\ u.audio_enc = t.audio_enc
    BY DEF SamePool, SameRecord
  <2>4. QED
    BY <2>1, <2>2, <2>3 DEF RecordInv
<1>3. QED
  BY <1>1, <1>2 DEF RecordingInv

(* What is not yet created stays so, under a method that takes no pusher   *)
(* into a set, a task or a message.                                        *)
LEMMA BirthKept ==
    ASSUME NEW t, NEW u, NEW c, BirthInv(t, c), SamePool(t, u), SameLooper(t, u),
           SameRecord(t, u), SamePast(t, u), SamePause(t, u),
           u.lib \subseteq t.lib, u.camera \subseteq t.camera, u.started = t.started
    PROVE  BirthInv(u, c)
<1> SUFFICES ASSUME NEW k \in Pushers, k > c
             PROVE  Unborn(u, k)
  BY DEF BirthInv
<1>1. Unborn(t, k)
  BY DEF BirthInv
<1>2. Pending(u, k) <=> Pending(t, k)
  BY DEF Pending, SamePool
<1>3. QED
  BY <1>1, <1>2 DEF Unborn, SameLooper, SameRecord, SamePast, SamePause

(* stopPreview keeps the invariant: a preview that runs has the camera,    *)
(* the native objects and the encoder, so that the encoder is closed.      *)
LEMMA StopPreviewInv ==
    ASSUME NEW t, NEW f, NEW c, NEW k \in Pushers, Inv(t, f, c)
    PROVE  Inv(StopPreview(t, k), f, c)
<1> DEFINE u == StopPreview(t, k)
<1>1. t \in State
  BY DEF Inv
<1>2. /\ u \in State
      /\ u.camera = t.camera /\ u.users = t.users
      /\ u.previewing = t.previewing \ {k}
      /\ u.video_enc = IF k \in t.camera \cap t.previewing \cap t.lib THEN 0 ELSE t.video_enc
      /\ SameNative(t, u) /\ SameRecord(t, u) /\ SamePool(t, u) /\ SameLooper(t, u)
      /\ SamePause(t, u) /\ SameEnd(t, u) /\ SameLeak(t, u) /\ SamePast(t, u)
  BY <1>1, StopPreviewFields
<1> HIDE DEF u
<1>3. CameraInv(u, f)
  <2>1. CameraInv(t, f)
    BY DEF Inv
  <2>2. k \in t.previewing => u.video_enc = 0
    BY <1>2, <2>1 DEF CameraInv
  <2>3. k \notin t.previewing => u.video_enc = t.video_enc
    BY <1>2
  <2>4. ASSUME NEW j \in Pushers
        PROVE  j \in u.previewing <=> u.video_enc = j
    BY <1>2, <2>1, <2>2, <2>3, Numbers DEF CameraInv
  <2>5. QED
    BY <1>2, <2>1, <2>4 DEF CameraInv, SameNative, SameEnd, SamePause
<1>4. NativeInv(u, f)
  BY <1>2 DEF Inv, NativeInv, SameNative, SameEnd, SamePast
<1>5. BirthInv(u, c)
  BY <1>2, BirthKept DEF Inv, SameNative
<1>6. PausedInv(u, f, c)
  BY <1>2 DEF Inv, PausedInv, SamePause, SameNative, SamePast
<1>7. RecordingInv(u)
  BY <1>2, RecordingKept DEF Inv, SameNative, SamePause, SamePast
<1>8. HistoryInv(u)
  BY <1>2 DEF Inv, HistoryInv, SameLeak, SameEnd, SamePast, SameNative
<1>9. QED
  BY <1>2, <1>3, <1>4, <1>5, <1>6, <1>7, <1>8 DEF Inv, u

(* So does closeCamera, once no preview runs. *)
LEMMA CloseCameraInv ==
    ASSUME NEW t, NEW f, NEW c, NEW k \in Pushers, Inv(t, f, c), k \notin t.previewing
    PROVE  LET u == CloseCamera(t, k)
           IN  /\ Inv(u, f, c)
               /\ u.camera = t.camera \ {k}
               /\ SameNative(t, u) /\ SameRecord(t, u) /\ SamePool(t, u) /\ SameLooper(t, u)
               /\ SamePause(t, u) /\ SameEnd(t, u) /\ SamePast(t, u)
<1> DEFINE u == CloseCamera(t, k)
<1>1. t \in State /\ CameraInv(t, f)
  BY DEF Inv
<1>2. k \in t.camera => t.users = 1
  BY <1>1 DEF CameraInv
<1>3. /\ u \in State
      /\ u.camera = t.camera \ {k}
      /\ u.users = IF k \in t.camera THEN 0 ELSE t.users
      /\ u.previewing = IF k \in t.camera THEN t.previewing \ {k} ELSE t.previewing
      /\ u.video_enc = t.video_enc
      /\ SameNative(t, u) /\ SameRecord(t, u) /\ SamePool(t, u) /\ SameLooper(t, u)
      /\ SamePause(t, u) /\ SameEnd(t, u) /\ SameLeak(t, u) /\ SamePast(t, u)
  BY <1>1, <1>2, CloseCameraFields
<1> HIDE DEF u
<1>4. CameraInv(u, f)
  <2>1. u.previewing = t.previewing
    BY <1>3
  <2>2. u.users = IF u.camera = {} THEN 0 ELSE 1
    BY <1>1, <1>3 DEF CameraInv
  <2>3. u.previewing \subseteq (u.camera \cap u.lib) \ u.pausing
    BY <1>1, <1>3, <2>1 DEF CameraInv, SameNative, SamePause
  <2>4. QED
    BY <1>1, <1>3, <2>1, <2>2, <2>3 DEF CameraInv, SameEnd
<1>5. NativeInv(u, f)
  BY <1>3 DEF Inv, NativeInv, SameNative, SameEnd, SamePast
<1>6. BirthInv(u, c)
  BY <1>3, BirthKept DEF Inv, SameNative
<1>7. PausedInv(u, f, c)
  BY <1>3 DEF Inv, PausedInv, SamePause, SameNative, SamePast
<1>8. RecordingInv(u)
  BY <1>3, RecordingKept DEF Inv, SameNative, SamePause, SamePast
<1>9. HistoryInv(u)
  BY <1>3 DEF Inv, HistoryInv, SameLeak, SameEnd, SamePast, SameNative
<1>10. Inv(u, f, c)
  BY <1>3, <1>4, <1>5, <1>6, <1>7, <1>8, <1>9 DEF Inv
<1>11. QED
  BY <1>3, <1>10 DEF u

(* onPause keeps the invariant, of a pusher that was created: what it      *)
(* leaves behind is nothing, or an overlap.                                *)
LEMMA OnPauseInv ==
    ASSUME NEW t, NEW f, NEW c \in Int, NEW k \in Pushers, Inv(t, f, c), k <= c
    PROVE  LET u == OnPause(t, k)
           IN  /\ Inv(u, f, c)
               /\ k \in u.pausing /\ t.pausing \subseteq u.pausing
               /\ u.camera = t.camera \ {k}
               /\ SameNative(t, u) /\ SameLooper(t, u) /\ SameEnd(t, u)
<1> DEFINE u == OnPause(t, k)
<1>1. t \in State /\ CameraInv(t, f)
  BY DEF Inv
<1>2. k \in t.camera => t.users = 1
  BY <1>1 DEF CameraInv
<1>3. /\ u \in State
      /\ u.pausing = t.pausing \cup {k}
      /\ u.overlap = IF Pending(t, k) THEN t.overlap \cup {k} ELSE t.overlap
      /\ u.retried = t.retried /\ u.reopened = t.reopened
      /\ u.stripped = t.stripped /\ u.layout = t.layout
      /\ u.record = [t.record EXCEPT ![k] = "null"]
      /\ u.hears = t.hears \ {k}
      /\ u.audio_enc = IF t.record[k] # "null" /\ k \in t.lib THEN 0 ELSE t.audio_enc
      /\ u.camera = t.camera \ {k}
      /\ u.users = IF k \in t.camera THEN 0 ELSE t.users
      /\ u.previewing = t.previewing \ {k}
      /\ u.video_enc = IF k \in t.camera \cap t.previewing \cap t.lib THEN 0 ELSE t.video_enc
      /\ SameNative(t, u) /\ SamePool(t, u) /\ SameLooper(t, u)
      /\ SameEnd(t, u) /\ SameLeak(t, u)
  BY <1>1, <1>2, OnPauseFields
<1> HIDE DEF u
<1>4. \A j \in Pushers : Pending(u, j) <=> Pending(t, j)
  BY <1>3 DEF Pending, SamePool
<1>5. t.record \in [Pushers -> {"null", "ready", "recording"}]
  BY <1>1, Fields
<1>6. /\ u.record[k] = "null"
      /\ \A j \in Pushers \ {k} : u.record[j] = t.record[j]
  BY <1>3, <1>5
<1>7. CameraInv(u, f)
  <2>1. k \in t.previewing => u.video_enc = 0
    BY <1>3, <1>1 DEF CameraInv
  <2>2. k \notin t.previewing => u.video_enc = t.video_enc
    BY <1>3
  <2>3. ASSUME NEW j \in Pushers
        PROVE  j \in u.previewing <=> u.video_enc = j
    BY <1>1, <1>3, <2>1, <2>2, Numbers DEF CameraInv
  <2>4. u.users = IF u.camera = {} THEN 0 ELSE 1
    BY <1>1, <1>3 DEF CameraInv
  <2>5. u.previewing \subseteq (u.camera \cap u.lib) \ u.pausing
    BY <1>1, <1>3 DEF CameraInv, SameNative
  <2>6. QED
    BY <1>1, <1>3, <2>3, <2>4, <2>5 DEF CameraInv, SameEnd
<1>8. NativeInv(u, f)
  BY <1>3 DEF Inv, NativeInv, SameNative, SameEnd
<1>9. ASSUME NEW j \in Pushers, j > c
      PROVE  Unborn(u, j)
  <2>1. Unborn(t, j)
    BY <1>9 DEF Inv, BirthInv
  <2>2. j # k
    BY <1>9 DEF Pushers
  <2>3. u.audio_enc # j
    BY <1>3, <2>1, Numbers DEF Unborn
  <2>4. QED
    BY <1>3, <1>4, <1>6, <2>1, <2>2, <2>3 DEF Unborn, SameNative, SameLooper
<1>10. PausedInv(u, f, c)
  BY <1>3 DEF Inv, PausedInv, SameNative
<1>11. RecordingInv(u)
  <2>1. u.step = "idle" <=> u.task = 0
    BY <1>3 DEF Inv, RecordingInv, SamePool
  <2>2. ASSUME NEW j \in Pushers \ u.overlap
        PROVE  RecordInv(u, j)
    <3>1. RecordInv(t, j)
      BY <1>3, <2>2 DEF Inv, RecordingInv
    <3>2. u.pool = t.pool /\ u.task = t.task /\ u.step = t.step /\ u.lib = t.lib
      BY <1>3 DEF SamePool, SameNative
    <3>3. CASE j = k
      <4>1. ~Pending(t, k)
        BY <1>3, <2>2, <3>3
      <4>2. u.audio_enc # k
        BY <1>3, <3>1, <3>3, Numbers DEF RecordInv
      <4>3. u.task # k /\ ~Pending(u, k)
        BY <1>4, <4>1 DEF Pending
      <4>4. k \notin ToSet(u.pool)
        BY <4>3 DEF Pending
      <4>5. \A i, h \in DOMAIN u.pool : u.pool[i] = k /\ u.pool[h] = k => i = h
        BY <3>1, <3>2, <3>3 DEF RecordInv
      <4>6. QED
        BY <1>6, <3>3, <4>2, <4>3, <4>5 DEF RecordInv
    <3>4. CASE j # k
      <4>1. u.record[j] = t.record[j]
        BY <1>6, <3>4
      <4>2. u.audio_enc = j => t.audio_enc = j
        BY <1>3, Numbers
      <4>3. j \in u.pausing <=> j \in t.pausing
        BY <1>3, <3>4
      <4>4. j \in u.hears \cup u.retried <=> j \in t.hears \cup t.retried
        BY <1>3, <3>4
      <4>5. u.reopened = t.reopened
        BY <1>3
      <4>6. Pending(u, j) <=> Pending(t, j)
        BY <1>4
      <4>7. QED
        BY <3>1, <3>2, <4>1, <4>2, <4>3, <4>4, <4>5, <4>6 DEF RecordInv
    <3>5. QED
      BY <3>3, <3>4
  <2>3. QED
    BY <2>1, <2>2 DEF RecordingInv
<1>12. HistoryInv(u)
  BY <1>3 DEF Inv, HistoryInv, SameLeak, SameEnd, SameNative
<1>13. Inv(u, f, c)
  BY <1>3, <1>7, <1>8, <1>9, <1>10, <1>11, <1>12 DEF Inv, BirthInv
<1>14. QED
  BY <1>3, <1>13 DEF u

(* mLibFQRtmp.release and the reference to it, at the end of close. *)
Released(t, k) == [NativeRelease(t, k) EXCEPT !.lib = @ \ {k}]

(* Nothing is native of a pusher once it is released; only for one whose   *)
(* nativeNew never made its own is a deleted reference met.                *)
LEMMA ReleasedFields ==
    ASSUME NEW t \in State, NEW k \in Pushers
    PROVE  LET u == Released(t, k)
           IN  /\ u \in State
               /\ u.lib = t.lib \ {k} /\ u.rtmp_hdlr = 0 /\ u.started = t.started
               /\ IF t.weak_thiz = "deleted" THEN u.crash = "deleted ref" /\ u.by = k
                  ELSE SameEnd(t, u)
               /\ SameCamera(t, u) /\ SameRecord(t, u) /\ SamePool(t, u) /\ SameLooper(t, u)
               /\ SamePause(t, u) /\ SameLeak(t, u) /\ SamePast(t, u)
<1> DEFINE l == t.lib \ {k}
           r == 0
           w == IF t.weak_thiz = "live" THEN "deleted" ELSE t.weak_thiz
           e == IF t.weak_thiz = "deleted" THEN "deleted ref" ELSE t.crash
           b == IF t.weak_thiz = "deleted" THEN k ELSE t.by
           u == [t EXCEPT !.lib = l, !.rtmp_hdlr = r, !.weak_thiz = w, !.crash = e, !.by = b]
<1>1. /\ t.lib \in SUBSET Pushers /\ t.weak_thiz \in {"null", "live", "deleted"}
      /\ t.crash \in {"none", "null", "no view", "assertion", "deleted ref"} /\ t.by \in 0..MaxPushers
  BY Fields
<1>2. /\ l \in SUBSET Pushers /\ r \in 0..MaxPushers /\ w \in {"null", "live", "deleted"}
      /\ e \in {"none", "null", "no view", "assertion", "deleted ref"} /\ b \in 0..MaxPushers
  BY <1>1, Numbers
<1>3. Released(t, k) = u
  <2>1. CASE t.weak_thiz = "deleted"
    BY <2>1 DEF Released, NativeRelease, Crash, State
  <2>2. CASE t.weak_thiz # "deleted"
    BY <2>2 DEF Released, NativeRelease, State
  <2>3. QED
    BY <2>1, <2>2
<1> HIDE DEF l, r, w, e, b
<1>4. u \in State
  BY <1>2 DEF State
<1>5. /\ u.lib = l /\ u.rtmp_hdlr = r /\ u.started = t.started /\ u.crash = e /\ u.by = b
      /\ SameCamera(t, u) /\ SameRecord(t, u) /\ SamePool(t, u) /\ SameLooper(t, u)
      /\ SamePause(t, u) /\ SameLeak(t, u) /\ SamePast(t, u)
  BY DEF State, SameCamera, SameRecord, SamePool, SameLooper, SamePause, SameLeak, SamePast
<1> HIDE DEF u
<1>6. IF t.weak_thiz = "deleted" THEN u.crash = "deleted ref" /\ u.by = k ELSE SameEnd(t, u)
  BY <1>5 DEF e, b, SameEnd
<1>7. QED
  BY <1>3, <1>4, <1>5, <1>6 DEF l, r

(* The release keeps the invariant, of a paused pusher without the camera. *)
LEMMA ReleasedInv ==
    ASSUME NEW t, NEW f, NEW c, NEW k \in Pushers, Inv(t, f, c), t.crash = "none",
           k \in t.lib, k \in t.pausing, k \notin t.camera
    PROVE  LET u == Released(t, k)
           IN  /\ Inv(u, f, c) /\ k \notin u.lib
               /\ SameCamera(t, u) /\ SamePause(t, u)
<1> DEFINE u == Released(t, k)
<1>1. t \in State /\ t.lib \subseteq {f} /\ k = f
  BY DEF Inv, NativeInv
<1>2. /\ u \in State
      /\ u.lib = t.lib \ {k} /\ u.rtmp_hdlr = 0 /\ u.started = t.started
      /\ IF t.weak_thiz = "deleted" THEN u.crash = "deleted ref" /\ u.by = k ELSE SameEnd(t, u)
      /\ SameCamera(t, u) /\ SameRecord(t, u) /\ SamePool(t, u) /\ SameLooper(t, u)
      /\ SamePause(t, u) /\ SameLeak(t, u) /\ SamePast(t, u)
  BY <1>1, ReleasedFields
<1> HIDE DEF u
<1>3. u.crash \notin {"assertion", "null", "no view"}
  BY <1>2 DEF SameEnd
<1>4. CameraInv(u, f)
  <2>1. u.previewing \subseteq (u.camera \cap u.lib) \ u.pausing
    BY <1>2 DEF Inv, CameraInv, SameCamera, SamePause
  <2>2. QED
    BY <1>2, <1>3, <2>1 DEF Inv, CameraInv, SameCamera
<1>5. NativeInv(u, f)
  <2>1. u.lib = {}
    BY <1>1, <1>2
  <2>2. t.camera \subseteq t.lib /\ u.camera = t.camera
    BY <1>2 DEF Inv, NativeInv, SameCamera
  <2>3. u.camera = {}
    BY <1>1, <2>2
  <2>4. u.layout \in {0, f}
    BY <1>2 DEF Inv, NativeInv, SamePast
  <2>5. QED
    BY <1>2, <2>1, <2>3, <2>4 DEF NativeInv
<1>6. BirthInv(u, c)
  BY <1>2, BirthKept DEF Inv, SameCamera
<1>7. PausedInv(u, f, c)
  BY <1>2 DEF Inv, PausedInv, SamePause, SamePast
<1>8. RecordingInv(u)
  BY <1>2, RecordingKept DEF Inv, SamePause, SamePast
<1>9. HistoryInv(u)
  <2>1. u.crash = "deleted ref" => u.by \notin u.started
    <3>1. CASE t.weak_thiz = "deleted"
      <4>1. k \notin t.started
        BY <3>1 DEF Inv, NativeInv
      <4>2. QED
        BY <1>2, <3>1, <4>1
    <3>2. CASE t.weak_thiz # "deleted"
      BY <1>2, <3>2 DEF SameEnd
    <3>3. QED
      BY <3>1, <3>2
  <2>2. QED
    BY <1>2, <1>3, <2>1 DEF Inv, HistoryInv, SameLeak, SamePast
<1>10. Inv(u, f, c)
  BY <1>2, <1>4, <1>5, <1>6, <1>7, <1>8, <1>9 DEF Inv
<1>11. QED
  BY <1>2, <1>10 DEF u

(* The layout of a pusher may go, if the history says so of one that has   *)
(* native objects.                                                         *)
LEMMA LayoutGoneInv ==
    ASSUME NEW t, NEW u \in State, NEW f, NEW c, Inv(t, f, c),
           u.layout = 0, t.stripped \subseteq u.stripped, \A j \in t.lib : j \in u.stripped,
           u.overlap = t.overlap, u.retried = t.retried, u.reopened = t.reopened,
           SameCamera(t, u), SameNative(t, u), SameRecord(t, u), SamePool(t, u),
           SameLooper(t, u), SamePause(t, u), SameEnd(t, u), SameLeak(t, u)
    PROVE  Inv(u, f, c)
<1>1. CameraInv(u, f)
  BY DEF Inv, CameraInv, SameCamera, SameNative, SamePause, SameEnd
<1>2. NativeInv(u, f)
  BY DEF Inv, NativeInv, SameNative, SameCamera, SameEnd
<1>3. ASSUME NEW j \in Pushers, j > c
      PROVE  Unborn(u, j)
  <2>1. Unborn(t, j)
    BY <1>3 DEF Inv, BirthInv
  <2>2. Pending(u, j) <=> Pending(t, j)
    BY DEF Pending, SamePool
  <2>3. QED
    BY <2>1, <2>2 DEF Unborn, SameNative, SameCamera, SameRecord, SameLooper, SamePause
<1>4. PausedInv(u, f, c)
  BY DEF Inv, PausedInv, SamePause, SameNative
<1>5. RecordingInv(u)
  BY RecordingKept DEF Inv, SameNative, SamePause
<1>6. HistoryInv(u)
  BY DEF Inv, HistoryInv, SameLeak, SameEnd, SameNative
<1>7. QED
  BY <1>1, <1>2, <1>3, <1>4, <1>5, <1>6 DEF Inv, BirthInv

(* setContentView(R.layout.info), by a pusher without native objects: the  *)
(* layout it takes away is its own, or recorded in the history.            *)
LEMMA ShowInfoInv ==
    ASSUME NEW t, NEW f, NEW c, NEW k \in Pushers, Inv(t, f, c), k \notin t.lib
    PROVE  LET u == ShowInfo(t, k)
           IN  /\ Inv(u, f, c) /\ u.layout = 0
               /\ SameCamera(t, u) /\ SameNative(t, u) /\ SamePause(t, u)
<1> DEFINE n == 0
           d == IF t.layout \in {0, k} THEN t.stripped ELSE t.stripped \cup {t.layout}
           u == [t EXCEPT !.layout = n, !.stripped = d]
<1>1. t \in State /\ t.layout \in 0..MaxPushers /\ t.stripped \in SUBSET Pushers
      /\ t.lib \in SUBSET Pushers
  BY Fields DEF Inv
<1>2. d \in SUBSET Pushers /\ n \in 0..MaxPushers /\ n = 0
      /\ t.stripped \subseteq d /\ (t.layout \notin {0, k} => t.layout \in d)
  BY <1>1, Numbers
<1>3. ShowInfo(t, k) = u
  BY DEF ShowInfo, State
<1> HIDE DEF n, d
<1>4. u \in State
  BY ZenonT(60), <1>1, <1>2 DEF State
<1>5. /\ u.layout = n /\ u.stripped = d
      /\ u.overlap = t.overlap /\ u.retried = t.retried /\ u.reopened = t.reopened
      /\ SameCamera(t, u) /\ SameNative(t, u) /\ SameRecord(t, u) /\ SamePool(t, u)
      /\ SameLooper(t, u) /\ SamePause(t, u) /\ SameEnd(t, u) /\ SameLeak(t, u)
  BY <1>1 DEF State, SameCamera, SameNative, SameRecord, SamePool, SameLooper, SamePause,
     SameEnd, SameLeak
<1> HIDE DEF u
<1>6. \A j \in t.lib : j \in d
  BY <1>1, <1>2, Numbers DEF Inv, NativeInv
<1>7. Inv(u, f, c)
  BY <1>2, <1>4, <1>5, <1>6, LayoutGoneInv
<1>8. QED
  BY <1>2, <1>3, <1>5, <1>7

(* close, by the main thread or for an error's message, keeps it and       *)
(* leaves the pusher paused, with neither camera nor native objects, and   *)
(* no live layout.                                                         *)
LEMMA CloseInv ==
    ASSUME NEW t, NEW f, NEW c \in Int, NEW k \in Pushers, Inv(t, f, c), k <= c,
           t.crash = "none"
    PROVE  LET u == Close(t, k)
           IN  /\ Inv(u, f, c)
               /\ k \notin u.lib /\ k \notin u.camera /\ k \in u.pausing
               /\ t.pausing \subseteq u.pausing /\ u.layout = 0
<1> DEFINE o == IF k \in t.pausing THEN t ELSE OnPause(t, k)
<1>1. /\ Inv(o, f, c) /\ o.crash = "none"
      /\ k \in o.pausing /\ t.pausing \subseteq o.pausing
  <2>1. CASE k \in t.pausing
    BY <2>1
  <2>2. CASE k \notin t.pausing
    <3> DEFINE x == OnPause(t, k)
    <3>1. Inv(x, f, c) /\ SameEnd(t, x)
      BY OnPauseInv
    <3>2. k \in x.pausing /\ t.pausing \subseteq x.pausing
      BY OnPauseInv
    <3>3. o = x
      BY <2>2
    <3> HIDE DEF x, o
    <3>4. QED
      BY <3>1, <3>2, <3>3 DEF SameEnd
  <2>3. QED
    BY <2>1, <2>2
<1> DEFINE p == CloseCamera(o, k)
           r == IF k \in p.lib THEN Released(p, k) ELSE p
           z == Close(t, k)
<1>2. z = ShowInfo(r, k)
  BY DEF Close, Released
<1> HIDE DEF p, r, z
<1> HIDE DEF o
<1>3. k \notin o.previewing
  BY <1>1 DEF Inv, CameraInv
<1>4. Inv(p, f, c) /\ p.camera = o.camera \ {k} /\ SamePause(o, p) /\ SameEnd(o, p)
  BY <1>1, <1>3, CloseCameraInv DEF p
<1>5. p.crash = "none" /\ k \in p.pausing /\ k \notin p.camera /\ t.pausing \subseteq p.pausing
  BY <1>1, <1>4 DEF SameEnd, SamePause
<1>6. /\ Inv(r, f, c) /\ k \notin r.lib /\ k \notin r.camera /\ k \in r.pausing
      /\ t.pausing \subseteq r.pausing
  <2>1. CASE k \in p.lib
    <3> DEFINE v == Released(p, k)
    <3>1. Inv(v, f, c) /\ k \notin v.lib /\ SameCamera(p, v) /\ SamePause(p, v)
      BY <1>4, <1>5, <2>1, ReleasedInv
    <3>2. r = v
      BY <2>1 DEF r
    <3> HIDE DEF v
    <3>3. QED
      BY <1>5, <3>1, <3>2 DEF SameCamera, SamePause
  <2>2. CASE k \notin p.lib
    BY <1>4, <1>5, <2>2 DEF r
  <2>3. QED
    BY <2>1, <2>2
<1>7. Inv(z, f, c) /\ z.layout = 0 /\ SameCamera(r, z) /\ SameNative(r, z) /\ SamePause(r, z)
  BY <1>2, <1>6, ShowInfoInv
<1>8. QED
  BY <1>6, <1>7 DEF SameCamera, SameNative, SamePause, z

(* The invariant is not about start_fail, finishing or idx. *)
LEMMA SameInv ==
    ASSUME NEW t, NEW u \in State, NEW f, NEW c, Inv(t, f, c),
           SameCamera(t, u), SameNative(t, u), SameRecord(t, u), SamePool(t, u),
           SameLooper(t, u), SamePause(t, u), SameEnd(t, u), SameLeak(t, u), SamePast(t, u)
    PROVE  Inv(u, f, c)
<1>1. CameraInv(u, f)
  BY DEF Inv, CameraInv, SameCamera, SameNative, SamePause, SameEnd
<1>2. NativeInv(u, f)
  BY DEF Inv, NativeInv, SameNative, SameCamera, SameEnd, SamePast
<1>3. BirthInv(u, c)
  BY BirthKept DEF Inv, SameNative, SameCamera
<1>4. PausedInv(u, f, c)
  BY DEF Inv, PausedInv, SamePause, SameNative, SamePast
<1>5. RecordingInv(u)
  BY RecordingKept DEF Inv, SameNative, SamePause, SamePast
<1>6. HistoryInv(u)
  BY DEF Inv, HistoryInv, SameLeak, SameEnd, SamePast, SameNative
<1>7. QED
  BY <1>1, <1>2, <1>3, <1>4, <1>5, <1>6 DEF Inv

(* A message to a pusher that was created keeps the invariant. *)
LEMMA PostInv ==
    ASSUME NEW t, NEW f, NEW c \in Int, NEW what \in {"failed", "error"}, NEW k \in Pushers,
           Inv(t, f, c), k <= c
    PROVE  LET u == Post(t, what, k)
           IN  /\ Inv(u, f, c)
               /\ SameCamera(t, u) /\ SameNative(t, u) /\ SameRecord(t, u) /\ SamePool(t, u)
               /\ SamePause(t, u) /\ SameEnd(t, u) /\ SameLeak(t, u) /\ SamePast(t, u)
<1> DEFINE m == [what |-> what, to |-> k]
           q == Append(t.looper, m)
           u == [t EXCEPT !.looper = q]
<1>1. t \in State /\ t.looper \in Seq(Message)
  BY Fields DEF Inv
<1>2. m \in Message /\ m.to = k
  BY DEF Message
<1>3. u = Post(t, what, k)
  BY <1>1 DEF Post, State
<1> HIDE DEF m
<1>4. /\ q \in Seq(Message)
      /\ \A i \in DOMAIN q : (\E h \in DOMAIN t.looper : q[i] = t.looper[h]) \/ q[i] = m
  BY <1>1, <1>2
<1> HIDE DEF q
<1>5. u \in State
  BY <1>1, <1>4 DEF State
<1>6. /\ u.looper = q
      /\ SameCamera(t, u) /\ SameNative(t, u) /\ SameRecord(t, u) /\ SamePool(t, u)
      /\ SamePause(t, u) /\ SameEnd(t, u) /\ SameLeak(t, u) /\ SamePast(t, u)
  BY <1>1 DEF State, SameCamera, SameNative, SameRecord, SamePool, SamePause, SameEnd,
     SameLeak, SamePast
<1> HIDE DEF u
<1>7. CameraInv(u, f)
  BY <1>6 DEF Inv, CameraInv, SameCamera, SameNative, SamePause, SameEnd
<1>8. NativeInv(u, f)
  BY <1>6 DEF Inv, NativeInv, SameNative, SameCamera, SameEnd, SamePast
<1>9. ASSUME NEW j \in Pushers, j > c
      PROVE  Unborn(u, j)
  <2>1. Unborn(t, j)
    BY <1>9 DEF Inv, BirthInv
  <2>2. \A i \in DOMAIN q : q[i].to # j
    BY <1>2, <1>4, <1>9, <2>1 DEF Unborn, Pushers
  <2>3. Pending(u, j) <=> Pending(t, j)
    BY <1>6 DEF Pending, SamePool
  <2>4. QED
    BY <1>6, <2>1, <2>2, <2>3 DEF Unborn, SameNative, SameCamera, SameRecord, SamePause, SamePast
<1>10. PausedInv(u, f, c)
  BY <1>6 DEF Inv, PausedInv, SamePause, SameNative, SamePast
<1>11. RecordingInv(u)
  BY <1>6, RecordingKept DEF Inv, SameNative, SamePause, SamePast
<1>12. HistoryInv(u)
  BY <1>6 DEF Inv, HistoryInv, SameLeak, SameEnd, SamePast, SameNative
<1>13. Inv(u, f, c)
  BY <1>5, <1>7, <1>8, <1>9, <1>10, <1>11, <1>12 DEF Inv, BirthInv
<1>14. QED
  BY <1>3, <1>6, <1>13 DEF u

(* A pusher that the activity leaves is closed and paused, its layout not  *)
(* shown.                                                                  *)
LEMMA LeaveInv ==
    ASSUME NEW t, NEW f, NEW c, Inv(t, f, c), t.lib = {}, t.camera = {},
           f = 0 \/ f \in t.pausing, t.layout = 0
    PROVE  Inv(t, 0, c)
<1>1. CameraInv(t, 0) /\ NativeInv(t, 0)
  BY DEF Inv, CameraInv, NativeInv
<1>2. PausedInv(t, 0, c)
  BY DEF Inv, PausedInv
<1>3. QED
  BY <1>1, <1>2 DEF Inv

(* A new pusher comes with its LibFQRtmp and its layout, and with nothing  *)
(* that the invariant of a recording is about.                             *)
Born(t, k) == [t EXCEPT !.lib = @ \cup {k}, !.layout = k]

LEMMA CreateInv ==
    ASSUME NEW t, NEW c \in Nat, NEW k \in Pushers, k = c + 1, Inv(t, 0, c)
    PROVE  LET u == Born(t, k)
           IN  /\ Inv(u, k, k)
               /\ k \in u.lib /\ u.rtmp_hdlr = 0 /\ SameEnd(t, u)
               /\ ~Pending(u, k) /\ u.record[k] = "null" /\ u.audio_enc # k
<1> DEFINE l == t.lib \cup {k}
           v == k
           u == [t EXCEPT !.lib = l, !.layout = v]
<1>1. t \in State /\ t.lib \in SUBSET Pushers /\ t.camera \in SUBSET Pushers
      /\ t.rtmp_hdlr \in 0..MaxPushers
  BY Fields DEF Inv
<1>2. t.lib = {} /\ t.camera = {}
  BY <1>1, Numbers DEF Inv, CameraInv, NativeInv
<1>3. l = {k} /\ l \in SUBSET Pushers /\ v = k /\ v \in 0..MaxPushers
  BY <1>2, Numbers
<1>4. u = Born(t, k)
  BY <1>1 DEF Born, State
<1> HIDE DEF l, v
<1>5. u \in State
  BY ZenonT(60), <1>1, <1>3 DEF State
<1>6. /\ u.lib = l /\ u.rtmp_hdlr = t.rtmp_hdlr /\ u.weak_thiz = t.weak_thiz
      /\ u.started = t.started /\ u.layout = v
      /\ u.overlap = t.overlap /\ u.retried = t.retried /\ u.reopened = t.reopened
      /\ u.stripped = t.stripped
      /\ SameCamera(t, u) /\ SameRecord(t, u) /\ SamePool(t, u) /\ SameLooper(t, u)
      /\ SamePause(t, u) /\ SameEnd(t, u) /\ SameLeak(t, u)
  BY <1>1 DEF State, SameCamera, SameRecord, SamePool, SameLooper, SamePause, SameEnd,
     SameLeak
<1> HIDE DEF u
<1>7. Unborn(t, k)
  BY DEF Inv, BirthInv
<1>8. \A j \in Pushers : Pending(u, j) <=> Pending(t, j)
  BY <1>6 DEF Pending, SamePool
<1>9. u.rtmp_hdlr = 0
  BY <1>2, <1>6 DEF Inv, NativeInv
<1>10. CameraInv(u, k)
  BY <1>2, <1>6 DEF Inv, CameraInv, SameCamera, SamePause, SameEnd
<1>11. NativeInv(u, k)
  BY <1>2, <1>3, <1>6, <1>7, <1>9 DEF NativeInv, SameCamera, Unborn
<1>12. ASSUME NEW j \in Pushers, j > k
       PROVE  Unborn(u, j)
  <2>1. Unborn(t, j) /\ j \notin l
    BY <1>3, <1>12 DEF Inv, BirthInv, Pushers
  <2>2. QED
    BY <1>6, <1>8, <2>1 DEF Unborn, SameCamera, SameRecord, SameLooper, SamePause
<1>13. PausedInv(u, k, k)
  <2>1. ASSUME NEW j \in 1..k, j # k
        PROVE  j \in u.pausing
    BY <1>6, <2>1 DEF Inv, PausedInv, SamePause, Pushers
  <2>2. QED
    BY <1>3, <1>6, <2>1 DEF PausedInv
<1>14. RecordingInv(u)
  BY <1>2, <1>6, RecordingKept DEF Inv, SamePause
<1>15. HistoryInv(u)
  BY <1>6 DEF Inv, HistoryInv, SameLeak, SameEnd
<1>16. Inv(u, k, k)
  BY <1>5, <1>10, <1>11, <1>12, <1>13, <1>14, <1>15 DEF Inv, BirthInv
<1>17. /\ k \in u.lib
       /\ ~Pending(u, k) /\ u.record[k] = "null" /\ u.audio_enc # k
  BY <1>3, <1>6, <1>7, <1>8 DEF Unborn, SameRecord
<1>18. QED
  BY <1>4, <1>6, <1>9, <1>16, <1>17

(* nativeNew, when nothing native is left of another pusher: it leaks      *)
(* nothing, and makes the weak reference anew.                             *)
LEMMA NativeNewInv ==
    ASSUME NEW t, NEW c \in Nat, NEW k \in Pushers, NEW url \in Url, k <= c,
           Inv(t, k, c), t.crash = "none", k \in t.lib, t.rtmp_hdlr = 0
    PROVE  LET u == NativeNew(t, k, url)
           IN  /\ Inv(u, k, c)
               /\ SameCamera(t, u) /\ SameRecord(t, u) /\ SamePool(t, u)
               /\ SamePause(t, u) /\ SameEnd(t, u) /\ SamePast(t, u)
<1> DEFINE w == "live"
           d == t.started \cup {k}
           h == k
           u == [t EXCEPT !.weak_thiz = w, !.rtmp_hdlr = h, !.started = d]
<1>1. t \in State /\ t.started \in SUBSET Pushers /\ t.leaked \in BOOLEAN
  BY Fields DEF Inv
<1>2. /\ w \in {"null", "live", "deleted"} /\ d \in SUBSET Pushers /\ h \in 0..MaxPushers
  BY <1>1, Numbers
<1>3. ASSUME url # "unparsed"
      PROVE  NativeNew(t, k, url) = IF url = "failed" THEN Post(u, "failed", k) ELSE u
  <2>1. Leak(t, t.rtmp_hdlr # 0) = t
    BY <1>1 DEF Leak, State
  <2>2. QED
    BY <1>1, <1>3, <2>1 DEF NativeNew, State
<1> HIDE DEF w, d, h
<1>4. u \in State
  BY ZenonT(60), <1>1, <1>2 DEF State
<1>5. /\ u.lib = t.lib /\ u.rtmp_hdlr = h /\ u.weak_thiz = w /\ u.started = d
      /\ SameCamera(t, u) /\ SameRecord(t, u) /\ SamePool(t, u) /\ SameLooper(t, u)
      /\ SamePause(t, u) /\ SameEnd(t, u) /\ SameLeak(t, u) /\ SamePast(t, u)
  BY ZenonT(60), <1>1 DEF State, SameCamera, SameRecord, SamePool, SameLooper, SamePause, SameEnd,
     SameLeak, SamePast
<1> HIDE DEF u
<1>6. CameraInv(u, k)
  BY <1>5 DEF Inv, CameraInv, SameCamera, SamePause, SameEnd
<1>7. NativeInv(u, k)
  BY <1>5 DEF Inv, NativeInv, SameCamera, SameEnd, SamePast, h, w
<1>8. ASSUME NEW j \in Pushers, j > c
      PROVE  Unborn(u, j)
  <2>1. Unborn(t, j) /\ j # k
    BY <1>8 DEF Inv, BirthInv, Pushers
  <2>2. Pending(u, j) <=> Pending(t, j)
    BY <1>5 DEF Pending, SamePool
  <2>3. QED
    BY <1>5, <2>1, <2>2 DEF Unborn, SameCamera, SameRecord, SameLooper, SamePause, SamePast, d
<1>9. PausedInv(u, k, c)
  BY <1>5 DEF Inv, PausedInv, SamePause, SamePast
<1>10. RecordingInv(u)
  BY <1>5, RecordingKept DEF Inv, SamePause, SamePast
<1>11. HistoryInv(u)
  BY <1>5 DEF Inv, HistoryInv, SameLeak, SameEnd, SamePast
<1>12. Inv(u, k, c)
  BY <1>4, <1>6, <1>7, <1>8, <1>9, <1>10, <1>11 DEF Inv, BirthInv
<1>13. CASE url = "unparsed"
  BY <1>13 DEF NativeNew, SameCamera, SameRecord, SamePool, SamePause, SameEnd, SamePast
<1>14. CASE url = "failed"
  <2> DEFINE p == Post(u, "failed", k)
  <2>1. /\ Inv(p, k, c)
        /\ SameCamera(u, p) /\ SameRecord(u, p) /\ SamePool(u, p)
        /\ SamePause(u, p) /\ SameEnd(u, p) /\ SamePast(u, p)
    BY <1>12, PostInv
  <2>2. NativeNew(t, k, url) = p
    BY <1>3, <1>14
  <2> HIDE DEF p
  <2>3. QED
    BY <1>5, <2>1, <2>2 DEF SameCamera, SameRecord, SamePool, SamePause, SameEnd, SamePast
<1>15. CASE url \notin {"unparsed", "failed"}
  <2>1. NativeNew(t, k, url) = u
    BY <1>3, <1>15
  <2>2. QED
    BY <1>5, <1>12, <2>1
<1>16. QED
  BY <1>13, <1>14, <1>15

(* ensureCameraDevice of the activity's pusher: nobody else has the camera *)
(* and the assertion of CameraHolder.open holds.  A pusher resumed without *)
(* native objects is allowed the camera where it has crashed.              *)
LEMMA EnsureInv ==
    ASSUME NEW t, NEW c \in Nat, NEW k \in Pushers, Inv(t, k, c), k <= c,
           k \in t.lib \/ (k \in t.reopened /\ t.crash # "none")
    PROVE  LET u == EnsureCameraDevice(t, k)
           IN  /\ Inv(u, k, c)
               /\ u.camera = {k} /\ u.previewing = t.previewing
               /\ SameNative(t, u) /\ SameRecord(t, u) /\ SamePool(t, u)
               /\ SamePause(t, u) /\ SameEnd(t, u) /\ SamePast(t, u)
<1>1. /\ t \in State /\ t.camera \in SUBSET Pushers /\ t.camera \subseteq {k}
      /\ t.users = IF t.camera = {} THEN 0 ELSE 1
  BY Fields DEF Inv, CameraInv
<1>2. CASE k \in t.camera
  <2>1. EnsureCameraDevice(t, k) = t
    BY <1>2 DEF EnsureCameraDevice
  <2>2. t.camera = {k}
    BY <1>1, <1>2
  <2>3. QED
    BY <2>1, <2>2 DEF SameNative, SameRecord, SamePool, SamePause, SameEnd, SamePast
<1>3. CASE k \notin t.camera
  <2> DEFINE a == t.camera \cup {k}
             n == 1
             u == [t EXCEPT !.users = n, !.camera = a]
  <2>1. t.camera = {} /\ t.users = 0
    BY <1>1, <1>3
  <2>2. a = {k} /\ a \in SUBSET Pushers /\ n \in 0..1
    BY <2>1
  <2>3. EnsureCameraDevice(t, k) = u
    BY <1>1, <1>3, <2>1 DEF EnsureCameraDevice, State
  <2>4. n = 1
    OBVIOUS
  <2> HIDE DEF a, n
  <2>5. u \in State
    BY <1>1, <2>2 DEF State
  <2>6. /\ u.camera = a /\ u.users = n /\ u.previewing = t.previewing
        /\ u.video_enc = t.video_enc
        /\ SameNative(t, u) /\ SameRecord(t, u) /\ SamePool(t, u) /\ SameLooper(t, u)
        /\ SamePause(t, u) /\ SameEnd(t, u) /\ SameLeak(t, u) /\ SamePast(t, u)
    BY <1>1 DEF State, SameNative, SameRecord, SamePool, SameLooper, SamePause, SameEnd,
       SameLeak, SamePast
  <2> HIDE DEF u
  <2>7. CameraInv(u, k)
    <3>1. t.previewing = {}
      BY <2>1 DEF Inv, CameraInv
    <3>2. u.users = IF u.camera = {} THEN 0 ELSE 1
      BY <2>2, <2>4, <2>6
    <3>3. QED
      BY <2>2, <2>6, <3>1, <3>2 DEF Inv, CameraInv, SameEnd
  <2>8. NativeInv(u, k)
    BY <2>2, <2>6 DEF Inv, NativeInv, SameNative, SamePast, SameEnd
  <2>9. ASSUME NEW j \in Pushers, j > c
        PROVE  Unborn(u, j)
    <3>1. Unborn(t, j) /\ j # k
      BY <2>9 DEF Inv, BirthInv, Pushers
    <3>2. Pending(u, j) <=> Pending(t, j)
      BY <2>6 DEF Pending, SamePool
    <3>3. QED
      BY <2>2, <2>6, <3>1, <3>2
         DEF Unborn, SameNative, SameRecord, SameLooper, SamePause, SamePast
  <2>10. PausedInv(u, k, c)
    BY <2>6 DEF Inv, PausedInv, SamePause, SameNative, SamePast
  <2>11. RecordingInv(u)
    BY <2>6, RecordingKept DEF Inv, SameNative, SamePause, SamePast
  <2>12. HistoryInv(u)
    BY <2>6 DEF Inv, HistoryInv, SameLeak, SameEnd, SamePast, SameNative
  <2>13. Inv(u, k, c)
    BY <2>5, <2>7, <2>8, <2>9, <2>10, <2>11, <2>12 DEF Inv, BirthInv
  <2>14. QED
    BY <2>2, <2>3, <2>6, <2>13
<1>4. QED
  BY <1>2, <1>3

(* openVideoEncoder of a pusher that has the camera and previews nothing:  *)
(* no other encoder is open to be leaked.                                  *)
LEMMA OpenEncoderInv ==
    ASSUME NEW t, NEW c \in Nat, NEW k \in Pushers, NEW ok \in BOOLEAN, Inv(t, k, c), k <= c,
           k \in t.lib, k \in t.camera, k \notin t.pausing, k \notin t.previewing
    PROVE  LET u == OpenVideoEncoder(t, k, ok)
           IN  /\ Inv(u, k, c)
               /\ SameRecord(t, u) /\ SamePool(t, u) /\ SamePause(t, u) /\ SamePast(t, u)
               /\ SameNative(t, u)
<1>1. t \in State /\ t.video_enc \in 0..MaxPushers /\ t.previewing \in SUBSET Pushers
      /\ t.leaked \in BOOLEAN
  BY Fields DEF Inv
<1>2. t.previewing = {} /\ t.video_enc = 0
  BY <1>1, Numbers DEF Inv, CameraInv
<1>3. Leak(t, t.video_enc # 0) = t
  BY <1>1, <1>2 DEF Leak, State
<1>4. CASE ok
  <2> DEFINE p == t.previewing \cup {k}
             v == k
             u == [t EXCEPT !.video_enc = v, !.previewing = p]
  <2>1. p = {k} /\ p \in SUBSET Pushers /\ v \in 0..MaxPushers /\ v = k
    BY <1>2, Numbers
  <2>2. OpenVideoEncoder(t, k, ok) = u
    BY <1>1, <1>3, <1>4 DEF OpenVideoEncoder, State
  <2> HIDE DEF p, v
  <2>3. u \in State
    BY ZenonT(60), <1>1, <2>1 DEF State
  <2>4. /\ u.camera = t.camera /\ u.users = t.users /\ u.previewing = p /\ u.video_enc = v
        /\ SameNative(t, u) /\ SameRecord(t, u) /\ SamePool(t, u) /\ SameLooper(t, u)
        /\ SamePause(t, u) /\ SameEnd(t, u) /\ SameLeak(t, u) /\ SamePast(t, u)
    BY <1>1 DEF State, SameNative, SameRecord, SamePool, SameLooper, SamePause, SameEnd,
       SameLeak, SamePast
  <2> HIDE DEF u
  <2>5. CameraInv(u, k)
    <3>1. u.previewing \subseteq (u.camera \cap u.lib) \ u.pausing
      BY <2>1, <2>4 DEF SameNative, SamePause
    <3>2. \A j \in Pushers : j \in u.previewing <=> u.video_enc = j
      BY <2>1, <2>4
    <3>3. QED
      BY <2>4, <3>1, <3>2 DEF Inv, CameraInv, SameEnd
  <2>6. NativeInv(u, k)
    BY <2>4 DEF Inv, NativeInv, SameNative, SameEnd, SamePast
  <2>7. BirthInv(u, c)
    BY <2>4, BirthKept DEF Inv, SameNative
  <2>8. PausedInv(u, k, c)
    BY <2>4 DEF Inv, PausedInv, SamePause, SameNative, SamePast
  <2>9. RecordingInv(u)
    BY <2>4, RecordingKept DEF Inv, SameNative, SamePause, SamePast
  <2>10. HistoryInv(u)
    BY <2>4 DEF Inv, HistoryInv, SameLeak, SameEnd, SamePast, SameNative
  <2>11. Inv(u, k, c)
    BY <2>3, <2>5, <2>6, <2>7, <2>8, <2>9, <2>10 DEF Inv
  <2>12. QED
    BY <2>2, <2>4, <2>11
<1>5. CASE ~ok
  <2> DEFINE p == Post(t, "error", k)
  <2>1. /\ Inv(p, k, c)
        /\ SameCamera(t, p) /\ SameNative(t, p) /\ SameRecord(t, p) /\ SamePool(t, p)
        /\ SamePause(t, p) /\ SameEnd(t, p) /\ SameLeak(t, p) /\ SamePast(t, p)
    BY PostInv
  <2>2. OpenVideoEncoder(t, k, ok) = [p EXCEPT !.video_enc = 0]
    BY <1>3, <1>5 DEF OpenVideoEncoder
  <2> HIDE DEF p
  <2>3. p \in State /\ p.video_enc = 0
    BY <1>2, <2>1 DEF SameCamera, Inv
  <2>4. [p EXCEPT !.video_enc = 0] = p
    BY <2>3 DEF State
  <2>5. QED
    BY <2>1, <2>2, <2>4
<1>6. QED
  BY <1>4, <1>5

(* A null reference or a view used by a pusher that the history knows of. *)
LEMMA CrashInv ==
    ASSUME NEW t, NEW f, NEW c, NEW k \in Pushers, NEW how \in {"null", "no view"},
           Inv(t, f, c),
           k \in t.reopened \cup (IF how = "null" THEN t.overlap ELSE t.stripped)
    PROVE  LET u == Crash(t, how, k)
           IN  /\ Inv(u, f, c) /\ u.crash = how
               /\ SameCamera(t, u) /\ SameNative(t, u) /\ SameRecord(t, u) /\ SamePool(t, u)
               /\ SamePause(t, u) /\ SamePast(t, u)
<1> DEFINE e == how
           b == k
           u == [t EXCEPT !.crash = e, !.by = b]
<1>1. t \in State
  BY DEF Inv
<1>2. e = how /\ e \in {"none", "null", "no view", "assertion", "deleted ref"} /\ b \in 0..MaxPushers
      /\ b = k
  BY Numbers
<1>3. Crash(t, how, k) = u
  BY DEF Crash
<1> HIDE DEF e, b
<1>4. u \in State
  BY ZenonT(60), <1>1, <1>2 DEF State
<1>5. /\ u.crash = e /\ u.by = b
      /\ SameCamera(t, u) /\ SameNative(t, u) /\ SameRecord(t, u) /\ SamePool(t, u)
      /\ SameLooper(t, u) /\ SamePause(t, u) /\ SameLeak(t, u) /\ SamePast(t, u)
  BY <1>1 DEF State, SameCamera, SameNative, SameRecord, SamePool, SameLooper, SamePause,
     SameLeak, SamePast
<1> HIDE DEF u
<1>6. CameraInv(u, f)
  BY <1>2, <1>5 DEF Inv, CameraInv, SameCamera, SameNative, SamePause
<1>7. NativeInv(u, f)
  BY <1>2, <1>5 DEF Inv, NativeInv, SameNative, SameCamera, SamePast
<1>8. BirthInv(u, c)
  BY <1>5, BirthKept DEF Inv, SameNative, SameCamera
<1>9. PausedInv(u, f, c)
  BY <1>5 DEF Inv, PausedInv, SamePause, SameNative, SamePast
<1>10. RecordingInv(u)
  BY <1>5, RecordingKept DEF Inv, SameNative, SamePause, SamePast
<1>11. HistoryInv(u)
  BY <1>2, <1>5 DEF Inv, HistoryInv, SameLeak, SamePast
<1>12. Inv(u, f, c)
  BY <1>4, <1>6, <1>7, <1>8, <1>9, <1>10, <1>11 DEF Inv
<1>13. QED
  BY <1>2, <1>3, <1>5, <1>12

(* startPreview keeps the invariant, and leaves the recording alone. *)
LEMMA StartPreviewInv ==
    ASSUME NEW t, NEW c \in Nat, NEW k \in Pushers, NEW result \in Result, Inv(t, k, c),
           k <= c, t.crash = "none"
    PROVE  LET u == StartPreview(t, k, result)
           IN  /\ Inv(u, k, c)
               /\ SameRecord(t, u) /\ SamePool(t, u) /\ SamePause(t, u) /\ SamePast(t, u)
               /\ SameNative(t, u)
<1> DEFINE open == EnsureCameraDevice(t, k)
           stopped == IF k \in open.previewing THEN StopPreview(open, k) ELSE open
           u == StartPreview(t, k, result)
<1>1. t \in State
  BY DEF Inv
<1>2. CASE Returns(t, k) \/ Throws(t, k, result)
  <2>1. u = t
    BY <1>2 DEF StartPreview
  <2>2. QED
    BY <2>1 DEF SameRecord, SamePool, SamePause, SamePast, SameNative
<1>3. CASE ~(Returns(t, k) \/ Throws(t, k, result)) /\ k \in t.lib
  <2>1. /\ Inv(open, k, c)
        /\ open.camera = {k} /\ open.previewing = t.previewing
        /\ SameNative(t, open) /\ SameRecord(t, open) /\ SamePool(t, open)
        /\ SamePause(t, open) /\ SameEnd(t, open) /\ SamePast(t, open)
    BY <1>3, EnsureInv
  <2>2. u = IF stopped.crash # "none" THEN stopped
            ELSE IF stopped.layout = 0 THEN Crash(stopped, "no view", k)
            ELSE OpenVideoEncoder(stopped, k, result = "ok")
    BY <1>3 DEF StartPreview
  <2> HIDE DEF open
  <2>3. /\ Inv(stopped, k, c)
        /\ k \notin stopped.previewing /\ stopped.camera = open.camera
        /\ SameNative(open, stopped) /\ SameRecord(open, stopped) /\ SamePool(open, stopped)
        /\ SamePause(open, stopped) /\ SameEnd(open, stopped) /\ SamePast(open, stopped)
    <3>1. CASE k \in open.previewing
      <4> DEFINE p == StopPreview(open, k)
      <4>1. Inv(p, k, c)
        BY <2>1, StopPreviewInv
      <4>2. open \in State
        BY <2>1 DEF Inv
      <4>3. /\ p.camera = open.camera /\ p.previewing = open.previewing \ {k}
            /\ SameNative(open, p) /\ SameRecord(open, p) /\ SamePool(open, p)
            /\ SamePause(open, p) /\ SameEnd(open, p) /\ SamePast(open, p)
        BY <4>2, StopPreviewFields
      <4>4. stopped = p
        BY <3>1
      <4> HIDE DEF p, stopped
      <4>5. QED
        BY <4>1, <4>3, <4>4
    <3>2. CASE k \notin open.previewing
      <4>1. stopped = open
        BY <3>2
      <4>2. QED
        BY <2>1, <3>2, <4>1
           DEF SameNative, SameRecord, SamePool, SamePause, SameEnd, SamePast
    <3>3. QED
      BY <3>1, <3>2
  <2> HIDE DEF stopped, u
  <2>4. /\ k \in stopped.lib /\ k \in stopped.camera /\ k \notin stopped.pausing
        /\ stopped.crash = "none"
    BY <1>3, <2>1, <2>3 DEF SameNative, SamePause, SameEnd, Returns
  <2> DEFINE v == OpenVideoEncoder(stopped, k, result = "ok")
  <2>5. (result = "ok") \in BOOLEAN
    OBVIOUS
  <2>6. /\ Inv(v, k, c)
        /\ SameRecord(stopped, v) /\ SamePool(stopped, v) /\ SamePause(stopped, v)
        /\ SamePast(stopped, v) /\ SameNative(stopped, v)
    BY <2>3, <2>4, <2>5, OpenEncoderInv
  <2> HIDE DEF v
  <2>7. CASE stopped.layout # 0
    <3>1. u = v
      BY <2>2, <2>4, <2>7 DEF v
    <3>2. QED
      BY <2>1, <2>3, <2>6, <3>1 DEF SameRecord, SamePool, SamePause, SamePast, SameNative, u
  <2>8. CASE stopped.layout = 0
    <3> DEFINE w == Crash(stopped, "no view", k)
    <3>1. k \in stopped.stripped
      BY <2>3, <2>4, <2>8, Numbers DEF Inv, NativeInv
    <3>2. /\ Inv(w, k, c)
          /\ SameRecord(stopped, w) /\ SamePool(stopped, w) /\ SamePause(stopped, w)
          /\ SamePast(stopped, w) /\ SameNative(stopped, w)
      BY <2>3, <3>1, CrashInv
    <3>3. u = w
      BY <2>2, <2>4, <2>8
    <3> HIDE DEF w
    <3>4. QED
      BY <2>1, <2>3, <3>2, <3>3 DEF SameRecord, SamePool, SamePause, SamePast, SameNative, u
  <2>9. QED
    BY <2>7, <2>8
<1>4. CASE ~(Returns(t, k) \/ Throws(t, k, result)) /\ k \notin t.lib
  <2> DEFINE how == IF t.layout = 0 THEN "no view" ELSE "null"
             x == Crash(t, how, k)
             v == EnsureCameraDevice(x, k)
  <2>1. k \in t.reopened
    BY <1>4 DEF Inv, PausedInv, Pushers, Returns
  <2>2. /\ Inv(x, k, c) /\ x.crash = how /\ how # "none"
        /\ SameCamera(t, x) /\ SameNative(t, x) /\ SameRecord(t, x) /\ SamePool(t, x)
        /\ SamePause(t, x) /\ SamePast(t, x)
    BY <2>1, CrashInv
  <2>3. t.camera = {} /\ t.users = 0 /\ t.previewing = {}
    BY <1>4 DEF Inv, CameraInv, NativeInv
  <2>4. u = v
    <3>1. open = [t EXCEPT !.users = 1, !.camera = @ \cup {k}]
      BY <2>3 DEF EnsureCameraDevice
    <3>2. /\ open.previewing = {} /\ open.crash = "none" /\ open.lib = t.lib
          /\ open.layout = t.layout
      BY <1>1, <2>3, <3>1 DEF State
    <3>3. u = Crash(open, how, k)
      BY <1>4, <3>2 DEF StartPreview, OpenVideoEncoder
    <3>4. v = [x EXCEPT !.users = 1, !.camera = @ \cup {k}]
      BY <2>2, <2>3 DEF EnsureCameraDevice, SameCamera
    <3> DEFINE a == t.camera \cup {k}
               w == [t EXCEPT !.users = 1, !.camera = a, !.crash = how, !.by = k]
    <3>5. u = w
      BY <1>1, <3>1, <3>3 DEF Crash, State
    <3>6. v = w
      BY <1>1, <3>4 DEF Crash, State
    <3>7. QED
      BY <3>5, <3>6
  <2> HIDE DEF x, how
  <2>5. /\ Inv(v, k, c)
        /\ SameNative(x, v) /\ SameRecord(x, v) /\ SamePool(x, v)
        /\ SamePause(x, v) /\ SamePast(x, v)
    BY <2>1, <2>2, EnsureInv DEF SamePast
  <2> HIDE DEF v
  <2>6. QED
    BY <2>2, <2>4, <2>5 DEF SameRecord, SamePool, SamePause, SamePast, SameNative
<1>5. QED
  BY <1>2, <1>3, <1>4

(* The elements of a queue that grows, and of one whose head is taken. *)
LEMMA Queues ==
    ASSUME NEW S, NEW q \in Seq(S), NEW x \in S
    PROVE  /\ Append(q, x) \in Seq(S)
           /\ ToSet(Append(q, x)) = ToSet(q) \cup {x}
           /\ DOMAIN Append(q, x) = DOMAIN q \cup {Len(q) + 1}
           /\ Append(q, x)[Len(q) + 1] = x
           /\ \A i \in DOMAIN q : Append(q, x)[i] = q[i]
           /\ q # <<>> => /\ Head(q) \in S /\ Tail(q) \in Seq(S)
                          /\ ToSet(q) = ToSet(Tail(q)) \cup {Head(q)}
                          /\ 1 \in DOMAIN q /\ Head(q) = q[1]
                          /\ \A i \in DOMAIN Tail(q) :
                                i + 1 \in DOMAIN q /\ Tail(q)[i] = q[i + 1] /\ i + 1 # 1
<1>1. /\ Append(q, x) \in Seq(S)
      /\ DOMAIN Append(q, x) = DOMAIN q \cup {Len(q) + 1}
      /\ Append(q, x)[Len(q) + 1] = x
      /\ \A i \in DOMAIN q : Append(q, x)[i] = q[i]
  OBVIOUS
<1>2. ToSet(Append(q, x)) = ToSet(q) \cup {x}
  BY <1>1 DEF ToSet
<1>3. ASSUME q # <<>>
      PROVE  /\ Head(q) \in S /\ Tail(q) \in Seq(S)
             /\ 1 \in DOMAIN q /\ Head(q) = q[1]
             /\ \A i \in DOMAIN Tail(q) :
                   i + 1 \in DOMAIN q /\ Tail(q)[i] = q[i + 1] /\ i + 1 # 1
             /\ \A i \in DOMAIN q : i # 1 => i - 1 \in DOMAIN Tail(q) /\ Tail(q)[i - 1] = q[i]
  BY <1>3
<1>4. ASSUME q # <<>>
      PROVE  ToSet(q) = ToSet(Tail(q)) \cup {Head(q)}
  <2>1. \A i \in DOMAIN q : q[i] \in ToSet(Tail(q)) \cup {Head(q)}
    BY <1>3, <1>4 DEF ToSet
  <2>2. \A i \in DOMAIN Tail(q) : Tail(q)[i] \in ToSet(q)
    BY <1>3, <1>4 DEF ToSet
  <2>3. Head(q) \in ToSet(q)
    BY <1>3, <1>4 DEF ToSet
  <2>4. QED
    BY <2>1, <2>2, <2>3 DEF ToSet
<1>5. QED
  BY <1>1, <1>2, <1>3, <1>4

(* What onResume does first: a task is given to the pool, which the        *)
(* recording has room for unless an earlier one was overtaken.             *)
Resumed(t, k) == [t EXCEPT !.pausing = @ \ {k},
                           !.pool = Append(@, k),
                           !.reopened = IF k \in t.lib THEN @ ELSE @ \cup {k}]

LEMMA ResumedInv ==
    ASSUME NEW t, NEW c \in Nat, NEW k \in Pushers, Inv(t, k, c), k <= c,
           k \in t.overlap
             \/ (~Pending(t, k) /\ t.record[k] = "null" /\ t.audio_enc # k)
    PROVE  Inv(Resumed(t, k), k, c) /\ SameEnd(t, Resumed(t, k))
<1> DEFINE g == t.pausing \ {k}
           q == Append(t.pool, k)
           n == IF k \in t.lib THEN t.reopened ELSE t.reopened \cup {k}
           u == [t EXCEPT !.pausing = g, !.pool = q, !.reopened = n]
<1>1. /\ t \in State /\ t.pausing \in SUBSET Pushers /\ t.reopened \in SUBSET Pushers
      /\ t.pool \in Seq(Pushers)
  BY Fields DEF Inv
<1>2. /\ q \in Seq(Pushers)
      /\ ToSet(q) = ToSet(t.pool) \cup {k}
      /\ DOMAIN q = DOMAIN t.pool \cup {Len(t.pool) + 1}
      /\ q[Len(t.pool) + 1] = k
      /\ \A i \in DOMAIN t.pool : q[i] = t.pool[i]
  BY <1>1, Queues
<1>3. g \in SUBSET Pushers /\ n \in SUBSET Pushers
  BY <1>1
<1>4. Resumed(t, k) = u
  BY DEF Resumed, State
<1>5. t.reopened \subseteq n /\ n \subseteq t.reopened \cup {k} /\ k \in t.lib \cup n
  OBVIOUS
<1> HIDE DEF g, q, n
<1>6. u \in State
  BY <1>1, <1>2, <1>3 DEF State
<1>7. /\ u.pausing = g /\ u.pool = q /\ u.reopened = n
      /\ u.task = t.task /\ u.step = t.step /\ u.overlap = t.overlap /\ u.retried = t.retried
      /\ u.stripped = t.stripped /\ u.layout = t.layout
      /\ SameCamera(t, u) /\ SameNative(t, u) /\ SameRecord(t, u)
      /\ SameLooper(t, u) /\ SameEnd(t, u) /\ SameLeak(t, u)
  BY <1>1 DEF State, SameCamera, SameNative, SameRecord, SameLooper, SameEnd, SameLeak
<1> HIDE DEF u
<1>8. \A j \in Pushers : Pending(u, j) <=> Pending(t, j) \/ j = k
  BY <1>2, <1>7 DEF Pending
<1>9. CameraInv(u, k)
  BY <1>7 DEF Inv, CameraInv, SameCamera, SameNative, SameEnd, g
<1>10. NativeInv(u, k)
  BY <1>5, <1>7 DEF Inv, NativeInv, SameCamera, SameNative, SameEnd
<1>11. ASSUME NEW j \in Pushers, j > c
       PROVE  Unborn(u, j)
  <2>1. Unborn(t, j) /\ j # k
    BY <1>11 DEF Inv, BirthInv, Pushers
  <2>2. j \notin g /\ j \notin n
    BY <1>5, <2>1 DEF Unborn, g
  <2>3. QED
    BY <1>7, <1>8, <2>1, <2>2 DEF Unborn, SameCamera, SameNative, SameRecord, SameLooper
<1>12. PausedInv(u, k, c)
  BY <1>5, <1>7 DEF Inv, PausedInv, SameNative, g
<1>13. RecordingInv(u)
  <2>1. u.step = "idle" <=> u.task = 0
    BY <1>7 DEF Inv, RecordingInv
  <2>2. ASSUME NEW j \in Pushers \ u.overlap
        PROVE  RecordInv(u, j)
    <3>1. RecordInv(t, j)
      BY <1>7, <2>2 DEF Inv, RecordingInv
    <3>2. CASE j = k
      <4>1. ~Pending(t, k) /\ t.record[k] = "null" /\ t.audio_enc # k
        BY <1>7, <2>2, <3>2
      <4>2. t.task # k /\ \A i \in DOMAIN t.pool : t.pool[i] # k
        BY <4>1 DEF Pending, ToSet
      <4>3. \A i, h \in DOMAIN q : q[i] = k /\ q[h] = k => i = h
        BY <1>2, <4>2
      <4>4. k \notin u.pausing /\ k \in u.lib \cup u.reopened
        BY <1>5, <1>7 DEF SameNative, g
      <4>5. QED
        BY <1>7, <3>2, <4>1, <4>2, <4>3, <4>4 DEF RecordInv, SameRecord
    <3>3. CASE j # k
      <4>1. Pending(u, j) <=> Pending(t, j)
        BY <1>8, <3>3
      <4>2. j \in ToSet(u.pool) <=> j \in ToSet(t.pool)
        BY <1>2, <1>7, <3>3
      <4>3. \A i, h \in DOMAIN q : q[i] = j /\ q[h] = j => i = h
        <5>1. \A i \in DOMAIN q : q[i] = j => i \in DOMAIN t.pool /\ t.pool[i] = j
          BY <1>2, <3>3
        <5>2. QED
          BY <3>1, <5>1 DEF RecordInv
      <4>4. /\ j \in u.pausing <=> j \in t.pausing
            /\ j \in t.reopened => j \in u.reopened
        BY <1>5, <1>7, <3>3 DEF g
      <4>5. u.lib = t.lib /\ u.record = t.record /\ u.hears = t.hears /\ u.audio_enc = t.audio_enc
        BY <1>7 DEF SameNative, SameRecord
      <4>6. QED
        BY <1>7, <3>1, <4>1, <4>2, <4>3, <4>4, <4>5 DEF RecordInv
    <3>4. QED
      BY <3>2, <3>3
  <2>3. QED
    BY <2>1, <2>2 DEF RecordingInv
<1>14. HistoryInv(u)
  BY <1>5, <1>7 DEF Inv, HistoryInv, SameLeak, SameEnd, SameNative
<1>15. QED
  BY <1>4, <1>6, <1>7, <1>9, <1>10, <1>11, <1>12, <1>13, <1>14 DEF Inv, BirthInv

(* onResume. *)
LEMMA OnResumeInv ==
    ASSUME NEW t, NEW c \in Nat, NEW k \in Pushers, NEW result \in Result, Inv(t, k, c),
           k <= c, t.crash = "none",
           k \in t.overlap
             \/ (~Pending(t, k) /\ t.record[k] = "null" /\ t.audio_enc # k)
    PROVE  Inv(OnResume(t, k, result), k, c)
<1> DEFINE r == Resumed(t, k)
<1>1. Inv(r, k, c) /\ r.crash = "none"
  BY ResumedInv DEF SameEnd
<1>2. OnResume(t, k, result) =
        IF k \in t.previewing \cup t.start_fail THEN r ELSE StartPreview(r, k, result)
  BY DEF OnResume, Resumed
<1> HIDE DEF r
<1>3. QED
  BY <1>1, <1>2, StartPreviewInv

(* mStartFail. *)
LEMMA StartFailInv ==
    ASSUME NEW t, NEW f, NEW c, NEW k \in Pushers, Inv(t, f, c)
    PROVE  Inv([t EXCEPT !.start_fail = @ \cup {k}], f, c)
<1> DEFINE b == t.start_fail \cup {k}
           u == [t EXCEPT !.start_fail = b]
<1>1. t \in State /\ b \in SUBSET Pushers
  BY Fields DEF Inv
<1>2. [t EXCEPT !.start_fail = @ \cup {k}] = u
  BY <1>1 DEF State
<1> HIDE DEF b
<1>3. u \in State
  BY <1>1 DEF State
<1>4. /\ SameCamera(t, u) /\ SameNative(t, u) /\ SameRecord(t, u) /\ SamePool(t, u)
      /\ SameLooper(t, u) /\ SamePause(t, u) /\ SameEnd(t, u) /\ SameLeak(t, u)
      /\ SamePast(t, u)
  BY <1>1 DEF State, SameCamera, SameNative, SameRecord, SamePool, SameLooper, SamePause,
     SameEnd, SameLeak, SamePast
<1> HIDE DEF u
<1>5. QED
  BY <1>2, <1>3, <1>4, SameInv

(* An empty url: the layout is the info one, under a pusher that stays. *)
LEMMA StripInv ==
    ASSUME NEW t, NEW f, NEW c, NEW k \in Pushers, Inv(t, f, c), t.lib \subseteq {k}
    PROVE  Inv([t EXCEPT !.layout = 0, !.stripped = @ \cup {k}], f, c)
<1> DEFINE n == 0
           d == t.stripped \cup {k}
           u == [t EXCEPT !.layout = n, !.stripped = d]
<1>1. t \in State /\ t.stripped \in SUBSET Pushers
  BY Fields DEF Inv
<1>2. d \in SUBSET Pushers /\ n \in 0..MaxPushers /\ n = 0 /\ k \in d /\ t.stripped \subseteq d
  BY <1>1, Numbers
<1>3. [t EXCEPT !.layout = 0, !.stripped = @ \cup {k}] = u
  BY <1>1 DEF State
<1> HIDE DEF n, d
<1>4. u \in State
  BY ZenonT(60), <1>1, <1>2 DEF State
<1>5. /\ u.layout = n /\ u.stripped = d
      /\ u.overlap = t.overlap /\ u.retried = t.retried /\ u.reopened = t.reopened
      /\ SameCamera(t, u) /\ SameNative(t, u) /\ SameRecord(t, u) /\ SamePool(t, u)
      /\ SameLooper(t, u) /\ SamePause(t, u) /\ SameEnd(t, u) /\ SameLeak(t, u)
  BY <1>1 DEF State, SameCamera, SameNative, SameRecord, SamePool, SameLooper, SamePause,
     SameEnd, SameLeak
<1> HIDE DEF u
<1>6. \A j \in t.lib : j \in d
  BY <1>2
<1>7. QED
  BY <1>2, <1>3, <1>4, <1>5, <1>6, LayoutGoneInv

(* process, of a pusher just created. *)
LEMMA ProcessInv ==
    ASSUME NEW t, NEW c \in Nat, NEW k \in Pushers, NEW url \in Url, NEW result \in Result,
           NEW again \in Result, Inv(t, k, c), k <= c, t.crash = "none", k \in t.lib,
           t.rtmp_hdlr = 0, ~Pending(t, k), t.record[k] = "null", t.audio_enc # k
    PROVE  Inv(Process(t, k, url, result, again), k, c)
<1> DEFINE n == NativeNew(t, k, url)
<1>1. /\ Inv(n, k, c)
      /\ SameCamera(t, n) /\ SameRecord(t, n) /\ SamePool(t, n)
      /\ SamePause(t, n) /\ SameEnd(t, n) /\ SamePast(t, n)
  BY NativeNewInv
<1>2. CASE url = "empty"
  <2> DEFINE x == [t EXCEPT !.layout = 0, !.stripped = @ \cup {k}]
  <2>1. Process(t, k, url, result, again) = x
    BY <1>2 DEF Process
  <2>2. t.lib \subseteq {k}
    BY DEF Inv, NativeInv
  <2>3. Inv(x, k, c)
    BY <2>2, StripInv
  <2> HIDE DEF x
  <2>4. QED
    BY <2>1, <2>3
<1>3. CASE url # "empty" /\ Throws(n, k, result)
  <2> DEFINE x == [n EXCEPT !.start_fail = @ \cup {k}]
  <2>1. Process(t, k, url, result, again) = Post(x, "error", k)
    BY <1>3 DEF Process
  <2>2. Inv(x, k, c)
    BY <1>1, StartFailInv
  <2> HIDE DEF n, x
  <2>3. Inv(Post(x, "error", k), k, c)
    BY <2>2, PostInv
  <2>4. QED
    BY <2>1, <2>3
<1>4. CASE url # "empty" /\ ~Throws(n, k, result)
  <2> DEFINE p == StartPreview(n, k, result)
  <2>1. Process(t, k, url, result, again) =
          IF p.crash # "none" THEN p ELSE OnResume(p, k, again)
    BY <1>4 DEF Process
  <2>2. n.crash = "none"
    BY <1>1 DEF SameEnd
  <2> HIDE DEF n
  <2>3. /\ Inv(p, k, c)
        /\ SameRecord(n, p) /\ SamePool(n, p) /\ SamePause(n, p) /\ SamePast(n, p)
    BY <1>1, <2>2, StartPreviewInv
  <2> HIDE DEF p
  <2>4. ~Pending(p, k) /\ p.record[k] = "null" /\ p.audio_enc # k
    BY <1>1, <2>3 DEF Pending, SamePool, SameRecord
  <2>5. p.crash = "none" => Inv(OnResume(p, k, again), k, c)
    BY <2>3, <2>4, OnResumeInv
  <2>6. QED
    BY <2>1, <2>3, <2>5
<1>5. QED
  BY <1>2, <1>3, <1>4

(* A step of the pool's thread for k: of the other pushers it may only     *)
(* clear the audio encoder, and what it leaves of k's recording has to be  *)
(* shown unless a pause overtook it.                                       *)
LEMMA PoolStepInv ==
    ASSUME NEW t, NEW u \in State, NEW f, NEW c \in Nat, NEW k \in Pushers,
           Inv(t, f, c), k <= c,
           SameCamera(t, u), SameNative(t, u), SamePause(t, u), SameEnd(t, u),
           u.overlap = t.overlap, u.reopened = t.reopened,
           u.stripped = t.stripped, u.layout = t.layout,
           t.retried \subseteq u.retried, u.retried \subseteq t.retried \cup {k},
           u.leaked => t.overlap # {},
           \A i \in DOMAIN u.looper : u.looper[i].to <= c,
           t.task \in {0, k}, u.task \in {0, k}, u.step = "idle" <=> u.task = 0,
           u.audio_enc \in {0, k, t.audio_enc},
           \A j \in Pushers \ {k} :
               /\ u.record[j] = t.record[j]
               /\ Pending(u, j) <=> Pending(t, j)
               /\ j \in t.hears => j \in u.hears,
           \A i, j \in DOMAIN u.pool : \E h, g \in DOMAIN t.pool :
               /\ u.pool[i] = t.pool[h] /\ u.pool[j] = t.pool[g]
               /\ h = g => i = j,
           k \notin u.overlap => RecordInv(u, k)
    PROVE  Inv(u, f, c)
<1>1. CameraInv(u, f)
  BY DEF Inv, CameraInv, SameCamera, SameNative, SamePause, SameEnd
<1>2. NativeInv(u, f)
  BY DEF Inv, NativeInv, SameNative, SameCamera, SameEnd
<1>3. ASSUME NEW j \in Pushers, j > c
      PROVE  Unborn(u, j)
  <2>1. Unborn(t, j) /\ j # k
    BY <1>3 DEF Inv, BirthInv, Pushers
  <2>2. u.audio_enc # j
    BY <2>1, Numbers DEF Unborn
  <2>3. \A i \in DOMAIN u.looper : u.looper[i].to # j
    <3>1. ASSUME NEW i \in DOMAIN u.looper
          PROVE  u.looper[i].to # j
      <4>1. u.looper \in Seq(Message)
        BY Fields
      <4>2. u.looper[i] \in Message
        BY <4>1
      <4>3. u.looper[i].to \in Int
        BY <4>2 DEF Message, Pushers
      <4>4. QED
        BY <1>3, <4>3 DEF Pushers
    <3>2. QED
      BY <3>1
  <2>4. QED
    BY <2>1, <2>2, <2>3 DEF Unborn, SameCamera, SameNative, SamePause
<1>4. PausedInv(u, f, c)
  BY DEF Inv, PausedInv, SamePause, SameNative
<1>5. RecordingInv(u)
  <2>1. ASSUME NEW j \in Pushers \ u.overlap, j # k
        PROVE  RecordInv(u, j)
    <3>1. RecordInv(t, j)
      BY <2>1 DEF Inv, RecordingInv
    <3>2. t.task # j /\ u.task # j
      BY <2>1, Numbers
    <3>3. u.audio_enc = j => t.audio_enc = j
      BY <2>1, Numbers
    <3>4. \A i, h \in DOMAIN u.pool : u.pool[i] = j /\ u.pool[h] = j => i = h
      BY <3>1 DEF RecordInv
    <3>5. u.pausing = t.pausing /\ u.lib = t.lib
      BY DEF SamePause, SameNative
    <3>6. u.record[j] = t.record[j] /\ (Pending(u, j) <=> Pending(t, j))
      BY <2>1
    <3>7. j \in t.hears \cup t.retried => j \in u.hears \cup u.retried
      BY <2>1
    <3>8. QED
      BY <3>1, <3>2, <3>3, <3>4, <3>5, <3>6, <3>7 DEF RecordInv
  <2>2. QED
    BY <2>1 DEF RecordingInv
<1>6. HistoryInv(u)
  BY DEF Inv, HistoryInv, SameEnd, SameNative
<1>7. QED
  BY <1>1, <1>2, <1>3, <1>4, <1>5, <1>6 DEF Inv, BirthInv

(* Every message is to a pusher that was created, and every task of one. *)
LEMMA Created ==
    ASSUME NEW t, NEW f, NEW c \in Nat, Inv(t, f, c)
    PROVE  /\ \A i \in DOMAIN t.looper : t.looper[i] \in Message /\ t.looper[i].to <= c
           /\ \A k \in Pushers : Pending(t, k) => k <= c
           /\ \A i \in DOMAIN t.pool : t.pool[i] \in Pushers
<1>1. t.looper \in Seq(Message) /\ t.pool \in Seq(Pushers)
  BY Fields DEF Inv
<1>2. ASSUME NEW k \in Pushers, ~(k <= c)
      PROVE  Unborn(t, k)
  BY <1>2 DEF Inv, BirthInv, Pushers
<1>3. ASSUME NEW i \in DOMAIN t.looper
      PROVE  t.looper[i] \in Message /\ t.looper[i].to <= c
  <2>1. t.looper[i] \in Message
    BY <1>1
  <2>2. t.looper[i].to \in Pushers
    BY <2>1 DEF Message
  <2>3. QED
    BY <1>2, <2>1, <2>2 DEF Unborn
<1>4. \A k \in Pushers : Pending(t, k) => k <= c
  BY <1>2 DEF Unborn
<1>5. QED
  BY <1>1, <1>3, <1>4

(* The head of the pool's queue becomes the running task. *)
TaskStarted(t) == [t EXCEPT !.task = Head(t.pool), !.pool = Tail(@), !.step = "create",
                            !.hears = @ \cup {Head(t.pool)}]

LEMMA TaskStartedInv ==
    ASSUME NEW t, NEW f, NEW c \in Nat, Inv(t, f, c), t.step = "idle", t.pool # <<>>
    PROVE  Inv(TaskStarted(t), f, c)
<1> DEFINE k == Head(t.pool)
           q == Tail(t.pool)
           e == "create"
           h == t.hears \cup {k}
           u == [t EXCEPT !.task = k, !.pool = q, !.step = e, !.hears = h]
<1>1. t \in State /\ t.hears \in SUBSET Pushers /\ t.pool \in Seq(Pushers)
  BY Fields DEF Inv
<1>2. PICK x : x \in Pushers
  BY <1>1
<1>3. /\ k \in Pushers /\ q \in Seq(Pushers)
      /\ ToSet(t.pool) = ToSet(q) \cup {k}
      /\ 1 \in DOMAIN t.pool /\ k = t.pool[1]
      /\ \A i \in DOMAIN q : i + 1 \in DOMAIN t.pool /\ q[i] = t.pool[i + 1] /\ i + 1 # 1
      /\ DOMAIN q \subseteq Int
  BY <1>1, <1>2, Queues
<1>4. TaskStarted(t) = u
  BY <1>1 DEF TaskStarted, State
<1>5. h \in SUBSET Pushers /\ k \in 0..MaxPushers /\ e \in {"idle", "create", "open", "listen"}
      /\ k # 0 /\ k \in h /\ t.hears \subseteq h /\ e = "create"
  BY <1>1, <1>3, Numbers
<1> HIDE DEF k, q, e, h
<1>6. u \in State
  BY <1>1, <1>3, <1>5 DEF State
<1>7. /\ u.task = k /\ u.pool = q /\ u.step = e /\ u.hears = h
      /\ u.record = t.record /\ u.audio_enc = t.audio_enc
      /\ SameCamera(t, u) /\ SameNative(t, u) /\ SameLooper(t, u)
      /\ SamePause(t, u) /\ SameEnd(t, u) /\ SameLeak(t, u) /\ SamePast(t, u)
  BY <1>1 DEF State, SameCamera, SameNative, SameLooper, SamePause, SameEnd, SameLeak, SamePast
<1> HIDE DEF u
<1>8. t.task = 0
  BY DEF Inv, RecordingInv
<1>9. \A j \in Pushers : Pending(u, j) <=> Pending(t, j)
  BY <1>3, <1>7, <1>8, Numbers DEF Pending
<1>10. Pending(t, k)
  BY <1>3 DEF Pending
<1>11. k <= c /\ \A i \in DOMAIN t.looper : t.looper[i].to <= c
  BY <1>3, <1>10, Created
<1>12. ASSUME k \notin u.overlap
       PROVE  RecordInv(u, k)
  <2>1. RecordInv(t, k)
    BY <1>3, <1>7, <1>12 DEF Inv, RecordingInv, SamePast
  <2>2. \A i \in DOMAIN q : q[i] # k
    BY <1>3, <2>1 DEF RecordInv
  <2>3. k \notin ToSet(u.pool)
    BY <1>7, <2>2 DEF ToSet
  <2>4. u.pausing = t.pausing /\ u.lib = t.lib /\ u.reopened = t.reopened
    BY <1>7 DEF SamePause, SameNative, SamePast
  <2>5. t.audio_enc # k /\ t.record[k] = "null"
    BY <1>5, <1>8, <1>10, <2>1 DEF RecordInv
  <2>6. QED
    BY <1>5, <1>7, <1>9, <1>3, <1>10, <2>1, <2>2, <2>3, <2>4, <2>5 DEF RecordInv
<1>13. \A i, j \in DOMAIN u.pool : \E m, g \in DOMAIN t.pool :
          u.pool[i] = t.pool[m] /\ u.pool[j] = t.pool[g] /\ (m = g => i = j)
  <2>1. ASSUME NEW i \in DOMAIN q, NEW j \in DOMAIN q
        PROVE  \E m, g \in DOMAIN t.pool :
                  q[i] = t.pool[m] /\ q[j] = t.pool[g] /\ (m = g => i = j)
    <3>1. i \in Int /\ j \in Int
      BY <1>3
    <3>2. i + 1 = j + 1 => i = j
      BY <3>1
    <3>3. QED
      BY <1>3, <3>2
  <2>2. QED
    BY <1>7, <2>1
<1>14. Inv(u, f, c)
  <2>1. u.leaked => t.overlap # {}
    BY <1>7 DEF Inv, HistoryInv, SameLeak
  <2>2. u.step = "idle" <=> u.task = 0
    BY <1>5, <1>7
  <2>3. u.looper = t.looper /\ u.overlap = t.overlap /\ u.reopened = t.reopened
        /\ u.retried = t.retried /\ u.stripped = t.stripped /\ u.layout = t.layout
    BY <1>7 DEF SameLooper, SamePast
  <2>4. \A j \in Pushers \ {k} : /\ u.record[j] = t.record[j]
                                 /\ Pending(u, j) <=> Pending(t, j)
                                 /\ j \in t.hears => j \in u.hears
    BY <1>5, <1>7, <1>9
  <2>5. QED
    BY <1>3, <1>6, <1>7, <1>8, <1>11, <1>12, <1>13, <2>1, <2>2, <2>3, <2>4, PoolStepInv
<1>15. QED
  BY <1>4, <1>14

(* What is known while a task runs: of its pusher, which was created, and, *)
(* unless a pause overtook the task, of its recording.                     *)
LEMMA Running ==
    ASSUME NEW t, NEW f, NEW c \in Nat, Inv(t, f, c), t.step # "idle"
    PROVE  LET k == t.task
           IN  /\ k \in Pushers /\ k <= c /\ Pending(t, k)
               /\ \A i, j \in DOMAIN t.pool : \E h, g \in DOMAIN t.pool :
                     t.pool[i] = t.pool[h] /\ t.pool[j] = t.pool[g] /\ (h = g => i = j)
               /\ \A i \in DOMAIN t.looper : t.looper[i].to <= c
               /\ t.leaked => t.overlap # {}
               /\ k \notin t.overlap =>
                     /\ RecordInv(t, k)
                     /\ k \notin t.pausing /\ k \in t.lib \cup t.reopened
                     /\ k \notin ToSet(t.pool) /\ k \in t.hears \cup t.retried
                     /\ t.step # "listen" => t.audio_enc # k
                     /\ t.record[k] = IF t.step = "create" THEN "null" ELSE "ready"
<1> DEFINE k == t.task
<1>1. t.task \in 0..MaxPushers /\ t.step \in {"idle", "create", "open", "listen"}
      /\ t.task # 0
  BY Fields DEF Inv, RecordingInv
<1>2. k \in Pushers /\ Pending(t, k)
  BY <1>1, Numbers DEF Pending
<1>3. k <= c /\ \A i \in DOMAIN t.looper : t.looper[i].to <= c
  BY <1>2, Created
<1>4. ASSUME k \notin t.overlap
      PROVE  RecordInv(t, k)
  BY <1>2, <1>4 DEF Inv, RecordingInv
<1>5. \A i, j \in DOMAIN t.pool : \E h, g \in DOMAIN t.pool :
         t.pool[i] = t.pool[h] /\ t.pool[j] = t.pool[g] /\ (h = g => i = j)
  OBVIOUS
<1>6. QED
  BY <1>1, <1>2, <1>3, <1>4, <1>5 DEF Inv, HistoryInv, RecordInv

(* startRecordingAudio ends without a recorder, no sample rate being left. *)
LEMMA ReturnInv ==
    ASSUME NEW t, NEW f, NEW c \in Nat, Inv(t, f, c), t.step = "create"
    PROVE  Inv(Return(t), f, c)
<1> DEFINE k == t.task
           n == 0
           e == "idle"
           u == [t EXCEPT !.task = n, !.step = e, !.idx = n]
<1>1. t \in State
  BY DEF Inv
<1>2. Return(t) = u
  BY DEF Return
<1>3. n \in 0..MaxPushers /\ n \in 0..Samplerates /\ e \in {"idle", "create", "open", "listen"}
      /\ e = "idle" /\ n = 0
  BY Numbers
<1> HIDE DEF n, e
<1>4. u \in State
  BY ZenonT(60), <1>1, <1>3 DEF State
<1>5. /\ u.task = n /\ u.step = e
      /\ u.pool = t.pool /\ u.looper = t.looper /\ u.leaked = t.leaked
      /\ u.overlap = t.overlap /\ u.reopened = t.reopened /\ u.retried = t.retried
      /\ u.stripped = t.stripped /\ u.layout = t.layout
      /\ u.record = t.record /\ u.hears = t.hears /\ u.audio_enc = t.audio_enc
      /\ SameCamera(t, u) /\ SameNative(t, u) /\ SamePause(t, u) /\ SameEnd(t, u)
  BY <1>1 DEF State, SameCamera, SameNative, SamePause, SameEnd
<1> HIDE DEF u
<1>6. /\ k \in Pushers /\ k <= c
      /\ \A i, j \in DOMAIN t.pool : \E h, g \in DOMAIN t.pool :
            t.pool[i] = t.pool[h] /\ t.pool[j] = t.pool[g] /\ (h = g => i = j)
      /\ \A i \in DOMAIN t.looper : t.looper[i].to <= c
      /\ t.leaked => t.overlap # {}
      /\ k \notin t.overlap =>
            /\ RecordInv(t, k)
            /\ k \notin ToSet(t.pool) /\ t.audio_enc # k /\ t.record[k] = "null"
  BY Running
<1>7. \A j \in Pushers \ {k} : Pending(u, j) <=> Pending(t, j)
  BY <1>3, <1>5, Numbers DEF Pending
<1>8. ASSUME k \notin u.overlap
      PROVE  RecordInv(u, k)
  <2>1. ~Pending(u, k) /\ u.task # k
    BY <1>3, <1>5, <1>6, <1>8, Numbers DEF Pending
  <2>2. QED
    BY <1>5, <1>6, <1>8, <2>1 DEF RecordInv
<1>9. (u.step = "idle" <=> u.task = 0) /\ u.task \in {0, k}
  BY <1>3, <1>5
<1>10. Inv(u, f, c)
  <2>1. \A j \in Pushers \ {k} : /\ u.record[j] = t.record[j]
                                 /\ Pending(u, j) <=> Pending(t, j)
                                 /\ j \in t.hears => j \in u.hears
    BY <1>5, <1>7
  <2>2. \A i, j \in DOMAIN u.pool : \E h, g \in DOMAIN t.pool :
           /\ u.pool[i] = t.pool[h] /\ u.pool[j] = t.pool[g]
           /\ h = g => i = j
    BY <1>5, <1>6
  <2>3. /\ \A i \in DOMAIN u.looper : u.looper[i].to <= c
        /\ u.audio_enc \in {0, k, t.audio_enc}
        /\ t.retried \subseteq u.retried /\ u.retried \subseteq t.retried \cup {k}
    BY <1>5, <1>6
  <2>4. QED
    BY <1>4, <1>5, <1>6, <1>8, <1>9, <2>1, <2>2, <2>3, PoolStepInv
<1>11. QED
  BY <1>2, <1>10

(* The next sample rate. *)
LEMMA NextRateInv ==
    ASSUME NEW t, NEW f, NEW c, Inv(t, f, c), t.idx # Samplerates
    PROVE  Inv([t EXCEPT !.idx = @ + 1], f, c)
<1> DEFINE i == t.idx + 1
           u == [t EXCEPT !.idx = i]
<1>1. t \in State /\ t.idx \in 0..Samplerates
  BY Fields DEF Inv
<1>2. i \in 0..Samplerates
  BY <1>1, Numbers
<1>3. [t EXCEPT !.idx = @ + 1] = u
  BY <1>1 DEF State
<1> HIDE DEF i
<1>4. u \in State
  BY <1>1, <1>2 DEF State
<1>5. /\ SameCamera(t, u) /\ SameNative(t, u) /\ SameRecord(t, u) /\ SamePool(t, u)
      /\ SameLooper(t, u) /\ SamePause(t, u) /\ SameEnd(t, u) /\ SameLeak(t, u)
      /\ SamePast(t, u)
  BY <1>1 DEF State, SameCamera, SameNative, SameRecord, SamePool, SameLooper, SamePause,
     SameEnd, SameLeak, SamePast
<1> HIDE DEF u
<1>6. QED
  BY <1>3, <1>4, <1>5, SameInv

(* A new recorder of k; the one it replaces leaks. *)
NewRecord(t, k) == [Leak(t, t.record[k] # "null") EXCEPT !.record[k] = "ready"]

LEMMA NewRecordFields ==
    ASSUME NEW t \in State, NEW k \in Pushers
    PROVE  LET u == NewRecord(t, k)
           IN  /\ u \in State
               /\ u.record = [t.record EXCEPT ![k] = "ready"]
               /\ u.leaked = (t.leaked \/ t.record[k] # "null")
               /\ u.hears = t.hears /\ u.audio_enc = t.audio_enc
               /\ SameCamera(t, u) /\ SameNative(t, u) /\ SamePool(t, u) /\ SameLooper(t, u)
               /\ SamePause(t, u) /\ SameEnd(t, u) /\ SamePast(t, u)
<1> DEFINE r == [t.record EXCEPT ![k] = "ready"]
           l == t.leaked \/ t.record[k] # "null"
           u == [t EXCEPT !.record = r, !.leaked = l]
<1>1. t.record \in [Pushers -> {"null", "ready", "recording"}] /\ t.leaked \in BOOLEAN
  BY Fields
<1>2. r \in [Pushers -> {"null", "ready", "recording"}] /\ l \in BOOLEAN
  BY <1>1
<1>3. NewRecord(t, k) = u
  BY DEF NewRecord, Leak, State
<1> HIDE DEF r, l
<1>4. u \in State
  BY <1>2 DEF State
<1>5. /\ u.record = r /\ u.leaked = l /\ u.hears = t.hears /\ u.audio_enc = t.audio_enc
      /\ SameCamera(t, u) /\ SameNative(t, u) /\ SamePool(t, u) /\ SameLooper(t, u)
      /\ SamePause(t, u) /\ SameEnd(t, u) /\ SamePast(t, u)
  BY DEF State, SameCamera, SameNative, SamePool, SameLooper, SamePause, SameEnd, SamePast
<1> HIDE DEF u
<1>6. QED
  BY <1>3, <1>4, <1>5 DEF r, l

(* It is ready, and openAudioEncoder comes next. *)
LEMMA ReadyInv ==
    ASSUME NEW t, NEW f, NEW c \in Nat, Inv(t, f, c), t.step = "create"
    PROVE  Inv([NewRecord(t, t.task) EXCEPT !.step = "open"], f, c)
<1> DEFINE k == t.task
           x == NewRecord(t, k)
           e == "open"
           u == [x EXCEPT !.step = e]
<1>1. t \in State /\ t.record \in [Pushers -> {"null", "ready", "recording"}]
  BY Fields DEF Inv
<1>2. /\ k \in Pushers /\ k <= c /\ Pending(t, k)
      /\ \A i, j \in DOMAIN t.pool : \E h, g \in DOMAIN t.pool :
            t.pool[i] = t.pool[h] /\ t.pool[j] = t.pool[g] /\ (h = g => i = j)
      /\ \A i \in DOMAIN t.looper : t.looper[i].to <= c
      /\ t.leaked => t.overlap # {}
      /\ k \notin t.overlap =>
            /\ RecordInv(t, k)
            /\ k \notin t.pausing /\ k \in t.lib \cup t.reopened
            /\ k \notin ToSet(t.pool) /\ k \in t.hears \cup t.retried
            /\ t.audio_enc # k /\ t.record[k] = "null"
  BY Running
<1>3. /\ x \in State
      /\ x.record = [t.record EXCEPT ![k] = "ready"]
      /\ x.leaked = (t.leaked \/ t.record[k] # "null")
      /\ x.hears = t.hears /\ x.audio_enc = t.audio_enc
      /\ SameCamera(t, x) /\ SameNative(t, x) /\ SamePool(t, x) /\ SameLooper(t, x)
      /\ SamePause(t, x) /\ SameEnd(t, x) /\ SamePast(t, x)
  BY <1>1, <1>2, NewRecordFields
<1>4. e = "open" /\ e \in {"idle", "create", "open", "listen"}
  OBVIOUS
<1> HIDE DEF k, x, e
<1>5. u \in State
  BY <1>3, <1>4 DEF State
<1>6. /\ u.step = e /\ u.record = x.record /\ u.leaked = x.leaked
      /\ u.hears = t.hears /\ u.audio_enc = t.audio_enc
      /\ u.pool = t.pool /\ u.task = t.task /\ u.looper = t.looper
      /\ u.overlap = t.overlap /\ u.reopened = t.reopened /\ u.retried = t.retried
      /\ u.stripped = t.stripped /\ u.layout = t.layout
      /\ SameCamera(t, u) /\ SameNative(t, u) /\ SamePause(t, u) /\ SameEnd(t, u)
  BY <1>3 DEF State, SameCamera, SameNative, SamePause, SameEnd, SamePool, SameLooper, SamePast
<1> HIDE DEF u
<1>7. u.record[k] = "ready" /\ \A j \in Pushers \ {k} : u.record[j] = t.record[j]
  BY <1>1, <1>2, <1>3, <1>6
<1>8. \A j \in Pushers : Pending(u, j) <=> Pending(t, j)
  BY <1>6 DEF Pending
<1>9. u.leaked => t.overlap # {}
  BY <1>2, <1>3, <1>6
<1>10. t.task = k
  BY DEF k
<1>11. ASSUME k \notin u.overlap
       PROVE  RecordInv(u, k)
  <2>1. u.lib = t.lib /\ u.pausing = t.pausing
    BY <1>6 DEF SameNative, SamePause
  <2>2. QED
    BY <1>2, <1>4, <1>6, <1>7, <1>8, <1>10, <1>11, <2>1 DEF RecordInv
<1>12. (u.step = "idle" <=> u.task = 0) /\ u.task \in {0, k} /\ t.task \in {0, k}
  BY <1>2, <1>4, <1>6, <1>10, Numbers
<1>13. Inv(u, f, c)
  <2>1. \A j \in Pushers \ {k} : /\ u.record[j] = t.record[j]
                                 /\ Pending(u, j) <=> Pending(t, j)
                                 /\ j \in t.hears => j \in u.hears
    BY <1>6, <1>7, <1>8
  <2>2. \A i, j \in DOMAIN u.pool : \E h, g \in DOMAIN t.pool :
           /\ u.pool[i] = t.pool[h] /\ u.pool[j] = t.pool[g]
           /\ h = g => i = j
    BY <1>2, <1>6
  <2>3. /\ \A i \in DOMAIN u.looper : u.looper[i].to <= c
        /\ u.audio_enc \in {0, k, t.audio_enc}
        /\ t.retried \subseteq u.retried /\ u.retried \subseteq t.retried \cup {k}
    BY <1>2, <1>6
  <2>4. QED
    BY <1>2, <1>5, <1>6, <1>9, <1>11, <1>12, <2>1, <2>2, <2>3, PoolStepInv
<1>14. QED
  BY <1>13 DEF u, x, k, e

(* It is not initialized: the recording is stopped, thread and all, and    *)
(* the next sample rate is tried.                                          *)
LEMMA RetryInv ==
    ASSUME NEW t, NEW f, NEW c \in Nat, Inv(t, f, c), t.step = "create"
    PROVE  Inv([StopRecordingAudio(NewRecord(t, t.task), t.task) EXCEPT
                   !.retried = @ \cup {t.task}], f, c)
<1> DEFINE k == t.task
           x == NewRecord(t, k)
           y == StopRecordingAudio(x, k)
           d == y.retried \cup {k}
           u == [y EXCEPT !.retried = d]
<1>1. t \in State /\ t.record \in [Pushers -> {"null", "ready", "recording"}]
  BY Fields DEF Inv
<1>2. /\ k \in Pushers /\ k <= c /\ Pending(t, k)
      /\ \A i, j \in DOMAIN t.pool : \E h, g \in DOMAIN t.pool :
            t.pool[i] = t.pool[h] /\ t.pool[j] = t.pool[g] /\ (h = g => i = j)
      /\ \A i \in DOMAIN t.looper : t.looper[i].to <= c
      /\ t.leaked => t.overlap # {}
      /\ k \notin t.overlap =>
            /\ RecordInv(t, k)
            /\ k \notin t.pausing /\ k \in t.lib \cup t.reopened
            /\ k \notin ToSet(t.pool) /\ k \in t.hears \cup t.retried
            /\ t.audio_enc # k /\ t.record[k] = "null"
  BY Running
<1>3. t.task = k /\ u = [StopRecordingAudio(NewRecord(t, t.task), t.task) EXCEPT
                            !.retried = @ \cup {t.task}]
  OBVIOUS
<1> HIDE DEF k
<1>4. /\ x \in State
      /\ x.record = [t.record EXCEPT ![k] = "ready"]
      /\ x.leaked = (t.leaked \/ t.record[k] # "null")
      /\ x.hears = t.hears /\ x.audio_enc = t.audio_enc
      /\ SameCamera(t, x) /\ SameNative(t, x) /\ SamePool(t, x) /\ SameLooper(t, x)
      /\ SamePause(t, x) /\ SameEnd(t, x) /\ SamePast(t, x)
  BY <1>1, <1>2, NewRecordFields
<1> HIDE DEF x
<1>5. /\ y \in State
      /\ y.record = [x.record EXCEPT ![k] = "null"]
      /\ y.hears = x.hears \ {k}
      /\ y.audio_enc = IF x.record[k] # "null" /\ k \in x.lib THEN 0 ELSE x.audio_enc
      /\ SameCamera(x, y) /\ SameNative(x, y) /\ SamePool(x, y) /\ SameLooper(x, y)
      /\ SamePause(x, y) /\ SameEnd(x, y) /\ SameLeak(x, y) /\ SamePast(x, y)
  BY <1>2, <1>4, StopRecordingFields
<1> HIDE DEF y
<1>6. d = t.retried \cup {k} /\ d \in SUBSET Pushers
  BY ZenonT(60), <1>2, <1>4, <1>5, Fields DEF SamePast
<1> HIDE DEF d
<1>7. u \in State
  BY <1>5, <1>6 DEF State
<1>8. /\ u.retried = d /\ u.record = y.record /\ u.leaked = x.leaked
      /\ u.hears = y.hears /\ u.audio_enc = y.audio_enc
      /\ u.pool = t.pool /\ u.task = t.task /\ u.step = t.step /\ u.looper = t.looper
      /\ u.overlap = t.overlap /\ u.reopened = t.reopened
      /\ u.stripped = t.stripped /\ u.layout = t.layout
      /\ SameCamera(t, u) /\ SameNative(t, u) /\ SamePause(t, u) /\ SameEnd(t, u)
  <2>1. /\ u.retried = d /\ u.record = y.record /\ u.leaked = y.leaked
        /\ u.hears = y.hears /\ u.audio_enc = y.audio_enc
        /\ u.overlap = y.overlap /\ u.reopened = y.reopened
        /\ u.stripped = y.stripped /\ u.layout = y.layout
        /\ SameCamera(y, u) /\ SameNative(y, u) /\ SamePause(y, u) /\ SameEnd(y, u)
        /\ SamePool(y, u) /\ SameLooper(y, u)
    BY <1>5 DEF State, SameCamera, SameNative, SamePause, SameEnd, SamePool, SameLooper
  <2>2. u.leaked = x.leaked
    BY <1>5, <2>1 DEF SameLeak
  <2>3. /\ u.pool = t.pool /\ u.task = t.task /\ u.step = t.step /\ u.looper = t.looper
        /\ u.overlap = t.overlap /\ u.reopened = t.reopened
        /\ u.stripped = t.stripped /\ u.layout = t.layout
    BY <1>4, <1>5, <2>1 DEF SamePool, SameLooper, SamePast
  <2>4. SameCamera(t, u) /\ SameNative(t, u) /\ SamePause(t, u) /\ SameEnd(t, u)
    BY <1>4, <1>5, <2>1 DEF SameCamera, SameNative, SamePause, SameEnd
  <2> HIDE DEF u
  <2>5. QED
    BY <2>1, <2>2, <2>3, <2>4
<1> HIDE DEF u
<1>9. u.record[k] = "null" /\ \A j \in Pushers \ {k} : u.record[j] = t.record[j]
  BY <1>1, <1>2, <1>4, <1>5, <1>8
<1>10. \A j \in Pushers : Pending(u, j) <=> Pending(t, j)
  BY <1>8 DEF Pending
<1>11. u.leaked => t.overlap # {}
  BY <1>2, <1>4, <1>8
<1>12. u.audio_enc \in {0, t.audio_enc} /\ \A j \in Pushers \ {k} : j \in t.hears => j \in u.hears
  BY <1>4, <1>5, <1>8
<1>13. ASSUME k \notin u.overlap
       PROVE  RecordInv(u, k)
  <2>1. u.lib = t.lib /\ u.pausing = t.pausing
    BY <1>8 DEF SameNative, SamePause
  <2>2. u.audio_enc # k
    BY <1>2, <1>8, <1>12, <1>13, Numbers
  <2>3. QED
    BY <1>2, <1>3, <1>6, <1>8, <1>9, <1>10, <1>13, <2>1, <2>2 DEF RecordInv
<1>14. (u.step = "idle" <=> u.task = 0) /\ u.task \in {0, k} /\ t.task \in {0, k}
  BY <1>2, <1>3, <1>8, Numbers
<1>15. t.retried \subseteq u.retried /\ u.retried \subseteq t.retried \cup {k}
  BY <1>6, <1>8
<1>16. Inv(u, f, c)
  <2>1. \A j \in Pushers \ {k} : /\ u.record[j] = t.record[j]
                                 /\ Pending(u, j) <=> Pending(t, j)
                                 /\ j \in t.hears => j \in u.hears
    BY <1>9, <1>10, <1>12
  <2>2. \A i, j \in DOMAIN u.pool : \E h, g \in DOMAIN t.pool :
           /\ u.pool[i] = t.pool[h] /\ u.pool[j] = t.pool[g]
           /\ h = g => i = j
    BY <1>2, <1>8
  <2>3. /\ \A i \in DOMAIN u.looper : u.looper[i].to <= c
        /\ u.audio_enc \in {0, k, t.audio_enc}
        /\ t.retried \subseteq u.retried /\ u.retried \subseteq t.retried \cup {k}
    BY <1>2, <1>8, <1>12, <1>15
  <2>4. QED
    BY <1>2, <1>7, <1>8, <1>11, <1>13, <1>14, <2>1, <2>2, <2>3, PoolStepInv
<1>17. QED
  BY <1>3, <1>16

(* openAudioEncoder opens one, over none but of an overtaken task: the one *)
(* that is open would be the same pusher's, whose task is not that far.    *)
LEMMA EncoderOpenedInv ==
    ASSUME NEW t, NEW f, NEW c \in Nat, Inv(t, f, c), t.step = "open", t.task \in t.lib
    PROVE  Inv([Leak(t, t.audio_enc # 0) EXCEPT !.audio_enc = t.task, !.step = "listen"], f, c)
<1> DEFINE k == t.task
           l == t.leaked \/ t.audio_enc # 0
           a == t.task
           e == "listen"
           u == [t EXCEPT !.leaked = l, !.audio_enc = a, !.step = e]
<1>1. t \in State /\ t.leaked \in BOOLEAN /\ t.audio_enc \in 0..MaxPushers
  BY Fields DEF Inv
<1>2. /\ k \in Pushers /\ k <= c /\ Pending(t, k)
      /\ \A i, j \in DOMAIN t.pool : \E h, g \in DOMAIN t.pool :
            t.pool[i] = t.pool[h] /\ t.pool[j] = t.pool[g] /\ (h = g => i = j)
      /\ \A i \in DOMAIN t.looper : t.looper[i].to <= c
      /\ t.leaked => t.overlap # {}
      /\ k \notin t.overlap =>
            /\ RecordInv(t, k)
            /\ k \notin t.pausing /\ k \in t.lib \cup t.reopened
            /\ k \notin ToSet(t.pool) /\ k \in t.hears \cup t.retried
            /\ t.audio_enc # k /\ t.record[k] = "ready"
  BY Running
<1>3. u = [Leak(t, t.audio_enc # 0) EXCEPT !.audio_enc = t.task, !.step = "listen"]
  BY <1>1 DEF Leak, State
<1>4. l => t.overlap # {}
  <2>1. ASSUME t.audio_enc # 0, t.overlap = {}
        PROVE  FALSE
    <3>1. PICK j \in Pushers : j = t.audio_enc
      BY <1>1, <2>1, Numbers
    <3>2. RecordInv(t, j)
      BY <2>1 DEF Inv, RecordingInv
    <3>3. j \in t.lib
      BY <3>1, <3>2 DEF RecordInv
    <3>4. j = k
      BY <3>3 DEF Inv, NativeInv
    <3>5. QED
      BY <1>2, <2>1, <3>1, <3>4
  <2>2. QED
    BY <1>2, <2>1
<1>5. /\ l \in BOOLEAN /\ a \in 0..MaxPushers /\ e \in {"idle", "create", "open", "listen"}
      /\ e = "listen" /\ a = k
  BY <1>1, <1>2, Numbers
<1>6. t.task = k /\ k \in t.lib
  OBVIOUS
<1> HIDE DEF k, l, a, e
<1>7. u \in State
  BY ZenonT(60), <1>1, <1>5 DEF State
<1>8. /\ u.leaked = l /\ u.audio_enc = a /\ u.step = e
      /\ u.record = t.record /\ u.hears = t.hears
      /\ u.pool = t.pool /\ u.task = t.task /\ u.looper = t.looper
      /\ u.overlap = t.overlap /\ u.reopened = t.reopened /\ u.retried = t.retried
      /\ u.stripped = t.stripped /\ u.layout = t.layout
      /\ SameCamera(t, u) /\ SameNative(t, u) /\ SamePause(t, u) /\ SameEnd(t, u)
  BY <1>1 DEF State, SameCamera, SameNative, SamePause, SameEnd
<1> HIDE DEF u
<1>9. \A j \in Pushers : Pending(u, j) <=> Pending(t, j)
  BY <1>8 DEF Pending
<1>10. ASSUME k \notin u.overlap
       PROVE  RecordInv(u, k)
  <2>1. u.lib = t.lib /\ u.pausing = t.pausing
    BY <1>8 DEF SameNative, SamePause
  <2>2. QED
    BY <1>2, <1>5, <1>6, <1>8, <1>9, <1>10, <2>1 DEF RecordInv
<1>11. (u.step = "idle" <=> u.task = 0) /\ u.task \in {0, k} /\ t.task \in {0, k}
  BY <1>2, <1>5, <1>6, <1>8, Numbers
<1>12. Inv(u, f, c)
  <2>1. \A j \in Pushers \ {k} : /\ u.record[j] = t.record[j]
                                 /\ Pending(u, j) <=> Pending(t, j)
                                 /\ j \in t.hears => j \in u.hears
    BY <1>8, <1>9
  <2>2. \A i, j \in DOMAIN u.pool : \E h, g \in DOMAIN t.pool :
           /\ u.pool[i] = t.pool[h] /\ u.pool[j] = t.pool[g]
           /\ h = g => i = j
    BY <1>2, <1>8
  <2>3. /\ \A i \in DOMAIN u.looper : u.looper[i].to <= c
        /\ u.audio_enc \in {0, k, t.audio_enc}
        /\ t.retried \subseteq u.retried /\ u.retried \subseteq t.retried \cup {k}
        /\ u.leaked => t.overlap # {}
    BY <1>2, <1>4, <1>5, <1>8
  <2>4. QED
    BY <1>2, <1>7, <1>8, <1>10, <1>11, <2>1, <2>2, <2>3, PoolStepInv
<1>13. QED
  BY <1>3, <1>12

(* It fails: it clears the one that is open, posts an error and returns. *)
LEMMA EncoderFailedInv ==
    ASSUME NEW t, NEW f, NEW c \in Nat, Inv(t, f, c), t.step = "open", t.task \in t.lib
    PROVE  Inv(Return(Post([Leak(t, t.audio_enc # 0) EXCEPT !.audio_enc = 0],
                           "error", t.task)), f, c)
<1> DEFINE k == t.task
           l == t.leaked \/ t.audio_enc # 0
           n == 0
           e == "idle"
           m == [what |-> "error", to |-> k]
           q == Append(t.looper, m)
           u == [t EXCEPT !.leaked = l, !.audio_enc = n, !.looper = q,
                          !.task = n, !.step = e, !.idx = n]
<1>1. t \in State /\ t.leaked \in BOOLEAN /\ t.audio_enc \in 0..MaxPushers
      /\ t.looper \in Seq(Message)
  BY Fields DEF Inv
<1>2. /\ k \in Pushers /\ k <= c /\ Pending(t, k)
      /\ \A i, j \in DOMAIN t.pool : \E h, g \in DOMAIN t.pool :
            t.pool[i] = t.pool[h] /\ t.pool[j] = t.pool[g] /\ (h = g => i = j)
      /\ \A i \in DOMAIN t.looper : t.looper[i].to <= c
      /\ t.leaked => t.overlap # {}
      /\ k \notin t.overlap =>
            /\ RecordInv(t, k)
            /\ k \notin t.pausing /\ k \in t.lib \cup t.reopened
            /\ k \notin ToSet(t.pool) /\ k \in t.hears \cup t.retried
            /\ t.audio_enc # k /\ t.record[k] = "ready"
  BY Running
<1>3. u = Return(Post([Leak(t, t.audio_enc # 0) EXCEPT !.audio_enc = 0], "error", t.task))
  <2>1. Leak(t, t.audio_enc # 0) = [t EXCEPT !.leaked = l]
    BY <1>1 DEF Leak, State
  <2>2. Post([Leak(t, t.audio_enc # 0) EXCEPT !.audio_enc = 0], "error", t.task)
           = [t EXCEPT !.leaked = l, !.audio_enc = 0, !.looper = q]
    BY <1>1, <2>1 DEF Post, State
  <2>3. QED
    BY <1>1, <2>2 DEF Return, State
<1>4. l => t.overlap # {}
  <2>1. ASSUME t.audio_enc # 0, t.overlap = {}
        PROVE  FALSE
    <3>1. PICK j \in Pushers : j = t.audio_enc
      BY <1>1, <2>1, Numbers
    <3>2. RecordInv(t, j)
      BY <2>1 DEF Inv, RecordingInv
    <3>3. j \in t.lib
      BY <3>1, <3>2 DEF RecordInv
    <3>4. j = k
      BY <3>3 DEF Inv, NativeInv
    <3>5. QED
      BY <1>2, <2>1, <3>1, <3>4
  <2>2. QED
    BY <1>2, <2>1
<1>5. /\ l \in BOOLEAN /\ n \in 0..MaxPushers /\ n \in 0..Samplerates
      /\ e \in {"idle", "create", "open", "listen"} /\ e = "idle" /\ n = 0
  BY <1>1, Numbers
<1>6. t.task = k
  OBVIOUS
<1>7. m \in Message /\ m.to = k
  BY <1>2 DEF Message
<1> HIDE DEF k, l, n, e, m
<1>8. /\ q \in Seq(Message)
      /\ \A i \in DOMAIN q : (\E h \in DOMAIN t.looper : q[i] = t.looper[h]) \/ q[i] = m
  BY <1>1, <1>7
<1> HIDE DEF q
<1>9. u \in State
  BY ZenonT(60), <1>1, <1>5, <1>8 DEF State
<1>10. /\ u.leaked = l /\ u.audio_enc = n /\ u.looper = q /\ u.task = n /\ u.step = e
       /\ u.record = t.record /\ u.hears = t.hears /\ u.pool = t.pool
       /\ u.overlap = t.overlap /\ u.reopened = t.reopened /\ u.retried = t.retried
      /\ u.stripped = t.stripped /\ u.layout = t.layout
       /\ SameCamera(t, u) /\ SameNative(t, u) /\ SamePause(t, u) /\ SameEnd(t, u)
  BY <1>1 DEF State, SameCamera, SameNative, SamePause, SameEnd
<1> HIDE DEF u
<1>11. \A j \in Pushers \ {k} : Pending(u, j) <=> Pending(t, j)
  BY <1>5, <1>6, <1>10, Numbers DEF Pending
<1>12. ASSUME k \notin u.overlap
       PROVE  RecordInv(u, k)
  <2>1. u.lib = t.lib /\ u.pausing = t.pausing
    BY <1>10 DEF SameNative, SamePause
  <2>2. ~Pending(u, k) /\ u.task # k
    BY <1>2, <1>5, <1>10, <1>12, Numbers DEF Pending
  <2>3. QED
    BY <1>2, <1>5, <1>10, <1>12, <2>1, <2>2 DEF RecordInv
<1>13. (u.step = "idle" <=> u.task = 0) /\ u.task \in {0, k} /\ t.task \in {0, k}
  BY <1>5, <1>6, <1>10
<1>14. Inv(u, f, c)
  <2>1. \A j \in Pushers \ {k} : /\ u.record[j] = t.record[j]
                                 /\ Pending(u, j) <=> Pending(t, j)
                                 /\ j \in t.hears => j \in u.hears
    BY <1>10, <1>11
  <2>2. \A i, j \in DOMAIN u.pool : \E h, g \in DOMAIN t.pool :
           /\ u.pool[i] = t.pool[h] /\ u.pool[j] = t.pool[g]
           /\ h = g => i = j
    BY <1>2, <1>10
  <2>3. /\ \A i \in DOMAIN u.looper : u.looper[i].to <= c
        /\ u.audio_enc \in {0, k, t.audio_enc}
        /\ t.retried \subseteq u.retried /\ u.retried \subseteq t.retried \cup {k}
        /\ u.leaked => t.overlap # {}
    BY <1>2, <1>4, <1>5, <1>7, <1>8, <1>10
  <2>4. QED
    BY <1>2, <1>9, <1>10, <1>12, <1>13, <2>1, <2>2, <2>3, PoolStepInv
<1>15. QED
  BY <1>3, <1>14

(* mAudioRecord.startRecording, and the task is done. *)
LEMMA RecordingStartedInv ==
    ASSUME NEW t, NEW f, NEW c \in Nat, Inv(t, f, c), t.step = "listen",
           t.record[t.task] # "null"
    PROVE  Inv(Return([t EXCEPT !.record[t.task] = "recording"]), f, c)
<1> DEFINE k == t.task
           r == [t.record EXCEPT ![k] = "recording"]
           n == 0
           e == "idle"
           u == [t EXCEPT !.record = r, !.task = n, !.step = e, !.idx = n]
<1>1. t \in State /\ t.record \in [Pushers -> {"null", "ready", "recording"}]
  BY Fields DEF Inv
<1>2. /\ k \in Pushers /\ k <= c /\ Pending(t, k)
      /\ \A i, j \in DOMAIN t.pool : \E h, g \in DOMAIN t.pool :
            t.pool[i] = t.pool[h] /\ t.pool[j] = t.pool[g] /\ (h = g => i = j)
      /\ \A i \in DOMAIN t.looper : t.looper[i].to <= c
      /\ t.leaked => t.overlap # {}
      /\ k \notin t.overlap =>
            /\ RecordInv(t, k)
            /\ k \notin t.pausing /\ k \in t.lib \cup t.reopened
            /\ k \notin ToSet(t.pool) /\ k \in t.hears \cup t.retried
  BY Running
<1>3. u = Return([t EXCEPT !.record[t.task] = "recording"])
  BY <1>1 DEF Return, State
<1>4. t.task = k
  OBVIOUS
<1> HIDE DEF k
<1>5. /\ r \in [Pushers -> {"null", "ready", "recording"}]
      /\ r[k] = "recording" /\ \A j \in Pushers \ {k} : r[j] = t.record[j]
      /\ n \in 0..MaxPushers /\ n \in 0..Samplerates /\ n = 0
      /\ e \in {"idle", "create", "open", "listen"} /\ e = "idle"
  BY <1>1, <1>2, Numbers
<1> HIDE DEF r, n, e
<1>6. u \in State
  BY ZenonT(60), <1>1, <1>5 DEF State
<1>7. /\ u.record = r /\ u.task = n /\ u.step = e
      /\ u.hears = t.hears /\ u.audio_enc = t.audio_enc /\ u.pool = t.pool
      /\ u.looper = t.looper /\ u.leaked = t.leaked
      /\ u.overlap = t.overlap /\ u.reopened = t.reopened /\ u.retried = t.retried
      /\ u.stripped = t.stripped /\ u.layout = t.layout
      /\ SameCamera(t, u) /\ SameNative(t, u) /\ SamePause(t, u) /\ SameEnd(t, u)
  BY <1>1 DEF State, SameCamera, SameNative, SamePause, SameEnd
<1> HIDE DEF u
<1>8. \A j \in Pushers \ {k} : Pending(u, j) <=> Pending(t, j)
  BY <1>4, <1>5, <1>7, Numbers DEF Pending
<1>9. ASSUME k \notin u.overlap
      PROVE  RecordInv(u, k)
  <2>1. u.lib = t.lib /\ u.pausing = t.pausing
    BY <1>7 DEF SameNative, SamePause
  <2>2. ~Pending(u, k) /\ u.task # k
    BY <1>2, <1>5, <1>7, <1>9, Numbers DEF Pending
  <2>3. k \notin u.pausing /\ u.record[k] = "recording"
    BY <1>2, <1>5, <1>7, <1>9, <2>1
  <2>4. QED
    BY <1>2, <1>5, <1>7, <1>9, <2>1, <2>2, <2>3 DEF RecordInv
<1>10. (u.step = "idle" <=> u.task = 0) /\ u.task \in {0, k} /\ t.task \in {0, k}
  BY <1>4, <1>5, <1>7
<1>11. Inv(u, f, c)
  <2>1. \A j \in Pushers \ {k} : /\ u.record[j] = t.record[j]
                                 /\ Pending(u, j) <=> Pending(t, j)
                                 /\ j \in t.hears => j \in u.hears
    BY <1>5, <1>7, <1>8
  <2>2. \A i, j \in DOMAIN u.pool : \E h, g \in DOMAIN t.pool :
           /\ u.pool[i] = t.pool[h] /\ u.pool[j] = t.pool[g]
           /\ h = g => i = j
    BY <1>2, <1>7
  <2>3. /\ \A i \in DOMAIN u.looper : u.looper[i].to <= c
        /\ u.audio_enc \in {0, k, t.audio_enc}
        /\ t.retried \subseteq u.retried /\ u.retried \subseteq t.retried \cup {k}
        /\ u.leaked => t.overlap # {}
    BY <1>2, <1>7
  <2>4. QED
    BY <1>2, <1>6, <1>7, <1>9, <1>10, <2>1, <2>2, <2>3, PoolStepInv
<1>12. QED
  BY <1>3, <1>11

(* The main looper takes its next message, which is to a created pusher. *)
Taken(t) == [t EXCEPT !.looper = Tail(@)]

LEMMA TakenInv ==
    ASSUME NEW t, NEW f, NEW c \in Nat, Inv(t, f, c), t.looper # <<>>
    PROVE  /\ Inv(Taken(t), f, c)
           /\ Head(t.looper) \in Message /\ Head(t.looper).to <= c
           /\ SamePause(t, Taken(t)) /\ SameEnd(t, Taken(t))
<1> DEFINE q == Tail(t.looper)
           u == [t EXCEPT !.looper = q]
<1>1. t \in State /\ t.looper \in Seq(Message)
  BY Fields DEF Inv
<1>2. PICK x : x \in Message
  BY <1>1
<1>3. /\ q \in Seq(Message)
      /\ 1 \in DOMAIN t.looper /\ Head(t.looper) = t.looper[1]
      /\ \A i \in DOMAIN q : i + 1 \in DOMAIN t.looper /\ q[i] = t.looper[i + 1]
  BY <1>1, <1>2, Queues
<1>4. Taken(t) = u
  BY <1>1 DEF Taken, State
<1> HIDE DEF q
<1>5. u \in State
  BY <1>1, <1>3 DEF State
<1>6. /\ u.looper = q
      /\ SameCamera(t, u) /\ SameNative(t, u) /\ SameRecord(t, u) /\ SamePool(t, u)
      /\ SamePause(t, u) /\ SameEnd(t, u) /\ SameLeak(t, u) /\ SamePast(t, u)
  BY <1>1 DEF State, SameCamera, SameNative, SameRecord, SamePool, SamePause, SameEnd,
     SameLeak, SamePast
<1> HIDE DEF u
<1>7. CameraInv(u, f)
  BY <1>6 DEF Inv, CameraInv, SameCamera, SameNative, SamePause, SameEnd
<1>8. NativeInv(u, f)
  BY <1>6 DEF Inv, NativeInv, SameNative, SameCamera, SameEnd, SamePast
<1>9. ASSUME NEW j \in Pushers, j > c
      PROVE  Unborn(u, j)
  <2>1. Unborn(t, j)
    BY <1>9 DEF Inv, BirthInv
  <2>2. \A i \in DOMAIN q : q[i].to # j
    BY <1>3, <2>1 DEF Unborn
  <2>3. Pending(u, j) <=> Pending(t, j)
    BY <1>6 DEF Pending, SamePool
  <2>4. QED
    BY <1>6, <2>1, <2>2, <2>3 DEF Unborn, SameNative, SameCamera, SameRecord, SamePause, SamePast
<1>10. PausedInv(u, f, c)
  BY <1>6 DEF Inv, PausedInv, SamePause, SameNative, SamePast
<1>11. RecordingInv(u)
  BY <1>6, RecordingKept DEF Inv, SameNative, SamePause, SamePast
<1>12. HistoryInv(u)
  BY <1>6 DEF Inv, HistoryInv, SameLeak, SameEnd, SamePast, SameNative
<1>13. Inv(u, f, c)
  BY <1>5, <1>7, <1>8, <1>9, <1>10, <1>11, <1>12 DEF Inv, BirthInv
<1>14. Head(t.looper) \in Message /\ Head(t.looper).to <= c
  BY <1>3, Created
<1>15. QED
  BY <1>4, <1>6, <1>13, <1>14

(* The back key. *)
LEMMA FinishInv ==
    ASSUME NEW t, NEW f, NEW c, Inv(t, f, c)
    PROVE  LET u == [t EXCEPT !.finishing = TRUE]
           IN  Inv(u, f, c) /\ SamePause(t, u)
<1> DEFINE b == TRUE
           u == [t EXCEPT !.finishing = b]
<1>1. t \in State /\ b \in BOOLEAN
  BY DEF Inv
<1>2. u = [t EXCEPT !.finishing = TRUE]
  OBVIOUS
<1> HIDE DEF b
<1>3. u \in State
  BY <1>1 DEF State
<1>4. /\ SameCamera(t, u) /\ SameNative(t, u) /\ SameRecord(t, u) /\ SamePool(t, u)
      /\ SameLooper(t, u) /\ SamePause(t, u) /\ SameEnd(t, u) /\ SameLeak(t, u)
      /\ SamePast(t, u)
  BY <1>1 DEF State, SameCamera, SameNative, SameRecord, SamePool, SameLooper, SamePause,
     SameEnd, SameLeak, SamePast
<1> HIDE DEF u
<1>5. QED
  BY <1>2, <1>3, <1>4, SameInv

(* resetFQRtmp: the activity has no pusher then. *)
LEMMA ResetInv ==
    ASSUME NEW t, NEW c \in Nat, NEW f \in 0..c, c <= MaxPushers, Inv(t, f, c),
           t.crash = "none"
    PROVE  Inv(IF f = 0 THEN t ELSE Close(t, f), 0, c)
<1>1. CASE f = 0
  BY <1>1
<1>2. CASE f # 0
  <2> DEFINE u == Close(t, f)
  <2>1. f \in Pushers /\ f <= c /\ c \in Int
    BY <1>2, Numbers DEF Pushers
  <2>2. /\ Inv(u, f, c) /\ f \notin u.lib /\ f \notin u.camera /\ f \in u.pausing
        /\ u.layout = 0
    BY <2>1, CloseInv
  <2> HIDE DEF u
  <2>3. u.lib = {} /\ u.camera = {}
    BY <2>2 DEF Inv, CameraInv, NativeInv
  <2>4. Inv(u, 0, c)
    BY <2>2, <2>3, LeaveInv
  <2>5. QED
    BY <1>2, <2>4 DEF u
<1>3. QED
  BY <1>1, <1>2

(* handleLive: the old pusher is reset, the new one made and processed. *)
LEMMA LiveInv ==
    ASSUME NEW t, NEW c \in Nat, NEW f \in 0..c, c < MaxPushers, Inv(t, f, c),
           t.crash = "none",
           NEW url \in Url, NEW result \in Result, NEW again \in Result
    PROVE  LET new == Born(IF f = 0 THEN t ELSE Close(t, f), c + 1)
           IN  Inv(IF new.crash # "none" THEN new
                   ELSE Process(new, c + 1, url, result, again), c + 1, c + 1)
<1> DEFINE r == IF f = 0 THEN t ELSE Close(t, f)
           k == c + 1
           new == Born(r, k)
<1>1. Inv(r, 0, c)
  BY ResetInv, Numbers
<1>2. k \in Pushers /\ k \in Nat
  BY Numbers DEF Pushers
<1>3. k = c + 1
  OBVIOUS
<1> HIDE DEF r, k
<1>4. /\ Inv(new, k, k)
      /\ k \in new.lib /\ new.rtmp_hdlr = 0 /\ SameEnd(r, new)
      /\ ~Pending(new, k) /\ new.record[k] = "null" /\ new.audio_enc # k
  BY <1>1, <1>2, <1>3, CreateInv
<1> HIDE DEF new
<1>5. new.crash = "none" => Inv(Process(new, k, url, result, again), k, k)
  BY <1>2, <1>4, ProcessInv
<1>6. Inv(IF new.crash # "none" THEN new ELSE Process(new, k, url, result, again), k, k)
  BY <1>4, <1>5
<1>7. QED
  BY <1>6 DEF new, r, k
-----------------------------------------------------------------------------
(* It holds at first. *)
LEMMA PInvInit == Init => PInv
<1> SUFFICES ASSUME Init
             PROVE  PInv
  OBVIOUS
<1> USE DEF Init
<1>1. s \in State
  <2>1. /\ 0 \in 0..MaxPushers /\ 0 \in 0..Samplerates /\ {} \in SUBSET Pushers
        /\ <<>> \in Seq(Message) /\ <<>> \in Seq(Pushers)
        /\ [k \in Pushers |-> "null"] \in [Pushers -> {"null", "ready", "recording"}]
    BY Numbers
  <2>2. QED
    BY <2>1 DEF State
<1>2. \A k \in Pushers : ~Pending(s, k) /\ s.record[k] = "null" /\ s.audio_enc # k
  BY Numbers DEF Pending, ToSet
<1>3. CameraInv(s, 0)
  BY Numbers DEF CameraInv
<1>4. NativeInv(s, 0)
  BY DEF NativeInv
<1>5. BirthInv(s, 0)
  <2>1. /\ s.looper = <<>> /\ s.lib = {} /\ s.camera = {} /\ s.pausing = {}
        /\ s.started = {} /\ s.overlap = {} /\ s.reopened = {} /\ s.retried = {}
    OBVIOUS
  <2>2. DOMAIN s.looper = {}
    BY <2>1
  <2> HIDE DEF Init
  <2> SUFFICES ASSUME NEW k \in Pushers
               PROVE  Unborn(s, k)
    BY DEF BirthInv
  <2>3. QED
    BY <1>2, <2>1, <2>2 DEF Unborn
<1>6. PausedInv(s, 0, 0)
  BY DEF PausedInv
<1>7. RecordingInv(s)
  <2>1. s.pausing = {} /\ s.task = 0 /\ s.step = "idle" /\ s.pool = <<>>
    OBVIOUS
  <2>2. DOMAIN s.pool = {} /\ ToSet(s.pool) = {}
    BY <2>1 DEF ToSet
  <2> HIDE DEF Init
  <2>3. \A k \in Pushers : RecordInv(s, k)
    BY <1>2, <2>1, <2>2, Numbers DEF RecordInv
  <2>4. QED
    BY <2>1, <2>3 DEF RecordingInv
<1>8. HistoryInv(s)
  BY DEF HistoryInv
<1>9. Inv(s, 0, 0)
  BY <1>1, <1>3, <1>4, <1>5, <1>6, <1>7, <1>8 DEF Inv
<1>10. QED
  BY <1>9, Numbers DEF PInv

(* Every handler of the main thread keeps it. *)
LEMMA PInvMain ==
    ASSUME PInv, s.crash = "none", MainThread
    PROVE  PInv'
<1>1. /\ Inv(s, mFQRtmp, created) /\ created \in Nat /\ created <= MaxPushers
      /\ mFQRtmp \in 0..created
      /\ mFQRtmp # 0 => mFQRtmp \in Pushers /\ mFQRtmp <= created
      /\ created \in Int
  BY Numbers DEF PInv, Pushers
<1>2. ASSUME NEW url \in Url, NEW result \in Result, NEW again \in Result,
             HandleLive(url, result, again)
      PROVE  PInv'
  <2>1. created < MaxPushers /\ created' = created + 1 /\ mFQRtmp' = created + 1
    BY <1>2 DEF HandleLive
  <2>2. Inv(s', created + 1, created + 1)
    BY <1>1, <1>2, <2>1, LiveInv DEF HandleLive, ResetFQRtmp, Born
  <2>3. activity' = "resumed"
    BY <1>2 DEF HandleLive
  <2>4. QED
    BY <1>1, <2>1, <2>2, <2>3, Numbers DEF PInv
<1>3. CASE HandleAbout
  <2>1. Inv(s', 0, created)
    BY <1>1, <1>3, ResetInv DEF HandleAbout, ResetFQRtmp
  <2>2. QED
    BY <1>1, <1>3, <2>1 DEF PInv, HandleAbout
<1>4. CASE ActivityPause
  <2>1. CASE mFQRtmp = 0
    BY <1>4, <2>1 DEF PInv, ActivityPause
  <2>2. CASE mFQRtmp # 0
    <3>1. s' = OnPause(s, mFQRtmp) /\ mFQRtmp' = mFQRtmp /\ created' = created
          /\ activity' = "paused"
      BY <1>4, <2>2 DEF ActivityPause
    <3>2. Inv(s', mFQRtmp, created) /\ mFQRtmp \in s'.pausing
      BY <1>1, <2>2, <3>1, OnPauseInv
    <3>3. QED
      BY <1>1, <3>1, <3>2 DEF PInv
  <2>3. QED
    BY <2>1, <2>2
<1>5. CASE Finish
  <2>1. Inv(s', mFQRtmp, created) /\ s'.pausing = s.pausing
    BY <1>1, <1>5, FinishInv DEF Finish, SamePause
  <2>2. QED
    BY <1>1, <1>5, <2>1 DEF PInv, Finish
<1>6. CASE ActivityDestroy
  <2>1. Inv(s', 0, created)
    BY <1>1, <1>6, ResetInv DEF ActivityDestroy, ResetFQRtmp
  <2>2. QED
    BY <1>1, <1>6, <2>1 DEF PInv, ActivityDestroy
<1>7. ASSUME NEW result \in Result, ActivityResume(result)
      PROVE  PInv'
  <2>1. CASE mFQRtmp = 0
    BY <1>7, <2>1 DEF PInv, ActivityResume
  <2>2. CASE mFQRtmp # 0
    <3>1. mFQRtmp \in Pushers /\ mFQRtmp \in s.pausing
      BY <1>1, <1>7, <2>2 DEF PInv, ActivityResume
    <3>2. mFQRtmp \notin s.overlap => RecordInv(s, mFQRtmp)
      BY <1>1, <3>1 DEF Inv, RecordingInv
    <3>3. mFQRtmp \in s.overlap
            \/ (/\ ~Pending(s, mFQRtmp) /\ s.record[mFQRtmp] = "null"
                /\ s.audio_enc # mFQRtmp)
      BY <3>1, <3>2 DEF RecordInv
    <3>4. s' = OnResume(s, mFQRtmp, result)
      BY <1>7, <2>2 DEF ActivityResume
    <3>5. Inv(s', mFQRtmp, created)
      BY <1>1, <3>1, <3>3, <3>4, OnResumeInv
    <3>6. QED
      BY <1>1, <1>7, <3>5 DEF PInv, ActivityResume
  <2>3. QED
    BY <2>1, <2>2
<1>8. ASSUME NEW k \in Pushers, NEW result \in Result, SwitchCameraId(k, result)
      PROVE  PInv'
  <2> DEFINE p == StopPreview(s, k)
             x == CloseCamera(p, k)
  <2>1. k = mFQRtmp /\ k <= created
    BY <1>1, <1>8 DEF SwitchCameraId
  <2>2. Inv(p, mFQRtmp, created)
    BY <1>1, StopPreviewInv
  <2>3. k \notin p.previewing
    BY <1>1, StopPreviewFields DEF Inv
  <2>4. Inv(x, mFQRtmp, created)
    BY <2>2, <2>3, CloseCameraInv
  <2>5. s' = IF x.crash # "none" THEN x ELSE StartPreview(x, k, result)
    BY <1>8 DEF SwitchCameraId
  <2> HIDE DEF p, x
  <2>6. Inv(x, k, created)
    BY <2>1, <2>4
  <2>7. x.crash = "none" => Inv(StartPreview(x, k, result), k, created)
    BY <1>1, <2>1, <2>6, StartPreviewInv
  <2>8. Inv(s', mFQRtmp, created)
    BY <2>1, <2>5, <2>6, <2>7
  <2>9. activity = "resumed" /\ UNCHANGED <<activity, mFQRtmp, created>>
    BY <1>8 DEF SwitchCameraId
  <2>10. QED
    BY <1>1, <2>8, <2>9 DEF PInv
<1>11. ASSUME NEW k \in Pushers, FindIcon(k)
       PROVE  PInv'
  <2>1. s' = Crash(s, "no view", k) /\ UNCHANGED <<activity, mFQRtmp, created>>
        /\ k \in s.previewing /\ s.layout = 0
    BY <1>11 DEF FindIcon
  <2>2. k \in s.stripped
    BY <1>1, <2>1, Numbers DEF Inv, CameraInv, NativeInv
  <2>3. Inv(s', mFQRtmp, created) /\ SamePause(s, s')
    BY <1>1, <2>1, <2>2, CrashInv
  <2>4. QED
    BY <1>1, <2>1, <2>3 DEF PInv, SamePause
<1>9. ASSUME NEW k \in Pushers, SurfaceDestroyed(k)
      PROVE  PInv'
  <2>1. Inv(s', mFQRtmp, created)
    BY <1>1, <1>9, StopPreviewInv DEF SurfaceDestroyed
  <2>2. s'.pausing = s.pausing
    BY <1>1, <1>9, StopPreviewFields DEF SurfaceDestroyed, Inv, SamePause
  <2>3. QED
    BY <1>1, <1>9, <2>1, <2>2 DEF PInv, SurfaceDestroyed
<1>10. CASE HandleMessage
  <2> DEFINE m == Head(s.looper)
             t == Taken(s)
  <2>1. s.looper # <<>> /\ UNCHANGED <<activity, mFQRtmp, created>>
        /\ s' = IF m.what = "failed" THEN Post(t, "error", m.to) ELSE Close(t, m.to)
    BY <1>10 DEF HandleMessage, Taken
  <2>2. /\ Inv(t, mFQRtmp, created) /\ m \in Message /\ m.to <= created
        /\ SamePause(s, t) /\ SameEnd(s, t)
    BY <1>1, <2>1, TakenInv
  <2>3. m.to \in Pushers
    BY <2>2 DEF Message
  <2> HIDE DEF m, t
  <2>4. Inv(Post(t, "error", m.to), mFQRtmp, created) /\ SamePause(t, Post(t, "error", m.to))
    BY <1>1, <2>2, <2>3, PostInv
  <2>5. t.crash = "none"
    BY <2>2 DEF SameEnd
  <2>6. Inv(Close(t, m.to), mFQRtmp, created) /\ t.pausing \subseteq Close(t, m.to).pausing
    BY <1>1, <2>2, <2>3, <2>5, CloseInv
  <2>7. Inv(s', mFQRtmp, created) /\ s.pausing \subseteq s'.pausing
    BY <2>1, <2>2, <2>4, <2>6 DEF SamePause
  <2>8. QED
    BY <1>1, <2>1, <2>7 DEF PInv
<1>12. QED
  BY <1>2, <1>3, <1>4, <1>5, <1>6, <1>7, <1>8, <1>9, <1>10, <1>11 DEF MainThread

(* So does every step of the pool's thread. *)
LEMMA PInvPool ==
    ASSUME PInv, s.crash = "none", PoolThread
    PROVE  PInv'
<1>1. /\ Inv(s, mFQRtmp, created) /\ created \in Nat
      /\ s.task \in 0..MaxPushers /\ s.step \in {"idle", "create", "open", "listen"}
  <2>1. Inv(s, mFQRtmp, created) /\ created \in Nat
    BY DEF PInv
  <2>2. s \in State
    BY <2>1 DEF Inv
  <2>3. QED
    BY <2>1, <2>2, Fields
<1>2. UNCHANGED <<activity, mFQRtmp, created, resumes, switches>>
  BY DEF PoolThread, StartRecordingAudio, CreateRecord, OpenAudioEncoder, StartRecording,
     Background
<1>3. Inv(s', mFQRtmp, created)
  <2>1. CASE StartRecordingAudio
    BY <1>1, <2>1, TaskStartedInv DEF StartRecordingAudio, Background, TaskStarted
  <2>2. ASSUME NEW result \in {"unsupported", "not initialized", "ready"}, CreateRecord(result)
        PROVE  Inv(s', mFQRtmp, created)
    <3> DEFINE k == s.task
               n == [s EXCEPT !.idx = @ + 1]
    <3>1. s.step = "create"
      BY <2>2 DEF CreateRecord
    <3>2. CASE s.idx = Samplerates
      <4>1. s' = Return(s)
        BY <2>2, <3>2 DEF CreateRecord, Background
      <4>2. QED
        BY <1>1, <3>1, <4>1, ReturnInv
    <3>3. CASE s.idx # Samplerates
      <4>1. s' = CASE result = "unsupported" -> n
                   [] result = "not initialized" ->
                        [StopRecordingAudio(NewRecord(n, k), k) EXCEPT !.retried = @ \cup {k}]
                   [] result = "ready" -> [NewRecord(n, k) EXCEPT !.step = "open"]
        <5>1. Leak(n, s.record[k] # "null") = Leak(n, n.record[k] # "null")
          BY <1>1 DEF State, Inv
        <5>2. QED
          BY <2>2, <3>3, <5>1 DEF CreateRecord, Background, NewRecord
      <4>2. Inv(n, mFQRtmp, created)
        BY <1>1, <3>3, NextRateInv
      <4>3. n.step = "create" /\ n.task = k
        BY <1>1, <3>1 DEF State, Inv
      <4> HIDE DEF n
      <4>4. /\ Inv([NewRecord(n, n.task) EXCEPT !.step = "open"], mFQRtmp, created)
            /\ Inv([StopRecordingAudio(NewRecord(n, n.task), n.task) EXCEPT
                       !.retried = @ \cup {n.task}], mFQRtmp, created)
        BY <1>1, <4>2, <4>3, ReadyInv, RetryInv
      <4>5. CASE result = "unsupported"
        BY <4>1, <4>2, <4>5
      <4>6. CASE result = "not initialized"
        BY <4>1, <4>3, <4>4, <4>6
      <4>7. CASE result = "ready"
        BY <4>1, <4>3, <4>4, <4>7
      <4>8. QED
        BY <4>5, <4>6, <4>7
    <3>4. QED
      BY <3>2, <3>3
  <2>3. ASSUME NEW ok \in BOOLEAN, OpenAudioEncoder(ok)
        PROVE  Inv(s', mFQRtmp, created)
    <3>1. s.step = "open"
      BY <2>3 DEF OpenAudioEncoder
    <3>2. CASE s.task \notin s.lib
      <4>1. s.task \in Pushers /\ s.task \in s.overlap \cup s.reopened
        BY <1>1, <3>1, <3>2, Running
      <4>2. s' = Crash(s, "null", s.task)
        BY <2>3, <3>2 DEF OpenAudioEncoder, Background
      <4>3. QED
        BY <1>1, <4>1, <4>2, CrashInv
    <3>3. CASE s.task \in s.lib /\ ok
      <4>1. s' = [Leak(s, s.audio_enc # 0) EXCEPT !.audio_enc = s.task, !.step = "listen"]
        BY <2>3, <3>3 DEF OpenAudioEncoder, Background
      <4>2. QED
        BY <1>1, <3>1, <3>3, <4>1, EncoderOpenedInv
    <3>4. CASE s.task \in s.lib /\ ~ok
      <4>1. s' = Return(Post([Leak(s, s.audio_enc # 0) EXCEPT !.audio_enc = 0],
                             "error", s.task))
        BY <2>3, <3>4 DEF OpenAudioEncoder, Background
      <4>2. QED
        BY <1>1, <3>1, <3>4, <4>1, EncoderFailedInv
    <3>5. QED
      BY <3>2, <3>3, <3>4
  <2>4. CASE StartRecording
    <3>1. s.step = "listen"
      BY <2>4 DEF StartRecording
    <3>2. CASE s.record[s.task] = "null"
      <4>1. s.task \in Pushers /\ s.task \in s.overlap
        BY <1>1, <3>1, <3>2, Running
      <4>2. s' = Crash(s, "null", s.task)
        BY <2>4, <3>2 DEF StartRecording, Background
      <4>3. QED
        BY <1>1, <4>1, <4>2, CrashInv
    <3>3. CASE s.record[s.task] # "null"
      <4>1. s' = Return([s EXCEPT !.record[s.task] = "recording"])
        BY <2>4, <3>3 DEF StartRecording, Background
      <4>2. QED
        BY <1>1, <3>1, <3>3, <4>1, RecordingStartedInv
    <3>4. QED
      BY <3>2, <3>3
  <2>5. QED
    BY <2>1, <2>2, <2>3, <2>4 DEF PoolThread
<1>4. s'.pausing = s.pausing
  <2>1. CASE StartRecordingAudio
    BY <1>1, <2>1 DEF StartRecordingAudio, Background, State, Inv
  <2>2. ASSUME NEW result \in {"unsupported", "not initialized", "ready"}, CreateRecord(result)
        PROVE  s'.pausing = s.pausing
    BY <1>1, <2>2
       DEF CreateRecord, Background, Return, Leak, StopRecordingAudio, State, Inv
  <2>3. ASSUME NEW ok \in BOOLEAN, OpenAudioEncoder(ok)
        PROVE  s'.pausing = s.pausing
    BY <1>1, <2>3 DEF OpenAudioEncoder, Background, Return, Leak, Post, Crash, State, Inv
  <2>4. CASE StartRecording
    BY <1>1, <2>4 DEF StartRecording, Background, Return, Crash, State, Inv
  <2>5. QED
    BY <2>1, <2>2, <2>3, <2>4 DEF PoolThread
<1>5. QED
  BY <1>1, <1>2, <1>3, <1>4 DEF PInv

(* The inductive invariant of the pushers. *)
THEOREM PusherInvariance == Spec => []PInv
<1>1. PInv /\ [Next]_vars => PInv'
  <2>1. PInv /\ Next => PInv'
    BY PInvMain, PInvPool DEF Next
  <2>2. PInv /\ UNCHANGED vars => PInv'
    BY DEF PInv, vars
  <2>3. QED
    BY <2>1, <2>2
<1>2. QED
  BY <1>1, PInvInit, PTL DEF Spec

(* The assertions of CameraHolder hold, whichever way the pushers come and *)
(* go: the camera is the activity's pusher's, if anybody's.                *)
THEOREM CameraHolds == Spec => []CameraAssertionsHold
<1>1. PInv => CameraAssertionsHold
  <2> SUFFICES ASSUME PInv
               PROVE  CameraAssertionsHold
    OBVIOUS
  <2>1. CameraInv(s, mFQRtmp)
    BY DEF PInv, Inv
  <2>2. CASE s.camera = {}
    BY <2>1, <2>2, FS_EmptySet DEF CameraInv, CameraAssertionsHold
  <2>3. CASE s.camera # {}
    <3>1. s.camera = {mFQRtmp}
      BY <2>1, <2>3 DEF CameraInv
    <3>2. Cardinality(s.camera) = 1
      BY <3>1, FS_Singleton
    <3>3. QED
      BY <2>1, <2>3, <3>2 DEF CameraInv, CameraAssertionsHold
  <2>4. QED
    BY <2>2, <2>3
<1>2. QED
  BY <1>1, PusherInvariance, PTL

(* The video encoder is open exactly while its pusher previews. *)
THEOREM EncoderFollows == Spec => []VideoEncoderFollowsPreview
<1>1. PInv => VideoEncoderFollowsPreview
  BY DEF PInv, Inv, CameraInv, VideoEncoderFollowsPreview
<1>2. QED
  BY <1>1, PusherInvariance, PTL

(* A closed pusher has given everything back and a paused one records      *)
(* nothing, unless a pause overtook the start of its recording or it was   *)
(* resumed once closed; and nothing leaks but after such an overtaking.    *)
THEOREM CloseReleases == Spec => []CloseReleasesAll
<1>1. PInv => CloseReleasesAll
  <2> SUFFICES ASSUME PInv
               PROVE  CloseReleasesAll
    OBVIOUS
  <2>1. /\ Inv(s, mFQRtmp, created) /\ 1..created \subseteq Pushers
        /\ s.pausing \subseteq Pushers /\ 0 \notin Pushers
    <3>1. Inv(s, mFQRtmp, created) /\ created \in 0..MaxPushers
      BY DEF PInv
    <3>2. s \in State
      BY <3>1 DEF Inv
    <3>3. s.pausing \subseteq Pushers
      BY <3>2, Fields
    <3>4. 1..created \subseteq Pushers
      BY <3>1, Numbers DEF Pushers
    <3>5. QED
      BY <3>1, <3>3, <3>4, Numbers
  <2>2. ASSUME NEW k \in (1..created) \ (s.lib \cup s.overlap \cup s.reopened)
        PROVE  /\ k \notin {s.audio_enc, s.video_enc, s.rtmp_hdlr}
               /\ k \notin s.camera /\ s.record[k] = "null"
    <3>1. k \in Pushers /\ k # 0
      BY <2>1
    <3>2. k \in s.pausing /\ RecordInv(s, k)
      BY <2>1, <3>1 DEF Inv, PausedInv, RecordingInv
    <3>3. s.record[k] = "null" /\ s.audio_enc # k
      BY <2>2, <3>2 DEF RecordInv
    <3>4. k \notin s.camera /\ s.rtmp_hdlr # k
      BY <2>1, <3>1 DEF Inv, NativeInv
    <3>5. s.video_enc # k
      BY <2>1, <3>1 DEF Inv, CameraInv
    <3>6. QED
      BY <3>3, <3>4, <3>5
  <2>3. ASSUME NEW k \in s.pausing \ s.overlap
        PROVE  s.record[k] = "null"
    BY <2>1 DEF Inv, RecordingInv, RecordInv
  <2>4. s.leaked => s.overlap # {}
    BY <2>1 DEF Inv, HistoryInv
  <2>5. QED
    BY <2>2, <2>3, <2>4 DEF CloseReleasesAll
<1>2. QED
  BY <1>1, PusherInvariance, PTL

(* Only a pusher resumed once an error had closed it, or whose recording   *)
(* was starting when it was paused, uses a null recorder or LibFQRtmp;     *)
(* only one so resumed, or whose layout an empty url or the close of       *)
(* another took away, misses a view; and only one whose nativeNew never    *)
(* made a weak reference meets a deleted one.                              *)
THEOREM CrashesExplained == Spec => []CrashHasCause
<1>1. PInv => CrashHasCause
  BY DEF PInv, Inv, HistoryInv, CrashHasCause
<1>2. QED
  BY <1>1, PusherInvariance, PTL

(* A recorder that nobody hears comes from a second sample rate, or from   *)
(* an overtaken start.                                                     *)
THEOREM DeafExplained == Spec => []DeafOnlyAfterRetry
<1>1. PInv => DeafOnlyAfterRetry
  BY DEF PInv, Inv, RecordingInv, RecordInv, DeafOnlyAfterRetry
<1>2. QED
  BY <1>1, PusherInvariance, PTL
=============================================================================
