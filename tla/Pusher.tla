-------------------------------- MODULE Pusher --------------------------------
(***************************************************************************)
(* The life of the pushers: MainActivity, FQRtmpPusher, CameraHolder and   *)
(* the native objects of jni/libfqrtmpjni.cpp.  Everything runs on the     *)
(* main thread, one handler after the other, but for startRecordingAudio,  *)
(* which onResume gives to MyApplication's pool and which is modelled step *)
(* by step.  The pool has one thread at a time: a ThreadPoolExecutor       *)
(* starts more than its core size, 0, only when its queue is full.         *)
(*                                                                         *)
(* The state is one record, and a method of the code an operator from the  *)
(* state before to the state after, so that a handler is the composition   *)
(* of the methods it calls.                                                *)
(*                                                                         *)
(* Not here: the callbacks of the recorder and of the camera's preview,    *)
(* which send to the encoders, autofocus, and what these dereference.      *)
(***************************************************************************)
EXTENDS Integers, Sequences, FiniteSets, SequencesExt

CONSTANTS
    MaxPushers,      \* bound on the pushers created
    MaxResumes,      \* bound on the times the activity is resumed
    MaxSwitches,     \* bound on the switches of the camera
    Samplerates      \* how many sample rates startRecordingAudio tries

ASSUME PusherAssumption == {MaxPushers, MaxResumes, MaxSwitches, Samplerates} \subseteq Nat

VARIABLES
    activity,        \* MainActivity: "resumed", "paused" or "destroyed"
    mFQRtmp,         \* its pusher, 0 for null
    created,         \* pushers 1 to created were constructed
    resumes, switches,
    s                \* the pushers, gfq, CameraHolder, looper and pool: see State

vars == <<activity, mFQRtmp, created, resumes, switches, s>>

Pushers == 1..MaxPushers
Message == [what : {"failed", "error"}, to : Pushers]

State == [
    \* fields of the pushers: where mLibFQRtmp and mCameraDevice are not null,
    \* and the flags
    lib : SUBSET Pushers, camera : SUBSET Pushers,
    pausing : SUBSET Pushers, previewing : SUBSET Pushers,
    start_fail : SUBSET Pushers,
    record : [Pushers -> {"null", "ready", "recording"}],   \* mAudioRecord
    hears : SUBSET Pushers,       \* where mAudioHandlerThread is alive
    \* gfq: who opened what it points to, 0 for NULL
    audio_enc : 0..MaxPushers, video_enc : 0..MaxPushers, rtmp_hdlr : 0..MaxPushers,
    weak_thiz : {"null", "live", "deleted"},
    \* CameraHolder
    users : 0..1,
    \* the main looper's messages, and the pool: its tasks and the running one
    looper : Seq(Message),
    pool : Seq(Pushers), task : 0..MaxPushers,
    step : {"idle", "create", "open", "listen"}, idx : 0..Samplerates,
    finishing : BOOLEAN,
    \* what ended the process, and in which pusher's code
    crash : {"none", "null", "no view", "assertion", "deleted ref"}, by : 0..MaxPushers,
    \* the pusher whose live layout the activity shows, 0 for one without
    \* the views of a pusher
    layout : 0..MaxPushers,
    \* history: an object was replaced before it was closed; pushers that
    \* started natively, were paused while a task of theirs was pending, tried
    \* a second sample rate, were resumed once closed, lost their layout to
    \* an empty url or to the close of another
    leaked : BOOLEAN,
    started : SUBSET Pushers, overlap : SUBSET Pushers, retried : SUBSET Pushers,
    reopened : SUBSET Pushers, stripped : SUBSET Pushers ]
-----------------------------------------------------------------------------
Post(t, what, k) == [t EXCEPT !.looper = Append(@, [what |-> what, to |-> k])]
Crash(t, how, k) == [t EXCEPT !.crash = how, !.by = k]
Leak(t, old) == [t EXCEPT !.leaked = @ \/ old]

(* closeAudioEncoder needs a recorder, and a LibFQRtmp. *)
StopRecordingAudio(t, k) ==
    [t EXCEPT !.record[k] = "null",
              !.hears = @ \ {k},
              !.audio_enc = IF t.record[k] # "null" /\ k \in t.lib THEN 0 ELSE @]

\* Mutant: closeVideoEncoder is not called.
EncoderKept(t, k) == [t EXCEPT !.previewing = @ \ {k}]

StopPreview(t, k) ==
    [t EXCEPT !.video_enc = IF k \in t.camera \cap t.previewing \cap t.lib THEN 0 ELSE @,
              !.previewing = @ \ {k}]

(* CameraHolder.release; keep() is never called, so releaseCamera releases *)
(* the device at once.                                                     *)
Release(t, k) == IF t.users = 1 THEN [t EXCEPT !.users = 0] ELSE Crash(t, "assertion", k)

\* Mutant: mCameraDevice is not set to null.
DeviceKept(t, k) ==
    IF k \notin t.camera THEN t ELSE [Release(t, k) EXCEPT !.previewing = @ \ {k}]

CloseCamera(t, k) ==
    IF k \notin t.camera THEN t
    ELSE [Release(t, k) EXCEPT !.camera = @ \ {k}, !.previewing = @ \ {k}]

Pending(t, k) == k \in ToSet(t.pool) \cup {t.task}

OnPause(t, k) ==
    LET paused == [t EXCEPT !.pausing = @ \cup {k},
                            !.overlap = IF Pending(t, k) THEN @ \cup {k} ELSE @]
    IN  CloseCamera(StopPreview(StopRecordingAudio(paused, k), k), k)

(* weak_thiz is deleted when it refers to something, and never cleared.    *)
(* The model ends where a deleted reference is used: anything can follow.  *)
NativeRelease(t, k) ==
    LET deleted == [t EXCEPT !.rtmp_hdlr = 0, !.weak_thiz = IF @ = "live" THEN "deleted" ELSE @]
    IN  IF t.weak_thiz = "deleted" THEN Crash(deleted, "deleted ref", k) ELSE deleted

(* setContentView(R.layout.info), whoever's layout it replaces.            *)
ShowInfo(t, k) ==
    [t EXCEPT !.layout = 0,
              !.stripped = IF t.layout \in {0, k} THEN @ ELSE @ \cup {t.layout}]

\* Mutant: onPause is not called by a close without a pause.
CloseUnpaused(t, k) ==
    LET paused == CloseCamera([t EXCEPT !.pausing = @ \cup {k}], k)
        closed == IF k \in paused.lib THEN [NativeRelease(paused, k) EXCEPT !.lib = @ \ {k}]
                  ELSE paused
    IN  ShowInfo(closed, k)

Close(t, k) ==
    LET paused == CloseCamera(IF k \in t.pausing THEN t ELSE OnPause(t, k), k)
        closed == IF k \in paused.lib THEN [NativeRelease(paused, k) EXCEPT !.lib = @ \ {k}]
                  ELSE paused
    IN  ShowInfo(closed, k)

(* CameraHolder.open, when there is a camera to be had. *)
EnsureCameraDevice(t, k) ==
    IF k \in t.camera THEN t
    ELSE IF t.users # 0 THEN Crash(t, "assertion", k)
    ELSE [t EXCEPT !.users = 1, !.camera = @ \cup {k}]

(* openVideoEncoder replaces gfq.video_enc, and clears it when init fails. *)
OpenVideoEncoder(t, k, ok) ==
    IF k \notin t.lib THEN Crash(t, "null", k)
    ELSE LET new == Leak(t, t.video_enc # 0)
         IN  IF ok THEN [new EXCEPT !.video_enc = k, !.previewing = @ \cup {k}]
             ELSE [Post(new, "error", k) EXCEPT !.video_enc = 0]

(* startPreview: "no camera" is a CameraHardwareException.  An exception   *)
(* that nobody catches, from a camera that does not start, ends the        *)
(* process and is left out; the NullPointerException of                    *)
(* updateCameraParametersPreference, for a frame_layout that is not in the *)
(* layout shown, is not.                                                   *)
Result == {"ok", "no camera", "no encoder"}
Returns(t, k) == k \in t.pausing \/ t.finishing
Throws(t, k, result) ==
    ~Returns(t, k) /\ k \notin t.camera /\ t.users = 0 /\ result = "no camera"
StartPreview(t, k, result) ==
    IF Returns(t, k) \/ Throws(t, k, result) THEN t
    ELSE LET open == EnsureCameraDevice(t, k)
             stopped == IF k \in open.previewing THEN StopPreview(open, k) ELSE open
         IN  IF stopped.crash # "none" THEN stopped
             ELSE IF stopped.layout = 0 THEN Crash(stopped, "no view", k)
             ELSE OpenVideoEncoder(stopped, k, result = "ok")

OnResume(t, k, result) ==
    LET resumed == [t EXCEPT !.pausing = @ \ {k},
                             !.pool = Append(@, k),
                             !.reopened = IF k \in t.lib THEN @ ELSE @ \cup {k}]
    IN  IF k \in t.previewing \cup t.start_fail THEN resumed
        ELSE StartPreview(resumed, k, result)

NativeNew(t, k, url) ==
    IF url = "unparsed" THEN t
    ELSE LET new == Leak(t, t.rtmp_hdlr # 0)
             run == [new EXCEPT !.weak_thiz = "live", !.rtmp_hdlr = k, !.started = @ \cup {k}]
         IN  IF url = "failed" THEN Post(run, "failed", k) ELSE run

(* process waits for both of its threads. *)
Url == {"empty", "unparsed", "connected", "failed"}
Process(t, k, url, result, again) ==
    IF url = "empty" THEN [t EXCEPT !.layout = 0, !.stripped = @ \cup {k}]
    ELSE LET started == NativeNew(t, k, url)
         IN  IF Throws(started, k, result)
             THEN Post([started EXCEPT !.start_fail = @ \cup {k}], "error", k)
             ELSE LET preview == StartPreview(started, k, result)
                  IN  IF preview.crash # "none" THEN preview
                      ELSE OnResume(preview, k, again)
-----------------------------------------------------------------------------
Init ==
    /\ activity = "resumed" /\ mFQRtmp = 0 /\ created = 0
    /\ resumes = 0 /\ switches = 0
    /\ s = [lib |-> {}, camera |-> {}, pausing |-> {}, previewing |-> {},
            start_fail |-> {}, record |-> [k \in Pushers |-> "null"],
            hears |-> {}, audio_enc |-> 0, video_enc |-> 0, rtmp_hdlr |-> 0,
            weak_thiz |-> "null", users |-> 0, looper |-> <<>>, pool |-> <<>>,
            task |-> 0, step |-> "idle", idx |-> 0, finishing |-> FALSE,
            crash |-> "none", by |-> 0, layout |-> 0, leaked |-> FALSE,
            started |-> {}, overlap |-> {}, retried |-> {}, reopened |-> {},
            stripped |-> {}]

ResetFQRtmp(t) == IF mFQRtmp = 0 THEN t ELSE Close(t, mFQRtmp)

HandleLive(url, result, again) ==
    /\ activity = "resumed"
    /\ created < MaxPushers
    /\ created' = created + 1
    /\ mFQRtmp' = created'
    /\ LET new == [ResetFQRtmp(s) EXCEPT !.lib = @ \cup {created'}, !.layout = created']
       IN  s' = IF new.crash # "none" THEN new
                ELSE Process(new, created', url, result, again)
    /\ UNCHANGED <<activity, resumes, switches>>

(* handleAbout, and handlePlay as far as the pusher is concerned. *)
HandleAbout ==
    /\ activity = "resumed" /\ mFQRtmp # 0
    /\ mFQRtmp' = 0
    /\ s' = ResetFQRtmp(s)
    /\ UNCHANGED <<activity, created, resumes, switches>>

ActivityPause ==
    /\ activity = "resumed"
    /\ activity' = "paused"
    /\ s' = IF mFQRtmp = 0 THEN s ELSE OnPause(s, mFQRtmp)
    /\ UNCHANGED <<mFQRtmp, created, resumes, switches>>

ActivityResume(result) ==
    /\ activity = "paused" /\ ~s.finishing
    /\ resumes < MaxResumes
    /\ resumes' = resumes + 1
    /\ activity' = "resumed"
    /\ s' = IF mFQRtmp = 0 THEN s ELSE OnResume(s, mFQRtmp, result)
    /\ UNCHANGED <<mFQRtmp, created, switches>>

(* The back key. *)
Finish ==
    /\ activity = "resumed" /\ ~s.finishing
    /\ s' = [s EXCEPT !.finishing = TRUE]
    /\ UNCHANGED <<activity, mFQRtmp, created, resumes, switches>>

ActivityDestroy ==
    /\ activity = "paused"
    /\ activity' = "destroyed"
    /\ mFQRtmp' = 0
    /\ s' = ResetFQRtmp(s)
    /\ UNCHANGED <<created, resumes, switches>>

(* switchCameraId, but when it finds the camera busy: a click on an icon   *)
(* of the live layout.                                                     *)
SwitchCameraId(k, result) ==
    /\ k = mFQRtmp /\ activity = "resumed" /\ s.layout # 0
    /\ k \notin s.pausing /\ k \in s.camera
    /\ switches < MaxSwitches
    /\ switches' = switches + 1
    /\ LET closed == CloseCamera(StopPreview(s, k), k)
       IN  s' = IF closed.crash # "none" THEN closed ELSE StartPreview(closed, k, result)
    /\ UNCHANGED <<activity, mFQRtmp, created, resumes>>

(* initializeFirstTime and setOrientationIndicator, which a message and a  *)
(* sensor bring about while a pusher previews, need that icon too.         *)
FindIcon(k) ==
    /\ k \in s.previewing \ s.pausing /\ s.layout = 0
    /\ s' = Crash(s, "no view", k)
    /\ UNCHANGED <<activity, mFQRtmp, created, resumes, switches>>

SurfaceDestroyed(k) ==
    /\ k \in s.previewing
    /\ s' = StopPreview(s, k)
    /\ UNCHANGED <<activity, mFQRtmp, created, resumes, switches>>

\* Mutant: onEvent sends no ERROR_OCCURRED.
ToastOnly ==
    /\ s.looper # <<>>
    /\ LET m == Head(s.looper)
           t == [s EXCEPT !.looper = Tail(@)]
       IN  s' = IF m.what = "failed" THEN t ELSE Close(t, m.to)
    /\ UNCHANGED <<activity, mFQRtmp, created, resumes, switches>>

(* onEvent, and the handler of the pusher. *)
HandleMessage ==
    /\ s.looper # <<>>
    /\ LET m == Head(s.looper)
           t == [s EXCEPT !.looper = Tail(@)]
       IN  s' = IF m.what = "failed" THEN Post(t, "error", m.to) ELSE Close(t, m.to)
    /\ UNCHANGED <<activity, mFQRtmp, created, resumes, switches>>

MainThread ==
    \/ \E url \in Url, result, again \in Result : HandleLive(url, result, again)
    \/ HandleAbout \/ ActivityPause \/ Finish \/ ActivityDestroy
    \/ \E result \in Result : ActivityResume(result)
    \/ \E k \in Pushers, result \in Result : SwitchCameraId(k, result)
    \/ \E k \in Pushers : FindIcon(k) \/ SurfaceDestroyed(k)
    \/ HandleMessage
-----------------------------------------------------------------------------
Return(t) == [t EXCEPT !.task = 0, !.step = "idle", !.idx = 0]
Background(t) == s' = t /\ UNCHANGED <<activity, mFQRtmp, created, resumes, switches>>

\* Mutant: the HandlerThread is not started.
NotStarted ==
    /\ s.step = "idle" /\ s.pool # <<>>
    /\ Background([s EXCEPT !.task = Head(s.pool), !.pool = Tail(@), !.step = "create"])

(* The pool's thread runs startRecordingAudio of the next task's pusher. *)
StartRecordingAudio ==
    /\ s.step = "idle" /\ s.pool # <<>>
    /\ Background([s EXCEPT !.task = Head(s.pool), !.pool = Tail(@), !.step = "create",
                            !.hears = @ \cup {Head(s.pool)}])

\* Mutant: a recorder that is not initialized is released, and then used.
NoContinue(result) ==
    /\ s.step = "create"
    /\ LET k == s.task
           new == [s EXCEPT !.idx = @ + 1, !.record[k] = "ready"]
       IN  Background(
               IF s.idx = Samplerates THEN Return(s)
               ELSE CASE result = "unsupported" -> [s EXCEPT !.idx = @ + 1]
                      [] result = "not initialized" -> [StopRecordingAudio(new, k) EXCEPT !.step = "open"]
                      [] result = "ready" -> [new EXCEPT !.step = "open"])

(* One turn of its loop over the sample rates, up to openAudioEncoder: the *)
(* rate may be unsupported, or the new AudioRecord not be initialized.     *)
CreateRecord(result) ==
    /\ s.step = "create"
    /\ LET k == s.task
           next == [s EXCEPT !.idx = @ + 1]
           new == [Leak(next, s.record[k] # "null") EXCEPT !.record[k] = "ready"]
       IN  Background(
               IF s.idx = Samplerates THEN Return(s)
               ELSE CASE result = "unsupported" -> next
                      [] result = "not initialized" ->
                            [StopRecordingAudio(new, k) EXCEPT !.retried = @ \cup {k}]
                      [] result = "ready" -> [new EXCEPT !.step = "open"])

OpenAudioEncoder(ok) ==
    /\ s.step = "open"
    /\ LET k == s.task
           new == Leak(s, s.audio_enc # 0)
       IN  Background(
               IF k \notin s.lib THEN Crash(s, "null", k)
               ELSE IF ok THEN [new EXCEPT !.audio_enc = k, !.step = "listen"]
               ELSE Return(Post([new EXCEPT !.audio_enc = 0], "error", k)))

StartRecording ==
    /\ s.step = "listen"
    /\ LET k == s.task
       IN  Background(
               IF s.record[k] = "null" THEN Crash(s, "null", k)
               ELSE Return([s EXCEPT !.record[k] = "recording"]))

PoolThread ==
    \/ StartRecordingAudio \/ StartRecording
    \/ \E result \in {"unsupported", "not initialized", "ready"} : CreateRecord(result)
    \/ \E ok \in BOOLEAN : OpenAudioEncoder(ok)

Next == s.crash = "none" /\ (MainThread \/ PoolThread)

Spec == Init /\ [][Next]_vars

(* The main looper runs what was posted to it; nothing else has to happen. *)
FairSpec == Spec /\ WF_vars(s.crash = "none" /\ HandleMessage)
-----------------------------------------------------------------------------
(* The assertions of CameraHolder hold, for every pusher that has the      *)
(* camera is its one user, whichever way the pushers come and go.          *)
CameraAssertionsHold == s.crash # "assertion" /\ s.users = Cardinality(s.camera)

(* The video encoder is open exactly while its pusher previews: a preview  *)
(* stopped by a pause, a close, a switch or a lost surface closes it, and  *)
(* no second one is opened over it.                                        *)
VideoEncoderFollowsPreview ==
    s.crash = "none" =>
        /\ \A k \in Pushers : k \in s.previewing <=> s.video_enc = k

(* A closed pusher has given everything back, and a paused one records and *)
(* leaks nothing, unless the start of its recording was overtaken by the   *)
(* pause, or it was resumed once closed.                                   *)
CloseReleasesAll ==
    /\ \A k \in (1..created) \ (s.lib \cup s.overlap \cup s.reopened) :
          /\ k \notin {s.audio_enc, s.video_enc, s.rtmp_hdlr}
          /\ k \notin s.camera /\ s.record[k] = "null"
    /\ \A k \in s.pausing \ s.overlap : s.record[k] = "null"
    /\ s.leaked => s.overlap # {}

(* In startPreview and startRecordingAudio a null recorder or LibFQRtmp is *)
(* used only by a pusher that was resumed after an error closed it, or     *)
(* whose recording was starting when it was paused; a view of the live     *)
(* layout is missed only by one resumed after its close, given an empty    *)
(* url, or whose predecessor's late error closed that and took the layout  *)
(* away; and nativeRelease meets a weak reference it deleted before only   *)
(* for one whose nativeNew never made its own.                             *)
CrashHasCause ==
    /\ s.crash = "null" => s.by \in s.overlap \cup s.reopened
    /\ s.crash = "no view" => s.by \in s.stripped \cup s.reopened
    /\ s.crash = "deleted ref" => s.by \notin s.started

(* A recorder whose callbacks go to a thread that has quit comes from a    *)
(* second sample rate, tried on a thread that the first one's failure has  *)
(* stopped, or from an overtaken start.                                    *)
DeafOnlyAfterRetry ==
    \A k \in Pushers : s.record[k] = "recording" /\ k \notin s.hears => k \in s.retried \cup s.overlap

(* An error, of the server, the camera or an encoder, closes the pusher. *)
ErrorCloses ==
    \A k \in Pushers :
        (\E m \in ToSet(s.looper) : m.to = k)
            ~> (k \notin s.lib \/ s.crash # "none")
=============================================================================
