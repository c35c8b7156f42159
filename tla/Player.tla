-------------------------------- MODULE Player --------------------------------
(***************************************************************************)
(* The playing side: FQRtmpPlayer, which MainActivity makes for each url   *)
(* and closes on pause, and PlayerService, a process of its own that holds *)
(* one VLCPlayer.  The activity's thread takes one message or user action  *)
(* at a time and calls the service synchronously; between two of its calls *)
(* libvlc may report an event and the service may die.                     *)
(*                                                                         *)
(* Binding is Android's: onServiceConnected comes some time after          *)
(* bindService, and again after each death of the service, until           *)
(* unbindService, after which neither it nor onServiceDisconnected comes.  *)
(* PlayerService.mState, which only a log line reads, is left out, and so  *)
(* are an incompatible CPU and the service's unused operations.            *)
(*                                                                         *)
(* An exception of the service other than RemoteException comes back to    *)
(* the activity, which catches none: its process ends, and the model with  *)
(* it, at the call that threw (todo keeps it).                             *)
(***************************************************************************)
EXTENDS Integers, Sequences, SequencesExt

CONSTANTS
    MaxClients,   \* bound on the FQRtmpPlayers made
    MaxDeaths     \* bound on the times the service dies by itself

ASSUME PlayerAssumption == MaxClients \in Nat /\ MaxDeaths \in Nat

Client == 1..MaxClients
NULL == 0

(* The messages to the activity's thread, from Android and the service. *)
Messages == [op : {"connected", "disconnected", "prepared"}, c : Client]

(* Those of the sequence s that are in S. *)
Kept(s, S) ==
    LET kept[i \in 0..Len(s)] ==
            IF i = 0 THEN <<>>
            ELSE IF s[i] \in S THEN Append(kept[i - 1], s[i]) ELSE kept[i - 1]
    IN  kept[Len(s)]

VARIABLES
    mFQRtmp, resumed,    \* MainActivity: its FQRtmpPlayer
    made,                \* the number of FQRtmpPlayers made
    noScheme,            \* those whose url has no scheme
    mPlaybackStarted,    \* of each FQRtmpPlayer
    binding,             \* each one's ServiceConnection: none, bound or connected
    dead,                \* those whose mPlayer is of a service that died
    todo,                \* what the activity's thread still does of its message
    queue,               \* the messages to the activity's thread
    mPlayer, mClientCb,  \* PlayerService: whose data source its VLCPlayer has,
                         \* and whose callback it calls
    created, mPrepared,  \* PlayerService has a VLCPlayer, which was prepared
    event,               \* the callback an event found, to be called next
    deaths,
    crash,   \* what ended the activity's process, if anything did
    (* History, read by no action of the code: *)
    open,    \* the FQRtmpPlayers given a url and not closed since
    lost     \* those whose latest close came before onServiceConnected

activity == <<mFQRtmp, resumed, made, noScheme>>
service == <<mPlayer, mClientCb, created, mPrepared>>
vars == <<mFQRtmp, resumed, made, noScheme, mPlaybackStarted, binding, dead, todo, queue,
          mPlayer, mClientCb, created, mPrepared, event, deaths, crash, open, lost>>
-----------------------------------------------------------------------------
Init ==
    /\ mFQRtmp = NULL /\ resumed = TRUE /\ made = 0 /\ noScheme = {}
    /\ mPlaybackStarted = [c \in Client |-> FALSE]
    /\ binding = [c \in Client |-> "none"]
    /\ dead = {}
    /\ todo = <<>> /\ queue = <<>>
    /\ mPlayer = NULL /\ mClientCb = NULL /\ created = FALSE /\ mPrepared = FALSE
    /\ event = NULL
    /\ deaths = 0 /\ crash = "none"
    /\ open = {} /\ lost = {}

Steps(ops, c) == [i \in DOMAIN ops |-> [op |-> ops[i], c |-> c]]

(* What close does: nothing before onServiceConnected. *)
CloseSteps(c) ==
    IF c # NULL /\ mPlaybackStarted[c]
    THEN Steps(<<"stop", "release", "unbind">>, c) ELSE <<>>

Closed(c) ==
    /\ open' = open \ {c}
    /\ lost' = IF c = NULL \/ binding[c] = "none" THEN lost
               ELSE IF mPlaybackStarted[c] THEN lost \ {c} ELSE lost \cup {c}

(* MainActivity.onPause and onResume. *)
OnPause ==
    /\ todo = <<>> /\ resumed
    /\ resumed' = FALSE
    /\ todo' = CloseSteps(mFQRtmp)
    /\ Closed(mFQRtmp)
    /\ UNCHANGED <<mFQRtmp, made, noScheme, mPlaybackStarted, binding, dead, queue, service,
                   event, deaths, crash>>

OnResume ==
    /\ todo = <<>> /\ ~resumed
    /\ resumed' = TRUE
    /\ UNCHANGED <<mFQRtmp, made, noScheme, mPlaybackStarted, binding, dead, todo, queue,
                   service, event, deaths, crash, open, lost>>

(* handleAbout, handleLive: resetFQRtmp. *)
ResetFQRtmp ==
    /\ todo = <<>> /\ resumed /\ mFQRtmp # NULL
    /\ mFQRtmp' = NULL
    /\ todo' = CloseSteps(mFQRtmp)
    /\ Closed(mFQRtmp)
    /\ UNCHANGED <<resumed, made, noScheme, mPlaybackStarted, binding, dead, queue, service,
                   event, deaths, crash>>

(* What setDataSource tells apart: without a scheme is no absolute path    *)
(* either.                                                                 *)
Urls == {"empty", "no scheme", "scheme"}

(* handlePlay: the previous FQRtmpPlayer is closed, and a new one given a  *)
(* url.                                                                    *)
HandlePlay(url) ==
    /\ todo = <<>> /\ resumed /\ made < MaxClients
    /\ made' = made + 1
    /\ mFQRtmp' = made + 1
    /\ Closed(mFQRtmp)
    /\ todo' = CloseSteps(mFQRtmp)
                \o IF url = "empty" THEN <<>> ELSE Steps(<<"process">>, made + 1)
    /\ noScheme' = IF url = "no scheme" THEN noScheme \cup {made + 1} ELSE noScheme
    /\ UNCHANGED <<resumed, mPlaybackStarted, binding, dead, queue, service, event, deaths,
                   crash>>

\* Mutant: no second bindService while one connection is up.
ProcessBoundOnce ==
    /\ todo # <<>> /\ Head(todo).op = "process"
    /\ binding' = IF \E c \in Client : binding[c] # "none" THEN binding
                  ELSE [binding EXCEPT ![Head(todo).c] = "bound"]
    /\ open' = open \cup {Head(todo).c}
    /\ todo' = Tail(todo)
    /\ UNCHANGED <<activity, mPlaybackStarted, dead, queue, service, event, deaths, crash,
                   lost>>

(* process binds to the service. *)
Process ==
    /\ todo # <<>> /\ Head(todo).op = "process"
    /\ binding' = [binding EXCEPT ![Head(todo).c] = "bound"]
    /\ open' = open \cup {Head(todo).c}
    /\ todo' = Tail(todo)
    /\ UNCHANGED <<activity, mPlaybackStarted, dead, queue, service, event, deaths, crash,
                   lost>>
-----------------------------------------------------------------------------
(* Android connects what is bound, starting the service if need be. *)
Connect(c) ==
    /\ binding[c] = "bound"
    /\ ~Contains(queue, [op |-> "connected", c |-> c])
    /\ queue' = Append(queue, [op |-> "connected", c |-> c])
    /\ UNCHANGED <<activity, mPlaybackStarted, binding, dead, todo, service, event, deaths,
                   crash, open, lost>>

(* onServiceConnected. *)
OnServiceConnected ==
    /\ todo = <<>> /\ queue # <<>> /\ Head(queue).op = "connected"
    /\ LET c == Head(queue).c
       IN  /\ binding' = [binding EXCEPT ![c] = "connected"]
           /\ dead' = dead \ {c}
           /\ todo' = Steps(<<"create", "register", "setDataSource", "setDisplay", "prepare",
                              "start", "started">>, c)
    /\ queue' = Tail(queue)
    /\ UNCHANGED <<activity, mPlaybackStarted, service, event, deaths, crash, open, lost>>

(* onServiceDisconnected binds again. *)
OnServiceDisconnected ==
    /\ todo = <<>> /\ queue # <<>> /\ Head(queue).op = "disconnected"
    /\ binding' = [binding EXCEPT ![Head(queue).c] = "bound"]
    /\ queue' = Tail(queue)
    /\ UNCHANGED <<activity, mPlaybackStarted, dead, todo, service, event, deaths, crash,
                   open, lost>>

(* ON_PREPARED: mPlayer.start(). *)
OnPrepared ==
    /\ todo = <<>> /\ queue # <<>> /\ Head(queue).op = "prepared"
    /\ todo' = Steps(<<"start">>, Head(queue).c)
    /\ queue' = Tail(queue)
    /\ UNCHANGED <<activity, mPlaybackStarted, binding, dead, service, event, deaths, crash,
                   open, lost>>

(* A call to the service, which throws a RemoteException if it died.  The  *)
(* calls left in its try block are skipped, one by one: they cannot        *)
(* succeed either, as a service stays dead while todo lasts.               *)
Calling(op) == todo # <<>> /\ Head(todo).op = op /\ Head(todo).c \notin dead

CallFails ==
    /\ todo # <<>> /\ Head(todo).c \in dead
    /\ Head(todo).op \notin {"started", "unbind", "process"}
    /\ todo' = Tail(todo)
    /\ UNCHANGED <<activity, mPlaybackStarted, binding, dead, queue, service, event, deaths,
                   crash, open, lost>>

(* create, which keeps a VLCPlayer that was not released. *)
Create ==
    /\ Calling("create")
    /\ created' = TRUE
    /\ IF created THEN UNCHANGED <<mPlayer, mPrepared>>
       ELSE mPlayer' = NULL /\ mPrepared' = FALSE
    /\ todo' = Tail(todo)
    /\ UNCHANGED <<activity, mPlaybackStarted, binding, dead, queue, mClientCb, event,
                   deaths, crash, open, lost>>

RegisterClientCallback ==
    /\ Calling("register")
    /\ mClientCb' = Head(todo).c
    /\ todo' = Tail(todo)
    /\ UNCHANGED <<activity, mPlaybackStarted, binding, dead, queue, mPlayer, created,
                   mPrepared, event, deaths, crash, open, lost>>

(* setDataSource bails out of a url without scheme, and keeps what it had. *)
SetDataSource ==
    /\ Calling("setDataSource")
    /\ mPlayer' = IF created /\ Head(todo).c \notin noScheme THEN Head(todo).c ELSE mPlayer
    /\ todo' = Tail(todo)
    /\ UNCHANGED <<activity, mPlaybackStarted, binding, dead, queue, mClientCb, created,
                   mPrepared, event, deaths, crash, open, lost>>

(* What a call that may throw leaves to do, and why the activity crashes.  *)
Throws(why) == crash' = why /\ UNCHANGED todo
Returns == todo' = Tail(todo) /\ UNCHANGED crash

(* setDisplay throws for a surface that is not valid, not being created    *)
(* yet, or destroyed, when onServiceConnected comes.                       *)
SetDisplay(valid) ==
    /\ Calling("setDisplay")
    /\ IF created /\ ~valid THEN Throws("no surface") ELSE Returns
    /\ UNCHANGED <<activity, mPlaybackStarted, binding, dead, queue, service, event, deaths,
                   open, lost>>

(* prepare makes a Media, which throws if there is no uri. *)
Prepare ==
    /\ Calling("prepare")
    /\ IF created /\ mPlayer = NULL THEN Throws("no source") ELSE Returns
    /\ UNCHANGED <<activity, mPlaybackStarted, binding, dead, queue, service, event, deaths,
                   open, lost>>

(* start and stop change nothing but what libvlc does. *)
Play ==
    /\ \E op \in {"start", "stop"} : Calling(op)
    /\ todo' = Tail(todo)
    /\ UNCHANGED <<activity, mPlaybackStarted, binding, dead, queue, service, event, deaths,
                   crash, open, lost>>

\* Mutant: release keeps the released player.
ReleaseKept ==
    /\ Calling("release")
    /\ mClientCb' = NULL
    /\ todo' = Tail(todo)
    /\ UNCHANGED <<activity, mPlaybackStarted, binding, dead, queue, mPlayer, created,
                   mPrepared, event, deaths, crash, open, lost>>

Release ==
    /\ Calling("release")
    /\ IF created THEN mPlayer' = NULL /\ mClientCb' = NULL ELSE UNCHANGED <<mPlayer, mClientCb>>
    /\ created' = FALSE
    /\ todo' = Tail(todo)
    /\ UNCHANGED <<activity, mPlaybackStarted, binding, dead, queue, mPrepared, event,
                   deaths, crash, open, lost>>

(* The end of onServiceConnected, reached after a RemoteException but after *)
(* no other.                                                                *)
Started ==
    /\ todo # <<>> /\ Head(todo).op = "started"
    /\ mPlaybackStarted' = [mPlaybackStarted EXCEPT ![Head(todo).c] = TRUE]
    /\ todo' = Tail(todo)
    /\ UNCHANGED <<activity, binding, dead, queue, service, event, deaths, crash, open,
                   lost>>

\* Mutant: a dead service is not unbound.
UnbindLive ==
    /\ todo # <<>> /\ Head(todo).op = "unbind"
    /\ LET c == Head(todo).c
       IN  /\ binding' = IF c \in dead THEN binding ELSE [binding EXCEPT ![c] = "none"]
           /\ queue' = Kept(queue, {m \in Messages : m.c # c \/ m.op = "prepared"})
           /\ mPlaybackStarted' = [mPlaybackStarted EXCEPT ![c] = FALSE]
    /\ todo' = Tail(todo)
    /\ UNCHANGED <<activity, dead, service, event, deaths, crash, open, lost>>

(* The end of close. *)
Unbind ==
    /\ todo # <<>> /\ Head(todo).op = "unbind"
    /\ LET c == Head(todo).c
       IN  /\ binding' = [binding EXCEPT ![c] = "none"]
           /\ queue' = Kept(queue, {m \in Messages : m.c # c \/ m.op = "prepared"})
           /\ mPlaybackStarted' = [mPlaybackStarted EXCEPT ![c] = FALSE]
    /\ todo' = Tail(todo)
    /\ UNCHANGED <<activity, dead, service, event, deaths, crash, open, lost>>
-----------------------------------------------------------------------------
(* The service is gone, and with it its player. *)
Die ==
    /\ mPlayer' = NULL /\ mClientCb' = NULL /\ created' = FALSE /\ mPrepared' = FALSE
    /\ event' = NULL
    /\ LET connected == {c \in Client : binding[c] = "connected"}
           told == Kept([c \in Client |-> [op |-> "disconnected", c |-> c]],
                        {m \in Messages : m.c \in connected \ dead})
       IN  /\ dead' = dead \cup connected
           /\ queue' = Kept(queue, {m \in Messages : m.op # "connected"}) \o told
    /\ UNCHANGED <<activity, mPlaybackStarted, binding, todo, open, lost>>

ServiceDies == deaths < MaxDeaths /\ deaths' = deaths + 1 /\ Die /\ UNCHANGED crash

(* An event of a VLCPlayer with media: the service finds a callback. *)
VlcEvent ==
    /\ event = NULL /\ created /\ mPlayer # NULL /\ mClientCb # NULL
    /\ event' = mClientCb
    /\ UNCHANGED <<activity, mPlaybackStarted, binding, dead, todo, queue, service, deaths,
                   crash, open, lost>>

(* It calls it: the first full buffer is onPrepared.  A callback that      *)
(* release removed meanwhile is a null pointer, and the service dies.      *)
CallBack(full) ==
    /\ event # NULL
    /\ IF mClientCb = NULL
       THEN Die
       ELSE /\ event' = NULL
            /\ mPrepared' = (mPrepared \/ full)
            /\ queue' = IF full /\ ~mPrepared
                        THEN Append(queue, [op |-> "prepared", c |-> mClientCb]) ELSE queue
            /\ UNCHANGED <<activity, mPlaybackStarted, binding, dead, todo, mPlayer,
                           mClientCb, created, open, lost>>
    /\ UNCHANGED <<deaths, crash>>

Call == CallFails \/ Create \/ RegisterClientCallback \/ SetDataSource
        \/ (\E valid \in BOOLEAN : SetDisplay(valid)) \/ Prepare \/ Play \/ Release
        \/ Started \/ Unbind \/ Process
Message == OnServiceConnected \/ OnServiceDisconnected \/ OnPrepared

Next ==
    /\ crash = "none"
    /\ \/ OnPause \/ OnResume \/ ResetFQRtmp
       \/ \E url \in Urls : HandlePlay(url)
       \/ Call \/ Message
       \/ \E c \in Client : Connect(c)
       \/ ServiceDies \/ VlcEvent
       \/ \E full \in BOOLEAN : CallBack(full)

(* The activity's thread runs, and Android connects what is bound. *)
Fairness ==
    /\ WF_vars(crash = "none" /\ (Call \/ Message))
    /\ \A c \in Client : WF_vars(crash = "none" /\ Connect(c))

Spec == Init /\ [][Next]_vars /\ Fairness
-----------------------------------------------------------------------------
(* Whenever the activity's thread is done with a message, a VLCPlayer the  *)
(* service holds plays the url of the activity's own FQRtmpPlayer, which   *)
(* is not closed, and calls it back, in spite of late events, deaths of    *)
(* the service and changes of url; unless some close was lost, by coming   *)
(* before onServiceConnected.                                              *)
PlaysForTheOpenOne ==
    todo = <<>> /\ created =>
        lost # {} \/ (mPlayer \in open /\ mClientCb = mPlayer /\ mFQRtmp = mPlayer)

(* A closed FQRtmpPlayer is not bound to the service any more, even if the *)
(* service died at its close, unless that close was lost.                  *)
ClosedIsUnbound ==
    todo = <<>> => \A c \in Client : binding[c] # "none" => c \in open \cup lost

(* Whatever is played is started or closed in the end, however often the   *)
(* service dies on the way, unless the activity's process ends: only for a *)
(* surface that was not valid when onServiceConnected came, or for having  *)
(* connected an FQRtmpPlayer whose url has no scheme.                      *)
OpenIsStarted ==
    \A c \in Client :
       c \in open ~> (\/ mPlaybackStarted[c] \/ c \notin open
                     \/ crash = "no surface"
                     \/ (crash = "no source" /\ Head(todo).c \in noScheme))
=============================================================================
