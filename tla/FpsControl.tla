------------------------------ MODULE FpsControl ------------------------------
(***************************************************************************)
(* FPSCtrl of jni/video_encoder.cpp, by which feed drops frames of a       *)
(* camera that is faster than the encoder's rate: of the frames fed, the   *)
(* n-th adopted one should be the get_frame-th.  get_frame is not set      *)
(* before the second frame, but stored in last_frame by the first.         *)
(*                                                                         *)
(* A frame is late when stamp_differ is above tgt_avg_time_per_frame.  The *)
(* one is in milliseconds and the other in units of 100 ns, so that this   *)
(* takes a pause of minutes, or a clock set back (stamp_differ wraps).     *)
(***************************************************************************)
EXTENDS Integers

CONSTANTS
    Rates,      \* the frame rates of cameras and encoders
    Scale,      \* a, 10000000 in the code
    Reach,      \* the 10 of init and feed
    INT_MAX,
    MaxFed,     \* bound on the frames fed
    MaxLate     \* bound on the late ones

ASSUME FpsAssumption ==
    /\ Rates \subseteq Nat \ {0}
    /\ \A r \in Rates : r <= Scale
    /\ {Scale, Reach, INT_MAX, MaxFed, MaxLate} \subseteq Nat
    /\ 2 <= Reach /\ Reach <= INT_MAX

VARIABLES
    tgt_fps, orig_fps,          \* the arguments of init
    last_frame, get_frame, n, first_timestamp, dropped_frames, adoped_frames,
    (* History, read by no action of the code: *)
    gap,        \* the frames dropped since one was adopted
    second,     \* the frames fed when the second was adopted
    late_frames

fpsVars == <<tgt_fps, orig_fps, last_frame, get_frame, n, first_timestamp,
             dropped_frames, adoped_frames, gap, second, late_frames>>

a == Scale
b(tgt, orig) == (Scale \div orig) * tgt

(* The place of the k-th adopted frame. *)
PlaceAt(tgt, orig, k) == (k * a + b(tgt, orig) \div 2) \div b(tgt, orig)
Place(k) == PlaceAt(tgt_fps, orig_fps, k)

Accepted(tgt, orig) == PlaceAt(tgt, orig, 1) < Reach

(* The places of the frames fed fit an int: the frames of two years do. *)
ASSUME PlacesFit ==
    \A tgt, orig \in Rates :
        Accepted(tgt, orig) => \A k \in 1..MaxFed + 1 : PlaceAt(tgt, orig, k) <= INT_MAX

Fed == dropped_frames + adoped_frames
-----------------------------------------------------------------------------
FpsInit ==
    /\ tgt_fps \in Rates /\ orig_fps \in Rates
    /\ Accepted(tgt_fps, orig_fps)
    /\ last_frame = -1
    /\ get_frame \in -INT_MAX - 1..INT_MAX      \* not initialized
    /\ n = 1
    /\ first_timestamp = TRUE
    /\ dropped_frames = 0 /\ adoped_frames = 0
    /\ gap = 0 /\ second = 0 /\ late_frames = 0

\* Mutant: the reach is not looked at.
NearAlways(get, last) == {TRUE}

(* What get - last < Reach may give: anything when the int overflows. *)
Near(get, last) ==
    IF get - last > INT_MAX THEN BOOLEAN ELSE {get - last < Reach}

\* Mutant: a frame at its place is dropped as well.
BeforeOrAt(get, last) == last < get

Before(get, last) == last < get - 1

Adopt(get) ==
    /\ get_frame' = get
    /\ last_frame' = get
    /\ n' = n + 1
    /\ adoped_frames' = adoped_frames + 1
    /\ gap' = 0
    /\ second' = IF adoped_frames = 1 THEN Fed + 1 ELSE second
    /\ UNCHANGED dropped_frames

Drop(get) ==
    /\ get_frame' = get
    /\ last_frame' = last_frame + 1
    /\ dropped_frames' = dropped_frames + 1
    /\ gap' = gap + 1
    /\ UNCHANGED <<n, adoped_frames, second>>

FeedFirst ==
    /\ first_timestamp
    /\ first_timestamp' = FALSE
    /\ Adopt(get_frame)
    /\ UNCHANGED <<tgt_fps, orig_fps, late_frames>>

FeedLate ==
    /\ ~first_timestamp /\ late_frames < MaxLate
    /\ late_frames' = late_frames + 1
    /\ Adopt(get_frame)
    /\ UNCHANGED <<tgt_fps, orig_fps, first_timestamp>>

Feed ==
    /\ ~first_timestamp
    /\ \E near \in Near(Place(n), last_frame) :
          IF Before(Place(n), last_frame) /\ near THEN Drop(Place(n)) ELSE Adopt(Place(n))
    /\ UNCHANGED <<tgt_fps, orig_fps, first_timestamp, late_frames>>

FpsNext == Fed < MaxFed /\ (FeedFirst \/ FeedLate \/ Feed)

FpsSpec == FpsInit /\ [][FpsNext]_fpsVars
-----------------------------------------------------------------------------
Distance(x, y) == IF x < y THEN y - x ELSE x - y
Higher(x, y) == IF x > y THEN x ELSE y

(* From the second adopted frame on the frames adopted are, to within one  *)
(* of either kind, the share of the frames fed that the rates ask for.     *)
InProportion ==
    adoped_frames >= 2 /\ late_frames = 0 /\ orig_fps >= tgt_fps =>
        Distance((Fed - second) * tgt_fps, (adoped_frames - 2) * orig_fps)
            <= orig_fps + tgt_fps

(* Two frames to be adopted are less than Reach frames apart. *)
StepsInReach == \A k \in 1..n : Place(k + 1) - Place(k) < Reach

(* The rate is kept, whatever get_frame held at first, when no step is out *)
(* of reach.                                                               *)
RateKept == StepsInReach => InProportion

(* No run of dropped frames starves the encoder, late frames or not.  Only *)
(* until a second frame is adopted in time may the value not initialized   *)
(* lengthen it, by an overflow, to the place of the frame awaited.         *)
DropsBounded ==
    gap <= IF adoped_frames - late_frames >= 2 THEN Reach - 2
           ELSE Higher(Reach - 2, Place(n) + 1)
=============================================================================
