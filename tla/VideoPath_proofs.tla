---------------------------- MODULE VideoPath_proofs ----------------------------
(***************************************************************************)
(* Proofs about the stages of the path of a camera's frame: FpsControl,    *)
(* MemPool, RacingSends and VideoParser, which share no variable, and      *)
(* which MCVideoPath checks in one run.                                    *)
(*                                                                         *)
(* First, feed never drops many frames in a row, and adopts the share of   *)
(* them that the rates ask for, for all rates and whatever get_frame held  *)
(* before it was set.                                                      *)
(***************************************************************************)
EXTENDS FpsControl, MemPool, RacingSends, VideoParser,
        SequenceTheorems, FiniteSetTheorems, WellFoundedInduction, TLAPS

TypeOK ==
    /\ tgt_fps \in Rates /\ orig_fps \in Rates /\ Accepted(tgt_fps, orig_fps)
    /\ last_frame \in -INT_MAX - 1..INT_MAX
    /\ get_frame \in -INT_MAX - 1..INT_MAX
    /\ n = adoped_frames + 1
    /\ first_timestamp \in BOOLEAN
    /\ dropped_frames \in Nat /\ adoped_frames \in Nat /\ late_frames \in Nat
    /\ gap \in Nat
    /\ Fed <= MaxFed
    /\ first_timestamp => adoped_frames = 0 /\ late_frames = 0
    /\ ~first_timestamp => adoped_frames > late_frames

(* A second frame was adopted in time: get_frame was computed. *)
Settled == adoped_frames - late_frames >= 2

SettledSet == Settled => last_frame >= 0 /\ get_frame >= 0

(* The run of drops began in reach of the place of the frame awaited, or,  *)
(* before that, where the difference to it overflows.                      *)
InReach ==
    /\ last_frame < Place(n)
    /\ gap <= last_frame - Place(n) + Reach - 1

Overflowing ==
    /\ ~Settled
    /\ gap <= last_frame + INT_MAX + 1
    /\ last_frame <= Place(n) - INT_MAX

IInv == TypeOK /\ SettledSet /\ (gap = 0 \/ InReach \/ Overflowing)

(* FpsAssumption, one constant at a time. *)
LEMMA Constants ==
    /\ Scale \in Nat /\ Reach \in Nat /\ INT_MAX \in Nat /\ MaxFed \in Nat /\ MaxLate \in Nat
    /\ 2 <= Reach /\ Reach <= INT_MAX
BY FpsAssumption

(* A place is a natural number that fits an int. *)
LEMMA PlaceType ==
    ASSUME NEW tgt \in Rates, NEW orig \in Rates, Accepted(tgt, orig),
           NEW k \in 1..MaxFed + 1
    PROVE  PlaceAt(tgt, orig, k) \in 0..INT_MAX
<1>1. Scale \div orig \in Nat /\ Scale \div orig >= 1
    BY FpsAssumption
<1>2. b(tgt, orig) \in Nat /\ b(tgt, orig) >= 1
    <2> DEFINE q == Scale \div orig
    <2>1. q \in Nat /\ q >= 1 BY <1>1
    <2>2. tgt \in Nat /\ tgt >= 1 BY FpsAssumption
    <2> HIDE DEF q
    <2>3. q * tgt \in Nat /\ q * tgt >= 1 BY <2>1, <2>2
    <2> QED BY <2>3 DEF b, q
<1>3. k * a + b(tgt, orig) \div 2 \in Nat
    <2>1. k * a \in Nat BY FpsAssumption DEF a
    <2>2. b(tgt, orig) \div 2 \in Nat BY <1>2
    <2> QED BY <2>1, <2>2
<1>4. PlaceAt(tgt, orig, k) \in Nat
    <2> DEFINE x == k * a + b(tgt, orig) \div 2
               y == b(tgt, orig)
    <2>1. x \in Nat /\ y \in Nat /\ y >= 1 BY <1>2, <1>3
    <2> HIDE DEF x, y
    <2>2. x \div y \in Nat BY <2>1
    <2> QED BY <2>2 DEF x, y, PlaceAt
<1>5. PlaceAt(tgt, orig, k) <= INT_MAX BY PlacesFit
<1> QED BY <1>4, <1>5, FpsAssumption

(* The initial states satisfy the invariant. *)
LEMMA InitIInv == FpsInit => IInv
BY FpsAssumption DEF FpsInit, IInv, TypeOK, SettledSet, Settled, Fed

(* Adopting a frame ends a run of drops and sets last_frame. *)
LEMMA AdoptPreserves ==
    ASSUME IInv, NEW get \in -INT_MAX - 1..INT_MAX, Adopt(get), Fed < MaxFed,
           UNCHANGED <<tgt_fps, orig_fps>>,
           late_frames' \in Nat, first_timestamp' = FALSE,
           adoped_frames + 1 > late_frames',
           adoped_frames' - late_frames' >= 2 => get >= 0
    PROVE  IInv'
<1>1. TypeOK'
    <2>1. Accepted(tgt_fps, orig_fps)' BY DEF IInv, TypeOK
    <2>2. /\ adoped_frames' = adoped_frames + 1 /\ dropped_frames' = dropped_frames
          /\ n' = n + 1 /\ gap' = 0 /\ get_frame' = get /\ last_frame' = get
          /\ adoped_frames \in Nat /\ dropped_frames \in Nat /\ n = adoped_frames + 1
          /\ dropped_frames + adoped_frames < MaxFed
        BY DEF IInv, TypeOK, Adopt, Fed
    <2>3. tgt_fps' \in Rates /\ orig_fps' \in Rates
        BY DEF IInv, TypeOK
    <2>4. /\ last_frame' \in -INT_MAX - 1..INT_MAX /\ get_frame' \in -INT_MAX - 1..INT_MAX
          /\ n' = adoped_frames' + 1 /\ dropped_frames' \in Nat /\ adoped_frames' \in Nat
          /\ gap' \in Nat /\ dropped_frames' + adoped_frames' <= MaxFed
          /\ adoped_frames' > late_frames'
        BY <2>2, Constants
    <2>5. first_timestamp' \in BOOLEAN /\ ~first_timestamp' BY Zenon
    <2> QED BY <2>1, <2>3, <2>4, <2>5, Zenon DEF TypeOK, Fed
<1>2. SettledSet'
    <2>1. adoped_frames' = adoped_frames + 1 /\ last_frame' = get /\ get_frame' = get
        BY DEF Adopt
    <2>2. adoped_frames' - late_frames' >= 2 => last_frame' >= 0 /\ get_frame' >= 0
        BY <2>1, Zenon
    <2> QED BY <2>2, Zenon DEF SettledSet, Settled
<1>3. gap' = 0 BY DEF Adopt
<1> QED BY <1>1, <1>2, <1>3 DEF IInv

(* Every step preserves the invariant. *)
LEMMA NextIInv == IInv /\ [FpsNext]_fpsVars => IInv'
<1> SUFFICES ASSUME IInv, [FpsNext]_fpsVars PROVE IInv'
    OBVIOUS
<1> USE FpsAssumption
<1>1. CASE Fed < MaxFed /\ FeedFirst
    <2>1. UNCHANGED <<tgt_fps, orig_fps>> /\ Adopt(get_frame) /\ late_frames' = late_frames
          /\ first_timestamp' = FALSE
        BY <1>1 DEF FeedFirst
    <2>2. adoped_frames = 0 /\ late_frames = 0 /\ get_frame \in -INT_MAX - 1..INT_MAX
        BY <1>1 DEF FeedFirst, IInv, TypeOK
    <2>3. /\ late_frames' \in Nat /\ adoped_frames + 1 > late_frames'
          /\ adoped_frames' - late_frames' >= 2 => get_frame >= 0
        BY <2>1, <2>2 DEF Adopt
    <2> QED BY ONLY <1>1, <2>1, <2>2, <2>3, IInv, AdoptPreserves
<1>2. CASE Fed < MaxFed /\ FeedLate
    <2>1. /\ UNCHANGED <<tgt_fps, orig_fps>> /\ Adopt(get_frame)
          /\ late_frames' = late_frames + 1 /\ first_timestamp' = FALSE
        BY <1>2 DEF FeedLate, IInv, TypeOK
    <2>2. /\ adoped_frames \in Nat /\ late_frames \in Nat /\ adoped_frames > late_frames
          /\ get_frame \in -INT_MAX - 1..INT_MAX
          /\ adoped_frames - late_frames >= 2 => get_frame >= 0
        BY <1>2 DEF FeedLate, IInv, TypeOK, SettledSet, Settled
    <2>3. /\ late_frames' \in Nat /\ adoped_frames + 1 > late_frames'
          /\ adoped_frames' - late_frames' >= 2 => get_frame >= 0
        BY <2>1, <2>2 DEF Adopt
    <2> QED BY ONLY <1>2, <2>1, <2>2, <2>3, IInv, AdoptPreserves
<1>3. CASE Fed < MaxFed /\ Feed
    <2> DEFINE p == Place(n)
    <2>0. p \in 0..INT_MAX
        <3>1. n \in 1..MaxFed + 1 BY <1>3 DEF IInv, TypeOK, Fed
        <3> QED BY <3>1, PlaceType DEF IInv, TypeOK, Place
    <2>1. /\ ~first_timestamp /\ first_timestamp' = FALSE
          /\ UNCHANGED <<tgt_fps, orig_fps, late_frames>>
        BY <1>3 DEF Feed, IInv, TypeOK
    <2>2. CASE Adopt(p)
        <3>1. /\ adoped_frames \in Nat /\ late_frames \in Nat /\ adoped_frames > late_frames
            BY <2>1 DEF IInv, TypeOK
        <3>2. /\ late_frames' \in Nat /\ adoped_frames + 1 > late_frames'
              /\ adoped_frames' - late_frames' >= 2 => p >= 0
            BY <2>0, <2>1, <3>1
        <3>3. p \in -INT_MAX - 1..INT_MAX BY <2>0
        <3> HIDE DEF p
        <3> QED BY ONLY <1>3, <2>1, <2>2, <3>2, <3>3, IInv, AdoptPreserves
    <2>3. CASE Drop(p) /\ Before(p, last_frame) /\ TRUE \in Near(p, last_frame)
        <3>1. Place(n)' = p
            BY <2>1, <2>3 DEF Drop, Place, PlaceAt, a, b
        <3>2. /\ last_frame' = last_frame + 1 /\ gap' = gap + 1 /\ get_frame' = p
              /\ UNCHANGED <<n, adoped_frames>> /\ dropped_frames' = dropped_frames + 1
              /\ last_frame < p - 1
            BY <2>3 DEF Drop, Before
        <3> HIDE DEF p
        <3>3. TypeOK'
            <4>1. Accepted(tgt_fps, orig_fps)' BY <2>1 DEF IInv, TypeOK
            <4>2. tgt_fps' \in Rates /\ orig_fps' \in Rates
                BY <2>1 DEF IInv, TypeOK
            <4>3. /\ adoped_frames \in Nat /\ dropped_frames \in Nat /\ gap \in Nat
                  /\ n = adoped_frames + 1 /\ late_frames \in Nat
                  /\ dropped_frames + adoped_frames < MaxFed
                  /\ last_frame \in -INT_MAX - 1..INT_MAX
                  /\ adoped_frames > late_frames
                BY <1>3, <2>1 DEF IInv, TypeOK, Fed
            <4>4. /\ last_frame' \in -INT_MAX - 1..INT_MAX /\ get_frame' \in -INT_MAX - 1..INT_MAX
                  /\ n' = adoped_frames' + 1 /\ dropped_frames' \in Nat /\ adoped_frames' \in Nat
                  /\ gap' \in Nat /\ dropped_frames' + adoped_frames' <= MaxFed
                  /\ adoped_frames' > late_frames' /\ late_frames' \in Nat
                BY <2>0, <2>1, <3>2, <4>3, Constants
            <4>5. first_timestamp' \in BOOLEAN /\ ~first_timestamp' BY <2>1, Zenon
            <4> QED BY <4>1, <4>2, <4>4, <4>5, Zenon DEF TypeOK, Fed
        <3>4. SettledSet'
            BY <2>0, <2>1, <3>2 DEF IInv, TypeOK, SettledSet, Settled
        <3>5. Settled' = Settled
            BY <2>1, <3>2 DEF Settled
        <3>6. gap \in Nat /\ last_frame \in -INT_MAX - 1..INT_MAX
            BY DEF IInv, TypeOK
        <3>7. CASE p - last_frame > INT_MAX
            <4>1. ~Settled BY <2>0, <3>6, <3>7 DEF IInv, SettledSet
            <4>2. gap <= last_frame + INT_MAX + 1
                BY <2>0, <3>6, <3>7 DEF IInv, InReach, Overflowing, p
            <4>3. Overflowing'
                BY <2>0, <3>1, <3>2, <3>5, <3>6, <3>7, <4>1, <4>2 DEF Overflowing
            <4> QED BY <3>3, <3>4, <4>3 DEF IInv
        <3>8. CASE ~(p - last_frame > INT_MAX)
            <4>1. p - last_frame < Reach BY <2>3, <3>8 DEF Near
            <4>2. gap <= last_frame - p + Reach - 1
                BY <2>0, <3>6, <4>1 DEF IInv, InReach, Overflowing, p
            <4>3. InReach'
                BY <2>0, <3>1, <3>2, <3>6, <4>2 DEF InReach
            <4> QED BY <3>3, <3>4, <4>3 DEF IInv
        <3> QED BY <3>7, <3>8
    <2>4. \/ Adopt(p)
          \/ Drop(p) /\ Before(p, last_frame) /\ TRUE \in Near(p, last_frame)
        <3>1. PICK near \in Near(p, last_frame) :
                 IF Before(p, last_frame) /\ near THEN Drop(p) ELSE Adopt(p)
            BY <1>3 DEF Feed
        <3>2. CASE near
            <4>1. near = TRUE
                <5>1. near \in BOOLEAN
                    <6>1. CASE p - last_frame > INT_MAX BY <3>1, <6>1, Zenon DEF Near
                    <6>2. CASE ~(p - last_frame > INT_MAX)
                        <7>1. near = (p - last_frame < Reach) BY <3>1, <6>2, Zenon DEF Near
                        <7>2. (p - last_frame < Reach) \in BOOLEAN
                            BY <2>0 DEF IInv, TypeOK
                        <7> QED BY <7>1, <7>2, Zenon
                    <6> QED BY <6>1, <6>2
                <5> QED BY <3>2, <5>1, Zenon
            <4> QED BY <3>1, <4>1, Zenon
        <3>3. CASE ~near BY <3>1, <3>3, Zenon
        <3> QED BY <3>2, <3>3
    <2> QED BY <2>2, <2>3, <2>4
<1>4. CASE UNCHANGED fpsVars
    BY <1>4 DEF fpsVars, IInv, TypeOK, SettledSet, Settled, InReach, Overflowing, Fed,
        Place, PlaceAt, Accepted, a, b
<1> QED BY <1>1, <1>2, <1>3, <1>4 DEF FpsNext

(* feed starves the encoder of no more than Reach - 2 frames in a row, or, *)
(* while get_frame may hold what was in memory, up to the place of the     *)
(* frame awaited: for any rates init accepts and any pattern of late ones. *)
THEOREM DropsBoundedHolds == FpsSpec => []DropsBounded
<1>1. IInv => DropsBounded
    <2> SUFFICES ASSUME IInv PROVE DropsBounded
        OBVIOUS
    <2>1. Place(n) \in Int
        <3>1. CASE n \in 1..MaxFed + 1
            BY <3>1, PlaceType, FpsAssumption DEF IInv, TypeOK, Place
        <3>2. n \in 1..MaxFed + 1 BY FpsAssumption DEF IInv, TypeOK, Fed
        <3> QED BY <3>1, <3>2
    <2>2. /\ gap \in Nat /\ last_frame \in -INT_MAX - 1..INT_MAX
          /\ adoped_frames \in Nat /\ late_frames \in Nat
        BY DEF IInv, TypeOK
    <2> QED BY <2>1, <2>2, FpsAssumption
            DEF IInv, DropsBounded, InReach, Overflowing, Settled, Higher
<1> QED BY <1>1, InitIInv, NextIInv, PTL DEF FpsSpec
-----------------------------------------------------------------------------
(* Integer arithmetic makes b at most a * tgt / orig, by less than          *)
(* (a % orig) * tgt / orig: as long as this, over the frames adopted, is    *)
(* not a whole step of b, it is lost in the rounding of the places.         *)
NoDriftYet == adoped_frames * (Scale % orig_fps) <= b(tgt_fps, orig_fps)

(* From the second adopted frame on last_frame counts the frames fed, and   *)
(* stays between the places of the frame adopted and of the one awaited.    *)
InStep ==
    /\ last_frame - Place(2) = Fed - second
    /\ Place(n - 1) <= last_frame
    /\ last_frame < Place(n)

RateInv ==
    /\ second \in Nat
    /\ adoped_frames >= 2 /\ late_frames = 0 /\ orig_fps >= tgt_fps /\ StepsInReach => InStep

(* The quotient of natural numbers. *)
LEMMA Quotient ==
    ASSUME NEW x \in Nat, NEW y \in Nat, y >= 1
    PROVE  /\ x \div y \in Nat
           /\ x % y \in Nat /\ x = y * (x \div y) + (x % y)
           /\ y * (x \div y) <= x /\ x < y * (x \div y) + y
<1>1. x \div y \in Nat /\ x % y \in 0..(y - 1)
    OBVIOUS
<1>2. x = y * (x \div y) + (x % y)
    OBVIOUS
<1>3. y * (x \div y) <= x /\ x < y * (x \div y) + y
    OBVIOUS
<1> QED BY <1>1, <1>2, <1>3

(* What b is made of. *)
LEMMA StepType ==
    ASSUME NEW tgt \in Rates, NEW orig \in Rates
    PROVE  /\ tgt \in Nat /\ tgt >= 1 /\ orig \in Nat /\ orig >= 1
           /\ Scale \div orig \in Nat /\ Scale \div orig >= 1
           /\ Scale % orig \in Nat
           /\ Scale = orig * (Scale \div orig) + (Scale % orig)
           /\ b(tgt, orig) \in Nat /\ b(tgt, orig) >= 1
           /\ b(tgt, orig) \div 2 \in Nat
<1>1. tgt \in Nat /\ tgt >= 1 /\ orig \in Nat /\ orig >= 1 /\ Scale \in Nat /\ orig <= Scale
    BY FpsAssumption
<1>2. /\ Scale \div orig \in Nat /\ Scale \div orig >= 1
      /\ Scale % orig \in Nat
    BY <1>1
<1>3. Scale = orig * (Scale \div orig) + (Scale % orig)
    BY <1>1, Quotient
<1>4. b(tgt, orig) \in Nat /\ b(tgt, orig) >= 1
    <2> DEFINE q == Scale \div orig
    <2>1. q \in Nat /\ q >= 1 BY <1>2
    <2> HIDE DEF q
    <2>2. q * tgt \in Nat /\ q * tgt >= 1 BY <1>1, <2>1
    <2> QED BY <2>2 DEF b, q
<1>5. b(tgt, orig) \div 2 \in Nat
    BY <1>4
<1> QED BY <1>1, <1>2, <1>3, <1>4, <1>5

(* A place is where a multiple of a, rounded, falls among the multiples of b. *)
LEMMA PlaceBetween ==
    ASSUME NEW tgt \in Rates, NEW orig \in Rates, NEW k \in Nat
    PROVE  /\ PlaceAt(tgt, orig, k) \in Nat
           /\ b(tgt, orig) * PlaceAt(tgt, orig, k) <= k * Scale + b(tgt, orig) \div 2
           /\ k * Scale + b(tgt, orig) \div 2
                  < b(tgt, orig) * PlaceAt(tgt, orig, k) + b(tgt, orig)
<1> DEFINE y == b(tgt, orig)
           x == k * Scale + y \div 2
<1>1. y \in Nat /\ y >= 1 BY StepType
<1>2. x \in Nat
    <2>1. k * Scale \in Nat BY FpsAssumption
    <2>2. y \div 2 \in Nat BY <1>1
    <2> QED BY <2>1, <2>2
<1>3. PlaceAt(tgt, orig, k) = x \div y BY DEF PlaceAt, a
<1> HIDE DEF x, y
<1>4. /\ x \div y \in Nat
      /\ y * (x \div y) <= x /\ x < y * (x \div y) + y
    BY <1>1, <1>2, Quotient
<1> QED BY <1>3, <1>4 DEF x, y

(* No two frames have the same place if the camera is not the slower one. *)
LEMMA PlacesGrow ==
    ASSUME NEW tgt \in Rates, NEW orig \in Rates, orig >= tgt, NEW k \in Nat
    PROVE  PlaceAt(tgt, orig, k) < PlaceAt(tgt, orig, k + 1)
<1> DEFINE y == b(tgt, orig)
           h == y \div 2
           p == PlaceAt(tgt, orig, k)
           q == PlaceAt(tgt, orig, k + 1)
<1>1. y \in Nat /\ y >= 1 /\ h \in Nat /\ Scale \in Nat /\ k + 1 \in Nat
    BY StepType, FpsAssumption
<1>2. /\ p \in Nat /\ y * p <= k * Scale + h
      /\ q \in Nat /\ (k + 1) * Scale + h < y * q + y
    BY <1>1, PlaceBetween
<1>3. y <= Scale
    <2> DEFINE d == Scale \div orig
    <2>1. /\ d \in Nat /\ tgt \in Nat /\ orig \in Nat /\ Scale % orig \in Nat
          /\ Scale = orig * d + (Scale % orig)
        BY StepType
    <2>2. y = d * tgt BY DEF b
    <2> HIDE DEF d, y
    <2>3. d * tgt <= orig * d BY <2>1
    <2>4. orig * d \in Nat /\ orig * d <= Scale BY <2>1
    <2> QED BY <1>1, <2>1, <2>2, <2>3, <2>4
<1> HIDE DEF y, h, p, q
<1>4. (k + 1) * Scale = k * Scale + Scale /\ k * Scale \in Nat
    BY <1>1
<1>5. y * p + y < y * q + y
    BY <1>1, <1>2, <1>3, <1>4
<1>6. y * p < y * q
    BY <1>1, <1>2, <1>5
<1>7. p < q
    <2>1. SUFFICES ASSUME q <= p PROVE FALSE
        BY <1>2
    <2>2. y * q <= y * p
        BY <1>1, <1>2, <2>1
    <2> QED BY <1>1, <1>2, <1>6, <2>2
<1> QED BY <1>7 DEF p, q

(* So many frames m after the second one adopted, d frames are fed: what   *)
(* the places say of the one and the other in terms of the rates.          *)
LEMMA Proportion ==
    ASSUME NEW tgt \in Rates, NEW orig \in Rates, NEW m \in Nat, NEW d \in Int,
           (m + 2) * (Scale % orig) <= b(tgt, orig),
           PlaceAt(tgt, orig, m + 2) <= PlaceAt(tgt, orig, 2) + d,
           PlaceAt(tgt, orig, 2) + d < PlaceAt(tgt, orig, m + 3)
    PROVE  Distance(d * tgt, m * orig) <= orig + tgt
<1> DEFINE y == b(tgt, orig)
           h == y \div 2
           q == Scale \div orig
           r == Scale % orig
           p2 == PlaceAt(tgt, orig, 2)
           pm == PlaceAt(tgt, orig, m + 2)
           pn == PlaceAt(tgt, orig, m + 3)
<1>1. /\ tgt \in Nat /\ tgt >= 1 /\ orig \in Nat /\ orig >= 1
      /\ q \in Nat /\ q >= 1 /\ r \in Nat /\ Scale = orig * q + r
      /\ y \in Nat /\ y >= 1 /\ h \in Nat /\ Scale \in Nat
    BY StepType, FpsAssumption
<1>2. /\ p2 \in Nat /\ y * p2 <= 2 * Scale + h /\ 2 * Scale + h < y * p2 + y
      /\ pm \in Nat /\ (m + 2) * Scale + h < y * pm + y
      /\ pn \in Nat /\ y * pn <= (m + 3) * Scale + h
    <2>1. 2 \in Nat /\ m + 2 \in Nat /\ m + 3 \in Nat
        OBVIOUS
    <2> QED BY <2>1, PlaceBetween
<1>3. y = q * tgt BY DEF b
<1>4. pm <= p2 + d /\ p2 + d < pn /\ (m + 2) * r <= y
    OBVIOUS
<1> HIDE DEF y, h, q, r, p2, pm, pn
<1>5. y * (p2 + d) = y * p2 + y * d /\ y * d \in Int /\ y * p2 \in Int
    BY <1>1, <1>2
<1>6. m * orig < d * tgt + tgt
    <2>1. y * pm <= y * (p2 + d)
        BY <1>1, <1>2, <1>4
    <2>2. (m + 2) * Scale = m * Scale + 2 * Scale /\ m * Scale \in Nat
        BY <1>1
    <2>3. m * Scale < y * d + y
        BY <1>1, <1>2, <1>5, <2>1, <2>2
    <2>4. m * Scale = q * (m * orig) + m * r /\ m * r \in Nat /\ m * orig \in Nat
        <3>1. m * (orig * q + r) = q * (m * orig) + m * r
            BY <1>1
        <3> QED BY <1>1, <3>1
    <2>5. y * d + y = q * (d * tgt + tgt) /\ d * tgt + tgt \in Int
        BY <1>1, <1>3
    <2>6. q * (m * orig) < q * (d * tgt + tgt)
        BY <1>1, <2>3, <2>4, <2>5
    <2>7. SUFFICES ASSUME d * tgt + tgt <= m * orig PROVE FALSE
        BY <2>4, <2>5
    <2>8. q * (d * tgt + tgt) <= q * (m * orig)
        BY <1>1, <2>4, <2>5, <2>7
    <2> QED BY <1>1, <2>4, <2>5, <2>6, <2>8
<1>7. d * tgt < (m + 1) * orig + tgt
    <2>1. y * (p2 + d + 1) <= y * pn
        BY <1>1, <1>2, <1>4
    <2>2. y * (p2 + d + 1) = y * p2 + y * d + y
        BY <1>1, <1>2
    <2>3. (m + 3) * Scale = (m + 1) * Scale + 2 * Scale /\ (m + 1) * Scale \in Nat
        BY <1>1
    <2>4. y * d < (m + 1) * Scale
        BY <1>1, <1>2, <1>5, <2>1, <2>2, <2>3
    <2>5. (m + 1) * Scale = q * ((m + 1) * orig) + (m + 1) * r /\ (m + 1) * r \in Nat
          /\ (m + 1) * orig \in Nat
        <3>1. (m + 1) * (orig * q + r) = q * ((m + 1) * orig) + (m + 1) * r
            BY <1>1
        <3> QED BY <1>1, <3>1
    <2>6. (m + 1) * r <= y
        <3>1. (m + 2) * r = (m + 1) * r + r
            BY <1>1
        <3> QED BY <1>1, <1>4, <2>5, <3>1
    <2>7. y * d = q * (d * tgt) /\ d * tgt \in Int
        BY <1>1, <1>3
    <2>8. q * ((m + 1) * orig + tgt) = q * ((m + 1) * orig) + y
        BY <1>1, <1>3, <2>5
    <2>9. q * (d * tgt) < q * ((m + 1) * orig + tgt)
        BY <1>1, <2>4, <2>5, <2>6, <2>7, <2>8
    <2>10. SUFFICES ASSUME (m + 1) * orig + tgt <= d * tgt PROVE FALSE
        BY <1>1, <2>5, <2>7
    <2>11. q * ((m + 1) * orig + tgt) <= q * (d * tgt)
        BY <1>1, <2>5, <2>7, <2>10
    <2> QED BY <1>1, <2>5, <2>7, <2>9, <2>11
<1>8. (m + 1) * orig = m * orig + orig /\ m * orig \in Int /\ d * tgt \in Int
    BY <1>1
<1> QED BY <1>1, <1>6, <1>7, <1>8 DEF Distance

(* Before the first frame nothing is claimed. *)
LEMMA RateInit == FpsInit => RateInv
BY DEF FpsInit, RateInv

(* A frame fed in step is dropped or adopted as its place asks for. *)
LEMMA FeedInStep ==
    ASSUME IInv, Fed < MaxFed, Feed, adoped_frames >= 2,
           orig_fps >= tgt_fps, StepsInReach, InStep
    PROVE  \/ Drop(Place(n)) /\ last_frame < Place(n) - 1
           \/ Adopt(Place(n)) /\ last_frame = Place(n) - 1
<1> DEFINE p == Place(n)
<1>1. /\ n \in 1..MaxFed + 1 /\ n - 1 \in 1..n /\ (n - 1) + 1 = n /\ n - 1 \in Nat
      /\ adoped_frames \in Nat /\ last_frame \in Int
      /\ tgt_fps \in Rates /\ orig_fps \in Rates /\ Accepted(tgt_fps, orig_fps)
    BY Constants DEF IInv, TypeOK, Fed
<1>2. p \in 0..INT_MAX
    BY <1>1, PlaceType DEF Place
<1>3. Place(n - 1) \in Nat
    BY <1>1, PlaceBetween DEF Place
<1>4. p - Place(n - 1) < Reach
    BY <1>1 DEF StepsInReach
<1>5. last_frame < p /\ p - last_frame < Reach /\ p - last_frame <= INT_MAX
    BY <1>1, <1>2, <1>3, <1>4, Constants DEF InStep
<1>6. PICK near \in Near(p, last_frame) :
         IF Before(p, last_frame) /\ near THEN Drop(p) ELSE Adopt(p)
    BY DEF Feed
<1>7. near
    <2>1. ~(p - last_frame > INT_MAX)
        BY <1>1, <1>2, <1>5, Constants
    <2>2. near = (p - last_frame < Reach)
        BY <1>6, <2>1, Zenon DEF Near
    <2> QED BY <1>5, <2>2, Zenon
<1>8. CASE last_frame < p - 1
    <2>1. Drop(p) BY <1>6, <1>7, <1>8 DEF Before
    <2> QED BY <1>8, <2>1
<1>9. CASE ~(last_frame < p - 1)
    <2>1. Adopt(p) BY <1>6, <1>9 DEF Before
    <2>2. last_frame = p - 1 BY <1>1, <1>2, <1>5, <1>9
    <2> QED BY <2>1, <2>2
<1> QED BY <1>8, <1>9

(* Every step keeps last_frame in step with the frames fed. *)
LEMMA RateStep == IInv /\ RateInv /\ [FpsNext]_fpsVars => RateInv'
<1> SUFFICES ASSUME IInv, RateInv, [FpsNext]_fpsVars PROVE RateInv'
    OBVIOUS
<1>1. CASE UNCHANGED fpsVars
    BY <1>1 DEF fpsVars, RateInv, InStep, StepsInReach, Fed, Place, PlaceAt, a, b
<1>2. CASE FpsNext
    <2>1. /\ dropped_frames \in Nat /\ adoped_frames \in Nat /\ n = adoped_frames + 1
          /\ last_frame \in Int /\ second \in Nat /\ late_frames \in Nat
          /\ Fed \in Nat /\ Fed < MaxFed
        BY <1>2, Constants DEF IInv, TypeOK, RateInv, FpsNext, Fed
    <2>2. second' \in Nat
        <3>1. ASSUME NEW get, Adopt(get) PROVE second' \in Nat
            BY <2>1, <3>1 DEF Adopt
        <3>2. ASSUME NEW get, Drop(get) PROVE second' \in Nat
            BY <2>1, <3>2 DEF Drop
        <3> QED BY <1>2, <3>1, <3>2 DEF FpsNext, FeedFirst, FeedLate, Feed
    <2>3. SUFFICES ASSUME adoped_frames' >= 2, late_frames' = 0, orig_fps' >= tgt_fps',
                          StepsInReach'
                   PROVE  InStep'
        BY <2>2 DEF RateInv
    <2>4. Feed
        <3>1. ~FeedFirst
            <4>1. FeedFirst => adoped_frames' = 1
                BY DEF FeedFirst, Adopt, IInv, TypeOK
            <4> QED BY <2>3, <4>1
        <3>2. ~FeedLate
            BY <2>1, <2>3 DEF FeedLate
        <3> QED BY <1>2, <3>1, <3>2 DEF FpsNext
    <2>5. UNCHANGED <<tgt_fps, orig_fps, late_frames>> /\ adoped_frames > 0
          /\ tgt_fps \in Rates /\ orig_fps \in Rates
        BY <2>1, <2>4 DEF Feed, IInv, TypeOK
    <2>6. \A k : Place(k)' = Place(k)
        BY <2>5 DEF Place, PlaceAt, a, b
    <2>7. \A k \in Nat : Place(k) \in Nat /\ Place(k) < Place(k + 1)
        BY <2>3, <2>5, PlaceBetween, PlacesGrow DEF Place
    <2>8. n' = n \/ n' = n + 1
        BY <2>1, <2>4 DEF Feed, Adopt, Drop
    <2>9. StepsInReach
        <3>1. SUFFICES ASSUME NEW k \in 1..n PROVE Place(k + 1) - Place(k) < Reach
            BY DEF StepsInReach
        <3>2. k \in 1..n'
            BY <2>1, <2>8
        <3>3. Place(k + 1)' - Place(k)' < Reach
            BY <2>3, <3>2 DEF StepsInReach
        <3> QED BY <2>6, <3>3
    <2>10. CASE adoped_frames >= 2
        <3>1. InStep
            BY <2>3, <2>5, <2>9, <2>10 DEF RateInv
        <3>2. \/ Drop(Place(n)) /\ last_frame < Place(n) - 1
              \/ Adopt(Place(n)) /\ last_frame = Place(n) - 1
            BY <2>1, <2>3, <2>4, <2>5, <2>9, <2>10, <3>1, FeedInStep
        <3>3. CASE Drop(Place(n)) /\ last_frame < Place(n) - 1
            <4>1. /\ last_frame' = last_frame + 1 /\ n' = n /\ second' = second
                  /\ Fed' = Fed + 1
                BY <2>1, <3>3 DEF Drop, Fed
            <4>2. Place(n) \in Nat /\ Place(n - 1) \in Nat /\ Place(2) \in Nat
                BY <2>1, <2>5, <2>7
            <4>3. /\ last_frame' - Place(2) = Fed' - second'
                  /\ Place(n' - 1) <= last_frame' /\ last_frame' < Place(n')
                BY <2>1, <2>2, <3>1, <3>3, <4>1, <4>2 DEF InStep
            <4> QED BY <2>6, <4>3 DEF InStep
        <3>4. CASE Adopt(Place(n)) /\ last_frame = Place(n) - 1
            <4>1. /\ last_frame' = Place(n) /\ n' = n + 1 /\ second' = second
                  /\ Fed' = Fed + 1
                BY <2>1, <2>10, <3>4 DEF Adopt, Fed
            <4>2. n \in Nat /\ 2 \in Nat
                BY <2>1
            <4>3. Place(n) \in Nat /\ Place(n) < Place(n + 1) /\ Place(2) \in Nat
                BY <2>7, <4>2
            <4>4. (n + 1) - 1 = n
                BY <2>1
            <4>5. /\ last_frame' - Place(2) = Fed' - second'
                  /\ Place(n' - 1) <= last_frame' /\ last_frame' < Place(n')
                BY <2>1, <2>2, <3>1, <3>4, <4>1, <4>3, <4>4 DEF InStep
            <4> QED BY <2>6, <4>5 DEF InStep
        <3> QED BY <3>2, <3>3, <3>4
    <2>11. CASE adoped_frames = 1
        <3>1. n = 2 BY <2>1, <2>11
        <3>2. Adopt(Place(2))
            <4>1. Drop(Place(n)) => adoped_frames' = 1
                BY <2>11 DEF Drop
            <4> QED BY <2>3, <2>4, <3>1, <4>1 DEF Feed
        <3>3. last_frame' = Place(2) /\ n' = 3 /\ second' = Fed + 1 /\ Fed' = Fed + 1
            BY <2>1, <2>11, <3>1, <3>2 DEF Adopt, Fed
        <3>4. Place(2) \in Nat /\ Place(2) < Place(2 + 1)
            BY <2>7
        <3>5. /\ last_frame' - Place(2) = Fed' - second'
              /\ Place(n' - 1) <= last_frame' /\ last_frame' < Place(n')
            BY <2>1, <3>3, <3>4
        <3> QED BY <2>6, <3>5 DEF InStep
    <2> QED BY <2>1, <2>5, <2>10, <2>11
<1> QED BY <1>1, <1>2

(* The frames adopted are the share of the frames fed that the rates ask   *)
(* for, to within one of either kind, for all rates, however long the      *)
(* camera runs, until the remainder of a / orig adds up to a step of b:    *)
(* and never if orig divides a.                                            *)
THEOREM RateKeptUntilDrift == FpsSpec => [](NoDriftYet => RateKept)
<1>1. FpsInit => IInv /\ RateInv
    BY InitIInv, RateInit
<1>2. IInv /\ RateInv /\ [FpsNext]_fpsVars => (IInv /\ RateInv)'
    BY NextIInv, RateStep
<1>3. IInv /\ RateInv => (NoDriftYet => RateKept)
    <2> SUFFICES ASSUME IInv, RateInv, NoDriftYet, StepsInReach,
                        adoped_frames >= 2, late_frames = 0, orig_fps >= tgt_fps
                 PROVE  Distance((Fed - second) * tgt_fps, (adoped_frames - 2) * orig_fps)
                            <= orig_fps + tgt_fps
        BY DEF RateKept, InProportion
    <2>1. /\ adoped_frames \in Nat /\ dropped_frames \in Nat /\ n = adoped_frames + 1
          /\ second \in Nat /\ last_frame \in Int
          /\ tgt_fps \in Rates /\ orig_fps \in Rates
        BY Constants DEF IInv, TypeOK, RateInv
    <2> DEFINE m == adoped_frames - 2
               d == Fed - second
    <2>2. /\ m \in Nat /\ m + 2 = adoped_frames /\ m + 2 = n - 1 /\ m + 3 = n
          /\ d \in Int
        BY <2>1 DEF Fed
    <2>3. InStep BY DEF RateInv
    <2>4. Place(2) \in Nat
        BY <2>1, PlaceBetween DEF Place
    <2>5. last_frame = Place(2) + d
        BY <2>1, <2>2, <2>3, <2>4 DEF InStep
    <2>6. Place(m + 2) <= Place(2) + d /\ Place(2) + d < Place(m + 3)
        BY <2>2, <2>3, <2>5 DEF InStep
    <2>7. (m + 2) * (Scale % orig_fps) <= b(tgt_fps, orig_fps)
        BY <2>2 DEF NoDriftYet
    <2> HIDE DEF m, d
    <2>8. Distance(d * tgt_fps, m * orig_fps) <= orig_fps + tgt_fps
        BY <2>1, <2>2, <2>6, <2>7, Proportion DEF Place
    <2> QED BY <2>8 DEF m, d
<1> QED BY <1>1, <1>2, <1>3, PTL DEF FpsSpec
-----------------------------------------------------------------------------
(* MemHolder, the other memory of xutil.cpp: what two threads that share   *)
(* one may rely on, for any sizes of payloads and any number of calls.     *)
Blocks == DOMAIN size
Half == {"", "audio", "video"}
Filling == {"fill1", "fill2", "lock", "header", "send"}
Call == [pc : Lent \cup {"idle"}, sz : Nat, capacity : Nat,
         tmp : Nat, buf : Nat]

AllLent == \A t \in Thread : call[t].pc \in Lent
AllGrowing == \A t \in Thread : call[t].pc \in Growing
OneGrowing == \E t \in Thread : call[t].pc \in Growing
Live(x) == x \in Blocks /\ x \notin freed

TypeOf(t) ==
    /\ call[t] \in Call
    /\ call[t].pc # "idle" => call[t].sz > 0
    /\ call[t].tmp \in Blocks \cup {0} /\ call[t].buf \in Blocks \cup {0}
    /\ call[t].pc \in {"idle", "alloc", "malloc"} => call[t].tmp = 0

BlocksType ==
    /\ size \in Seq(Nat) /\ data \in Seq(Half \X Half) /\ DOMAIN data = Blocks
    /\ freed \subseteq Blocks
    /\ m_buf \in Blocks \cup {0} /\ m_capacity \in Nat

PoolType ==
    /\ BlocksType
    /\ call \in [Thread -> Call] /\ \A t \in Thread : TypeOf(t)
    /\ {overlap, grown, two_grow} \subseteq BOOLEAN

(* The history, as far as the present shows it. *)
PoolHistory ==
    /\ AllLent => overlap
    /\ AllLent /\ OneGrowing => grown
    /\ AllGrowing => two_grow
    /\ two_grow => grown
    /\ grown => overlap

(* A thread that grows the pool alone knows its capacity, has a block for  *)
(* it from malloc on, and frees the old one once.                          *)
Growth1(t) ==
    /\ call[t].capacity >= call[t].sz
    /\ m_capacity = call[t].capacity
    /\ call[t].pc \in {"free", "clear", "assign"} => Usable(call[t].tmp, m_capacity)
    /\ call[t].pc \in {"malloc", "free"} => m_buf = 0 \/ Live(m_buf)
    /\ call[t].pc = "free" => m_buf # call[t].tmp
    /\ call[t].pc = "clear" => m_buf # call[t].tmp

Promise == (m_buf = 0 /\ m_capacity = 0) \/ Usable(m_buf, m_capacity)

CapacityOf(t) == ~two_grow /\ call[t].pc \in Growing => Growth1(t)

CapacityInv == ~two_grow /\ ~OneGrowing => Promise

(* What a thread is lent it may use, unless the pool grew meanwhile. *)
LoanOf(t) ==
    ~grown => /\ call[t].pc = "return" => /\ Usable(m_buf, call[t].sz)
                                         /\ call[t].tmp \in {0, m_buf}
              /\ call[t].pc \in Filling => Usable(call[t].buf, call[t].sz)

(* What it has filled is its own, as long as the other one has no loan. *)
PayloadOf(t) ==
    ~overlap => /\ call[t].pc = "fill2" => data[call[t].buf][1] = t
                /\ call[t].pc \in {"lock", "header", "send"} => data[call[t].buf] = <<t, t>>

Owned(t) == CapacityOf(t) /\ LoanOf(t) /\ PayloadOf(t)

PoolInv == /\ PoolType /\ PoolHistory /\ CapacityInv
           /\ \A t \in Thread : Owned(t)
           /\ MisuseNeedsOverlap

(* A step of thread t alone. *)
StepOf(t) ==
    /\ call' = [call EXCEPT ![t] = call'[t]]
    /\ overlap' = (overlap \/ AllLent')
    /\ grown' = (grown \/ (AllLent' /\ OneGrowing'))
    /\ two_grow' = (two_grow \/ AllGrowing')

(* What a step says of the history, and with it of the other thread. *)
LEMMA StepHistory ==
    ASSUME NEW t \in Thread, StepOf(t), PoolType, PoolHistory
    PROVE  /\ PoolHistory' /\ {overlap', grown', two_grow'} \subseteq BOOLEAN
           /\ overlap => overlap'
           /\ grown => grown'
           /\ two_grow => two_grow'
           /\ \A u \in Thread \ {t} : call'[u] = call[u]
           /\ ~overlap' /\ (call[t].pc \in Lent \/ call'[t].pc \in Lent) =>
                 \A u \in Thread \ {t} : call[u].pc \notin Lent
           /\ ~grown' /\ (call[t].pc \in Growing \/ call'[t].pc \in Growing) =>
                 \A u \in Thread \ {t} : call[u].pc \notin Lent
           /\ ~two_grow' /\ (call[t].pc \in Growing \/ call'[t].pc \in Growing) =>
                 \A u \in Thread \ {t} : call[u].pc \notin Growing
<1>1. Growing \subseteq Lent
  BY DEF Lent
<1>2. overlap \in BOOLEAN /\ grown \in BOOLEAN /\ two_grow \in BOOLEAN
  BY DEF PoolType
<1>3. \A u \in Thread \ {t} : call'[u] = call[u]
  BY DEF StepOf, PoolType
<1>4. AllGrowing' => AllLent' /\ OneGrowing'
  BY <1>1 DEF AllGrowing, AllLent, OneGrowing, Thread
<1>5. PoolHistory' /\ {overlap', grown', two_grow'} \subseteq BOOLEAN
  BY <1>2, <1>4 DEF PoolHistory, StepOf
<1>6. (overlap => overlap') /\ (grown => grown') /\ (two_grow => two_grow')
  BY DEF StepOf
<1>7. ASSUME ~overlap', call[t].pc \in Lent \/ call'[t].pc \in Lent,
             NEW u \in Thread \ {t}
      PROVE  call[u].pc \notin Lent
  <2>1. \A v \in Thread : v = t \/ v = u
    BY DEF Thread
  <2>2. ~AllLent /\ ~AllLent'
    BY <1>6, <1>7 DEF StepOf, PoolHistory
  <2>3. call'[u] = call[u]
    BY <1>3, <1>7
  <2>4. QED
    BY <1>7, <2>1, <2>2, <2>3 DEF AllLent
<1>8. ASSUME ~grown', call[t].pc \in Growing \/ call'[t].pc \in Growing,
             NEW u \in Thread \ {t}
      PROVE  call[u].pc \notin Lent
  <2>1. \A v \in Thread : v = t \/ v = u
    BY DEF Thread
  <2>2. ~(AllLent /\ OneGrowing) /\ ~(AllLent' /\ OneGrowing')
    BY <1>6, <1>8 DEF StepOf, PoolHistory
  <2>3. call'[u] = call[u]
    BY <1>3, <1>8
  <2>4. QED
    BY <1>1, <1>8, <2>1, <2>2, <2>3 DEF AllLent, OneGrowing
<1>9. ASSUME ~two_grow', call[t].pc \in Growing \/ call'[t].pc \in Growing,
             NEW u \in Thread \ {t}
      PROVE  call[u].pc \notin Growing
  <2>1. \A v \in Thread : v = t \/ v = u
    BY DEF Thread
  <2>2. ~AllGrowing /\ ~AllGrowing'
    BY <1>6, <1>9 DEF StepOf, PoolHistory
  <2>3. call'[u] = call[u]
    BY <1>3, <1>9
  <2>4. QED
    BY <1>9, <2>1, <2>2, <2>3 DEF AllGrowing
<1>10. QED
  BY <1>3, <1>5, <1>6, <1>7, <1>8, <1>9

LEMMA GoIsAStep ==
    ASSUME NEW t \in Thread, NEW c, PoolType, Go(t, c)
    PROVE  StepOf(t) /\ call'[t] = c
<1>1. call'[t] = c
  BY DEF PoolType, Go
<1>2. QED
  BY <1>1 DEF StepOf, Go, AllLent, AllGrowing, OneGrowing

(* The other thread keeps what it was promised: it has no loan while this  *)
(* one grows the pool, or the flags that excuse it are raised.             *)
LEMMA OtherOwned ==
    ASSUME NEW t \in Thread, StepOf(t), PoolInv,
           call[t].pc \in Lent \/ call'[t].pc \in Lent,
           \/ call[t].pc \in Growing \/ call'[t].pc \in Growing
           \/ UNCHANGED <<m_buf, m_capacity, size, freed>>,
           NEW u \in Thread \ {t}
    PROVE  Owned(u)'
<1>1. call'[u] = call[u] /\ Owned(u) /\ PoolType /\ PoolHistory
  BY StepHistory DEF PoolInv
<1>2. ~overlap' => call[u].pc \notin Lent
  BY <1>1, StepHistory
<1>3. (overlap => overlap') /\ (grown => grown') /\ (two_grow => two_grow')
  BY <1>1, StepHistory
<1>4. PayloadOf(u)'
  BY <1>1, <1>2 DEF PayloadOf, Lent
<1>5. CapacityOf(u)' /\ LoanOf(u)'
  <2>1. CASE call[t].pc \in Growing \/ call'[t].pc \in Growing
    <3>1. ~grown' => call[u].pc \notin Lent
      BY <1>1, <2>1, StepHistory
    <3>2. ~two_grow' => call[u].pc \notin Growing
      BY <1>1, <2>1, StepHistory
    <3>3. LoanOf(u)'
      BY <1>1, <3>1 DEF LoanOf, Lent, Filling
    <3>4. CapacityOf(u)'
      BY <1>1, <3>2 DEF CapacityOf
    <3>5. QED
      BY <3>3, <3>4
  <2>2. CASE UNCHANGED <<m_buf, m_capacity, size, freed>>
    <3>1. LoanOf(u)'
      BY <1>1, <1>3, <2>2 DEF Owned, LoanOf, Usable
    <3>2. CapacityOf(u)'
      BY <1>1, <1>3, <2>2 DEF Owned, CapacityOf, Growth1, Usable, Live, Blocks
    <3>3. QED
      BY <3>1, <3>2
  <2>3. QED
    BY <2>1, <2>2
<1>6. QED
  BY <1>4, <1>5 DEF Owned

(* What is left to show of a step of thread t. *)
LEMMA PoolStepKeeps ==
    ASSUME NEW t \in Thread, StepOf(t), PoolInv,
           call[t].pc \in Lent \/ call'[t].pc \in Lent,
           \/ call[t].pc \in Growing \/ call'[t].pc \in Growing
           \/ UNCHANGED <<m_buf, m_capacity, size, freed>>,
           call'[t].pc \in Growing \/ (~two_grow' /\ ~OneGrowing' => Promise'),
           BlocksType', Blocks \subseteq Blocks', TypeOf(t)', Owned(t)',
           MisuseNeedsOverlap'
    PROVE  PoolInv'
<1>1. PoolType /\ PoolHistory
  BY DEF PoolInv
<1>2. /\ PoolHistory' /\ {overlap', grown', two_grow'} \subseteq BOOLEAN
      /\ \A u \in Thread \ {t} : call'[u] = call[u]
  BY <1>1, StepHistory
<1>3. \A u \in Thread \ {t} : Owned(u)'
  BY OtherOwned
<1>4. \A u \in Thread : Owned(u)'
  BY <1>3
<1>5. ASSUME NEW u \in Thread PROVE TypeOf(u)'
  <2>1. CASE u = t
    BY <2>1
  <2>2. CASE u # t
    <3>1. call'[u] = call[u] /\ TypeOf(u)
      BY <1>1, <1>2, <2>2 DEF PoolType
    <3>2. QED
      BY <3>1 DEF TypeOf
  <2>3. QED
    BY <2>1, <2>2
<1>6. call' \in [Thread -> Call]
  BY <1>1 DEF StepOf, PoolType, TypeOf
<1>7. CapacityInv'
  BY DEF CapacityInv, OneGrowing
<1>8. QED
  BY <1>2, <1>4, <1>5, <1>6, <1>7 DEF PoolInv, PoolType

(* Steps that leave the pool as it is, and keep its promise. *)
LEMMA PromiseKept ==
    ASSUME NEW t \in Thread, StepOf(t), PoolInv,
           call[t].pc \notin Growing,
           UNCHANGED <<m_buf, m_capacity, size, freed>>
    PROVE  call'[t].pc \in Growing \/ (~two_grow' /\ ~OneGrowing' => Promise')
<1>1. /\ PoolType /\ PoolHistory /\ CapacityInv
  BY DEF PoolInv
<1>2. /\ \A u \in Thread \ {t} : call'[u] = call[u]
      /\ two_grow => two_grow'
  BY <1>1, StepHistory
<1>3. ~OneGrowing' => ~OneGrowing
  BY <1>2 DEF OneGrowing
<1>4. QED
  BY <1>1, <1>2, <1>3 DEF CapacityInv, Promise, Usable

(* A send begins: a size, and nothing lent yet but the place in the queue. *)
LEMMA SendBegins ==
    ASSUME NEW t \in Thread, NEW sz \in Nat, sz > 0, PoolInv,
           call[t] = Idle,
           Go(t, [Idle EXCEPT !.pc = "alloc", !.sz = sz]),
           UNCHANGED <<m_buf, m_capacity, size, data, freed, torn, misused>>
    PROVE  PoolInv'
<1>1. PoolType /\ PoolHistory /\ MisuseNeedsOverlap
  BY DEF PoolInv
<1>2. StepOf(t) /\ call'[t] = [Idle EXCEPT !.pc = "alloc", !.sz = sz]
  BY <1>1, GoIsAStep
<1>3. /\ call'[t].pc = "alloc" /\ call'[t].sz = sz /\ call'[t].tmp = 0 /\ call'[t].buf = 0
      /\ call'[t] \in Call /\ call[t].pc = "idle"
  <2>1. /\ Idle \in Call /\ Idle.pc = "idle"
        /\ Idle.tmp = 0 /\ Idle.buf = 0
    BY DEF Idle, NULL, Call
  <2>2. "alloc" \in Lent
    BY DEF Lent
  <2>3. QED
    BY <1>2, <2>1, <2>2 DEF Call
<1>4. BlocksType' /\ Blocks' = Blocks /\ TypeOf(t)'
  BY <1>1, <1>3 DEF PoolType, BlocksType, TypeOf, Blocks
<1>5. Owned(t)'
  BY <1>3 DEF Owned, CapacityOf, LoanOf, PayloadOf, Filling, Growing
<1>6. MisuseNeedsOverlap'
  BY <1>1, <1>2, StepHistory DEF MisuseNeedsOverlap
<1>7. call[t].pc \notin Growing /\ call'[t].pc \in Lent
  BY <1>3 DEF Growing, Lent
<1>8. QED
  BY <1>2, <1>4, <1>5, <1>6, <1>7, PromiseKept, PoolStepKeeps

(* The steps from the loan to the sending: they change no block's size.    *)
LEMMA Filled ==
    ASSUME NEW t \in Thread, NEW c \in Call, PoolInv, Go(t, c),
           call[t].pc \in Filling,
           c.sz = call[t].sz, c.buf = call[t].buf, c.tmp = call[t].tmp,
           \/ call[t].pc = "fill1" /\ c.pc = "fill2"
           \/ call[t].pc = "fill2" /\ c.pc \in {"lock", "send"}
           \/ call[t].pc = "lock" /\ c.pc = "header"
           \/ call[t].pc = "header" /\ c.pc = "send",
           data' = IF call[t].pc \in {"fill1", "fill2"} /\ Usable(call[t].buf, call[t].sz)
                   THEN [data EXCEPT ![call[t].buf][IF call[t].pc = "fill1" THEN 1 ELSE 2] = t]
                   ELSE data,
           \/ misused' = misused
           \/ misused' = (misused \/ ~Usable(call[t].buf, call[t].sz)),
           UNCHANGED <<m_buf, m_capacity, size, freed, torn>>
    PROVE  PoolInv'
<1>1. PoolType /\ PoolHistory /\ MisuseNeedsOverlap /\ Owned(t) /\ TypeOf(t)
  BY DEF PoolInv, PoolType
<1>2. StepOf(t) /\ call'[t] = c
  BY <1>1, GoIsAStep
<1>3. /\ overlap => overlap'
      /\ grown => grown'
      /\ ~overlap => ~grown
  BY <1>1, <1>2, StepHistory DEF PoolHistory
<1>4. ~grown => Usable(call[t].buf, call[t].sz)
  BY <1>1 DEF Owned, LoanOf
<1>5. Usable(call[t].buf, call[t].sz) => call[t].buf \in Blocks
  BY <1>1 DEF TypeOf, Usable, NULL
<1>6. t \in Half /\ data \in Seq(Half \X Half) /\ DOMAIN data = Blocks
  BY <1>1 DEF Thread, Half, PoolType, BlocksType
<1>7. data' \in Seq(Half \X Half) /\ DOMAIN data' = Blocks
  <2>1. CASE data' = data
    BY <1>6, <2>1
  <2>2. CASE /\ call[t].buf \in 1..Len(data)
             /\ \E h \in {1, 2} : data' = [data EXCEPT ![call[t].buf][h] = t]
    <3>1. PICK h \in {1, 2} : data' = [data EXCEPT ![call[t].buf][h] = t]
      BY <2>2
    <3>2. data[call[t].buf] \in Half \X Half
      BY <1>6, <2>2
    <3>3. [data[call[t].buf] EXCEPT ![h] = t] \in Half \X Half
      BY <1>6, <3>2
    <3>4. data' = [data EXCEPT ![call[t].buf] = [data[call[t].buf] EXCEPT ![h] = t]]
      BY <3>1
    <3>5. data' \in Seq(Half \X Half) /\ Len(data') = Len(data)
      <4> DEFINE H == Half \X Half
                 x == call[t].buf
                 y == [data[x] EXCEPT ![h] = t]
      <4>1. data \in Seq(H) /\ x \in 1..Len(data) /\ y \in H /\ data' = [data EXCEPT ![x] = y]
        BY <1>6, <2>2, <3>3, <3>4
      <4> HIDE DEF H, x, y
      <4>2. data' \in Seq(H) /\ Len(data') = Len(data)
        <5>1. data \in [1..Len(data) -> H] /\ Len(data) \in Nat
          BY <4>1
        <5>2. data' \in [1..Len(data) -> H]
          BY <4>1, <5>1
        <5>3. QED
          BY <5>1, <5>2
      <4>3. QED
        BY <4>2 DEF H
    <3>6. QED
      BY <1>6, <3>5
  <2>3. QED
    <3>1. Blocks = 1..Len(data)
      BY <1>6
    <3>2. QED
      BY <1>5, <2>1, <2>2, <3>1
<1>8. BlocksType' /\ Blocks' = Blocks
  BY <1>1, <1>7 DEF PoolType, BlocksType, Blocks
<1>9. TypeOf(t)'
  BY <1>1, <1>2, <1>8 DEF TypeOf, Filling
<1>10. CapacityOf(t)'
  BY <1>2 DEF CapacityOf, Growing
<1>11. LoanOf(t)'
  BY <1>2, <1>3, <1>4 DEF LoanOf, Usable, Filling
<1>12. PayloadOf(t)'
  <2>1. SUFFICES ASSUME ~overlap' PROVE
             /\ c.pc = "fill2" => data'[c.buf][1] = t
             /\ c.pc \in {"lock", "header", "send"} => data'[c.buf] = <<t, t>>
    BY <1>2 DEF PayloadOf
  <2>2. /\ c.buf = call[t].buf /\ c.buf \in Blocks
        /\ Usable(call[t].buf, call[t].sz) /\ ~overlap
    BY <1>3, <1>4, <1>5, <2>1
  <2>3. PICK x \in Half, y \in Half : data[c.buf] = <<x, y>>
    BY <1>6, <2>2
  <2>4. CASE call[t].pc = "fill1"
    <3>1. data'[c.buf] = [data[c.buf] EXCEPT ![1] = t]
      BY <1>6, <2>2, <2>4
    <3>2. QED
      BY <2>3, <2>4, <3>1
  <2>5. CASE call[t].pc = "fill2"
    <3>1. data'[c.buf] = [data[c.buf] EXCEPT ![2] = t] /\ data[c.buf][1] = t
      BY <1>1, <1>6, <2>2, <2>5 DEF Owned, PayloadOf
    <3>2. QED
      BY <2>3, <2>5, <3>1
  <2>6. CASE call[t].pc \in {"lock", "header"}
    BY <1>1, <2>2, <2>6 DEF Owned, PayloadOf
  <2>7. QED
    BY <2>4, <2>5, <2>6
<1>13. MisuseNeedsOverlap'
  <2>1. misused' => grown'
    <3>1. CASE misused' = misused
      BY <1>1, <1>3, <3>1 DEF MisuseNeedsOverlap
    <3>2. CASE misused' = (misused \/ ~Usable(call[t].buf, call[t].sz))
      BY <1>1, <1>3, <1>4, <3>2 DEF MisuseNeedsOverlap
    <3>3. QED
      BY <3>1, <3>2
  <2>2. torn' => overlap'
    BY <1>1, <1>3 DEF MisuseNeedsOverlap
  <2>3. QED
    BY <2>1, <2>2 DEF MisuseNeedsOverlap
<1>14. /\ call[t].pc \notin Growing /\ call'[t].pc \in Lent
  BY <1>2 DEF Growing, Lent, Filling
<1>15. QED
  BY <1>2, <1>8, <1>9, <1>10, <1>11, <1>12, <1>13, <1>14, PromiseKept, PoolStepKeeps DEF Owned

(* A thread's record, moved on. *)
LEMMA PoolFill ==
    ASSUME PoolInv, NEW t \in Thread, NEW pc \in {"fill2", "lock", "header", "send"}
    PROVE  LET c == [call[t] EXCEPT !.pc = pc]
           IN  /\ c \in Call /\ c.pc = pc /\ c.sz = call[t].sz
               /\ c.buf = call[t].buf /\ c.tmp = call[t].tmp
<1>1. call[t] \in Call
  BY DEF PoolInv, PoolType, TypeOf
<1>2. pc \in Lent
  BY DEF Lent
<1>3. QED
  BY <1>1, <1>2 DEF Call

(* The end of a send: only here is the payload read. *)
LEMMA Sent ==
    ASSUME NEW t \in Thread, PoolInv, SendPkt(t)
    PROVE  PoolInv'
<1>1. PoolType /\ PoolHistory /\ MisuseNeedsOverlap /\ Owned(t)
  BY DEF PoolInv
<1>2. StepOf(t) /\ call'[t] = Idle
  BY <1>1, GoIsAStep DEF SendPkt
<1>3. /\ call'[t].pc = "idle" /\ call'[t].tmp = 0 /\ call'[t].buf = 0 /\ call'[t] \in Call
  BY <1>2 DEF Idle, NULL, Call
<1>4. call[t].pc = "send" /\ UNCHANGED <<m_buf, m_capacity, size, data, freed>>
  BY DEF SendPkt
<1>5. BlocksType' /\ Blocks' = Blocks /\ TypeOf(t)'
  BY <1>1, <1>3, <1>4 DEF PoolType, BlocksType, TypeOf, Blocks
<1>6. Owned(t)'
  BY <1>3 DEF Owned, CapacityOf, LoanOf, PayloadOf, Filling, Growing
<1>7. /\ overlap => overlap'
      /\ grown => grown'
      /\ ~overlap => ~grown
  BY <1>1, <1>2, StepHistory DEF PoolHistory
<1>8. MisuseNeedsOverlap'
  <2>1. /\ ~grown => Usable(call[t].buf, call[t].sz)
        /\ ~overlap => data[call[t].buf] = <<t, t>>
    BY <1>1, <1>4 DEF Owned, LoanOf, PayloadOf, Filling
  <2>2. misused' => grown'
    BY <1>1, <1>7, <2>1 DEF SendPkt, MisuseNeedsOverlap
  <2>3. torn' => overlap'
    BY <1>1, <1>7, <2>1 DEF SendPkt, MisuseNeedsOverlap
  <2>4. QED
    BY <2>2, <2>3 DEF MisuseNeedsOverlap
<1>9. call[t].pc \notin Growing /\ call[t].pc \in Lent
  BY <1>4 DEF Growing, Lent
<1>10. QED
  BY <1>2, <1>4, <1>5, <1>6, <1>8, <1>9, PromiseKept, PoolStepKeeps

(* The capacity suffices, and the block with it; or it is raised first. *)
LEMMA Allocated ==
    ASSUME Slack \in Nat, NEW t \in Thread, PoolInv, Alloc(t)
    PROVE  PoolInv'
<1>1. /\ PoolType /\ PoolHistory /\ CapacityInv /\ MisuseNeedsOverlap
      /\ Owned(t) /\ TypeOf(t)
  BY DEF PoolInv, PoolType
<1>2. /\ call[t].pc = "alloc" /\ call[t] \in Call /\ call[t].sz > 0 /\ call[t].tmp = 0
      /\ call[t].sz \in Nat /\ m_capacity \in Nat
      /\ UNCHANGED <<m_buf, size, data, freed, torn, misused>>
  BY <1>1 DEF Alloc, TypeOf, Call, PoolType, BlocksType
<1>3. call[t].pc \notin Growing /\ call[t].pc \in Lent
  BY <1>2 DEF Growing, Lent
<1>4. CASE ~(call[t].sz > m_capacity)
  <2>1. m_capacity' = m_capacity /\ Go(t, [call[t] EXCEPT !.pc = "return"])
    BY <1>4 DEF Alloc
  <2>2. StepOf(t) /\ call'[t] = [call[t] EXCEPT !.pc = "return"]
    BY <1>1, <2>1, GoIsAStep
  <2>3. /\ call'[t] \in Call /\ call'[t].pc = "return" /\ call'[t].sz = call[t].sz
        /\ call'[t].tmp = 0 /\ call'[t].buf = call[t].buf
    BY <1>2, <2>2 DEF Call, Lent
  <2>4. BlocksType' /\ Blocks' = Blocks
    BY <1>1, <1>2, <2>1 DEF PoolType, BlocksType, Blocks
  <2>5. TypeOf(t)'
    BY <1>1, <1>2, <2>3, <2>4 DEF TypeOf
  <2>6. LoanOf(t)'
    <3>1. SUFFICES ASSUME ~grown' PROVE Usable(m_buf, call[t].sz)
      BY <1>2, <2>3 DEF LoanOf, Filling, Usable
    <3>2. ~two_grow /\ ~grown
      BY <1>1, <2>2, <3>1, StepHistory DEF PoolHistory
    <3>3. ~OneGrowing
      <4>1. call'[t].pc \in Lent
        BY <2>3 DEF Lent
      <4>2. ASSUME NEW u \in Thread, call[u].pc \in Growing PROVE FALSE
        <5>1. u \in Thread \ {t} /\ call'[u] = call[u]
          BY <1>1, <1>3, <2>2, <4>2, StepHistory
        <5>2. AllLent' /\ OneGrowing'
          <6>1. \A v \in Thread : v = t \/ v = u
            BY <5>1 DEF Thread
          <6>2. call'[u].pc \in Growing /\ call'[u].pc \in Lent
            BY <4>2, <5>1 DEF Lent
          <6>3. QED
            BY <4>1, <6>1, <6>2 DEF AllLent, OneGrowing
        <5>3. QED
          BY <2>2, <3>1, <5>2 DEF StepOf
      <4>3. QED
        BY <4>2 DEF OneGrowing
    <3>4. Promise
      BY <1>1, <3>2, <3>3 DEF CapacityInv
    <3>5. Usable(m_buf, m_capacity)
      BY <1>2, <1>4, <3>4 DEF Promise
    <3>6. m_buf \in Blocks /\ size[m_buf] \in Nat
      <4>1. size \in Seq(Nat) /\ m_buf \in Blocks
        BY <1>1, <3>5 DEF PoolType, BlocksType, Usable, NULL
      <4>2. QED
        BY <4>1 DEF Blocks
    <3>7. QED
      BY <1>2, <1>4, <3>5, <3>6 DEF Usable
  <2>7. Owned(t)'
    BY <2>3, <2>6 DEF Owned, CapacityOf, PayloadOf, Growing
  <2>8. MisuseNeedsOverlap'
    BY <1>1, <1>2, <2>2, StepHistory DEF MisuseNeedsOverlap
  <2>9. QED
    BY <1>2, <1>3, <2>1, <2>2, <2>4, <2>5, <2>7, <2>8, PromiseKept, PoolStepKeeps
<1>5. CASE call[t].sz > m_capacity
  <2> DEFINE more == (17 * m_capacity) \div 16 + Slack
             capacity == IF more > call[t].sz THEN more ELSE call[t].sz
  <2>1. /\ m_capacity' = capacity
        /\ Go(t, [call[t] EXCEPT !.pc = "malloc", !.capacity = capacity])
    BY <1>5 DEF Alloc
  <2>2. capacity \in Nat /\ capacity >= call[t].sz
    <3>1. (17 * m_capacity) \div 16 \in Nat
      BY <1>2
    <3>2. QED
      BY <1>2, <3>1
  <2> HIDE DEF capacity
  <2>3. StepOf(t) /\ call'[t] = [call[t] EXCEPT !.pc = "malloc", !.capacity = capacity]
    BY <1>1, <2>1, GoIsAStep
  <2>4. /\ call'[t] \in Call /\ call'[t].pc = "malloc" /\ call'[t].sz = call[t].sz
        /\ call'[t].tmp = 0 /\ call'[t].buf = call[t].buf /\ call'[t].capacity = capacity
    <3>1. "malloc" \in Lent
      BY DEF Lent, Growing
    <3>2. QED
      BY <1>2, <2>2, <2>3, <3>1 DEF Call
  <2>5. BlocksType' /\ Blocks' = Blocks
    BY <1>1, <1>2, <2>1, <2>2 DEF PoolType, BlocksType, Blocks
  <2>6. TypeOf(t)'
    BY <1>1, <1>2, <2>4, <2>5 DEF TypeOf
  <2>7. call'[t].pc \in Growing
    BY <2>4 DEF Growing
  <2>8. CapacityOf(t)'
    <3>1. SUFFICES ASSUME ~two_grow' PROVE m_buf' = 0 \/ Live(m_buf)'
      BY <2>1, <2>2, <2>4 DEF CapacityOf, Growth1
    <3>2. ~two_grow /\ \A u \in Thread \ {t} : call[u].pc \notin Growing
      BY <1>1, <2>3, <2>7, <3>1, StepHistory
    <3>3. ~OneGrowing
      BY <1>3, <3>2 DEF OneGrowing
    <3>4. Promise
      BY <1>1, <3>2, <3>3 DEF CapacityInv
    <3>5. QED
      BY <1>1, <1>2, <3>4 DEF Promise, Live, Blocks, PoolType, BlocksType, Usable, NULL
  <2>9. Owned(t)'
    BY <2>4, <2>8 DEF Owned, LoanOf, PayloadOf, Filling
  <2>10. MisuseNeedsOverlap'
    BY <1>1, <1>2, <2>3, StepHistory DEF MisuseNeedsOverlap
  <2>11. QED
    BY <1>3, <2>3, <2>5, <2>6, <2>7, <2>9, <2>10, PoolStepKeeps
<1>6. QED
  BY <1>4, <1>5

(* A block of its own; the ones there were stay what they are. *)
LEMMA Malloced ==
    ASSUME NEW t \in Thread, NEW reread \in BOOLEAN, PoolInv, Malloc(t, reread)
    PROVE  PoolInv'
<1> DEFINE block == Len(size) + 1
           capacity == IF reread THEN m_capacity ELSE call[t].capacity
           c == [call[t] EXCEPT !.pc = "free", !.tmp = block]
<1>1. /\ PoolType /\ PoolHistory /\ MisuseNeedsOverlap
      /\ Owned(t) /\ TypeOf(t) /\ BlocksType
  BY DEF PoolInv, PoolType
<1>2. /\ call[t].pc = "malloc"
      /\ size' = Append(size, capacity) /\ data' = Append(data, <<"", "">>)
      /\ Go(t, c)
      /\ UNCHANGED <<m_buf, m_capacity, freed, torn, misused>>
  BY DEF Malloc
<1>3. StepOf(t) /\ call'[t] = c
  BY <1>1, <1>2, GoIsAStep
<1>4. /\ size \in Seq(Nat) /\ Blocks = 1..Len(size) /\ Len(size) \in Nat
      /\ data \in Seq(Half \X Half) /\ DOMAIN data = Blocks /\ freed \subseteq Blocks
      /\ m_buf \in Blocks \cup {0} /\ m_capacity \in Nat
  BY <1>1 DEF BlocksType, Blocks
<1>5. capacity \in Nat /\ call[t] \in Call
  BY <1>1, <1>4 DEF TypeOf, Call
<1> HIDE DEF capacity
<1>6. /\ size' \in Seq(Nat) /\ Len(size') = block /\ size'[block] = capacity
      /\ Blocks' = 1..block /\ \A x \in Blocks : size'[x] = size[x]
  <2>1. /\ size' \in Seq(Nat) /\ Len(size') = block /\ size'[block] = capacity
        /\ \A x \in 1..Len(size) : size'[x] = size[x]
    <3>1. size' = Append(size, capacity)
      BY <1>2
    <3>2. QED
      BY <1>4, <1>5, <3>1
  <2>2. DOMAIN size' = 1..block
    BY <2>1
  <2>3. QED
    BY <1>4, <2>1, <2>2 DEF Blocks
<1>7. Blocks \subseteq Blocks' /\ block \notin Blocks /\ block # 0 /\ block \in Blocks'
  BY <1>4, <1>6
<1>8. BlocksType'
  <2>1. <<"", "">> \in Half \X Half
    BY DEF Half
  <2>2. Len(data) = Len(size)
    BY <1>4
  <2>3. data' \in Seq(Half \X Half) /\ DOMAIN data' = 1..block
    <3>1. data' \in Seq(Half \X Half) /\ Len(data') = block
      <4>1. data' = Append(data, <<"", "">>)
        BY <1>2
      <4>2. QED
        <5> DEFINE e == <<"", "">>
                   H == Half \X Half
        <5>1. data \in Seq(H) /\ e \in H /\ data' = Append(data, e)
          BY <1>4, <2>1, <4>1
        <5> HIDE DEF e, H
        <5>2. data' \in Seq(H) /\ Len(data') = Len(data) + 1
          BY <5>1
        <5>3. QED
          BY <2>2, <5>2 DEF H
    <3>2. QED
      BY <3>1
  <2>4. QED
    BY <1>2, <1>4, <1>6, <1>7, <2>3 DEF BlocksType
<1>9. /\ c \in Call /\ c.pc = "free" /\ c.tmp = block /\ c.sz = call[t].sz
      /\ c.capacity = call[t].capacity /\ c.buf = call[t].buf
  <2>1. "free" \in Lent /\ block \in Nat
    BY <1>4 DEF Lent, Growing
  <2>2. QED
    BY <1>5, <2>1 DEF Call
<1> HIDE DEF c, block
<1>10. TypeOf(t)'
  BY <1>1, <1>2, <1>3, <1>7, <1>9 DEF TypeOf
<1>11. call[t].pc \in Growing /\ call'[t].pc \in Growing /\ call[t].pc \in Lent
  BY <1>2, <1>3, <1>9 DEF Growing, Lent
<1>12. CapacityOf(t)'
  <2>1. SUFFICES ASSUME ~two_grow' PROVE Growth1(t)'
    BY DEF CapacityOf
  <2>2. ~two_grow
    BY <1>1, <1>3, <2>1, StepHistory
  <2>3. Growth1(t)
    BY <1>1, <1>11, <2>2 DEF Owned, CapacityOf
  <2>4. capacity = m_capacity
    BY <2>3 DEF Growth1, capacity
  <2>5. size'[block] = m_capacity /\ block \notin freed'
    BY <1>2, <1>4, <1>6, <1>7, <2>4
  <2>6. Usable(call[t].tmp, m_capacity)'
    <3>1. call'[t].tmp = block /\ m_capacity' = m_capacity /\ m_capacity \in Nat
      BY <1>2, <1>3, <1>4, <1>9
    <3>2. QED
      BY <1>7, <2>5, <3>1 DEF Usable, NULL
  <2>7. m_buf # block /\ (m_buf = 0 \/ Live(m_buf)')
    BY <1>2, <1>4, <1>7, <2>3 DEF Growth1, Live
  <2>8. QED
    <3>1. /\ call'[t].tmp = block /\ call'[t].pc = "free" /\ call'[t].sz = call[t].sz
          /\ call'[t].capacity = call[t].capacity
          /\ m_capacity' = m_capacity /\ m_buf' = m_buf
      BY <1>2, <1>3, <1>9
    <3>2. QED
      BY <2>3, <2>6, <2>7, <3>1 DEF Growth1
<1>13. Owned(t)'
  BY <1>3, <1>9, <1>12 DEF Owned, LoanOf, PayloadOf, Filling
<1>14. MisuseNeedsOverlap'
  BY <1>1, <1>2, <1>3, StepHistory DEF MisuseNeedsOverlap
<1>15. QED
  BY <1>3, <1>7, <1>8, <1>10, <1>11, <1>13, <1>14, PoolStepKeeps

(* The steps of a thread that grows the pool, after malloc. *)
LEMMA GrowthStep ==
    ASSUME NEW t \in Thread, PoolInv,
           FreeOld(t) \/ ClearBuf(t) \/ AssignBuf(t)
    PROVE  PoolInv'
<1>1. /\ PoolType /\ PoolHistory /\ MisuseNeedsOverlap
      /\ Owned(t) /\ TypeOf(t) /\ BlocksType
  BY DEF PoolInv, PoolType
<1>2. call[t] \in Call /\ UNCHANGED <<m_capacity, size, data, torn>> /\ Blocks' = Blocks
  BY <1>1 DEF TypeOf, FreeOld, ClearBuf, AssignBuf, Blocks
<1>3. \/ Go(t, [call[t] EXCEPT !.pc = "clear"])
      \/ Go(t, [call[t] EXCEPT !.pc = "assign"])
      \/ Go(t, [call[t] EXCEPT !.pc = "return"])
  BY DEF FreeOld, ClearBuf, AssignBuf
<1>4. /\ StepOf(t)
      /\ \/ call'[t] = [call[t] EXCEPT !.pc = "clear"]
         \/ call'[t] = [call[t] EXCEPT !.pc = "assign"]
         \/ call'[t] = [call[t] EXCEPT !.pc = "return"]
  BY <1>1, <1>3, GoIsAStep
<1> DEFINE pc == call'[t].pc
<1>5. /\ call'[t] \in Call /\ pc \in {"clear", "assign", "return"} /\ call'[t].sz = call[t].sz
      /\ call'[t].tmp = call[t].tmp /\ call'[t].buf = call[t].buf
      /\ call'[t].capacity = call[t].capacity
  <2>1. {"clear", "assign", "return"} \subseteq Lent
    BY DEF Lent, Growing
  <2>2. QED
    BY <1>2, <1>4, <2>1 DEF Call
<1>6. /\ overlap => overlap'
      /\ grown => grown'
      /\ two_grow => two_grow'
      /\ two_grow => grown
      /\ two_grow' => grown'
  BY <1>1, <1>4, StepHistory DEF PoolHistory
<1>7. call[t].pc \in {"free", "clear", "assign"} /\ call[t].pc \in Growing
  BY DEF FreeOld, ClearBuf, AssignBuf, Growing
<1>8. ~two_grow => Growth1(t) /\ Usable(call[t].tmp, m_capacity)
  BY <1>1, <1>7 DEF Owned, CapacityOf, Growth1
<1>9. BlocksType'
  BY <1>1, <1>2 DEF BlocksType, TypeOf, FreeOld, ClearBuf, AssignBuf, NULL
<1>10. TypeOf(t)'
  BY <1>1, <1>2, <1>5, <1>7 DEF TypeOf
<1>11. Promise' \/ call'[t].pc \in Growing \/ two_grow'
  <2>1. CASE AssignBuf(t)
    <3>1. m_buf' = call[t].tmp /\ freed' = freed
      BY <2>1 DEF AssignBuf
    <3>2. QED
      BY <1>2, <1>6, <1>8, <3>1 DEF Promise, Usable
  <2>2. CASE FreeOld(t) \/ ClearBuf(t)
    <3>1. \/ Go(t, [call[t] EXCEPT !.pc = "clear"])
          \/ Go(t, [call[t] EXCEPT !.pc = "assign"])
      BY <2>2 DEF FreeOld, ClearBuf
    <3>2. \/ call'[t] = [call[t] EXCEPT !.pc = "clear"]
          \/ call'[t] = [call[t] EXCEPT !.pc = "assign"]
      BY <1>1, <3>1, GoIsAStep
    <3>3. QED
      BY <1>2, <3>2 DEF Call, Growing
  <2>3. QED
    BY <2>1, <2>2
<1>12. CapacityOf(t)'
  <2>1. SUFFICES ASSUME ~two_grow', pc \in {"clear", "assign"} PROVE Growth1(t)'
    BY <1>5 DEF CapacityOf, Growing
  <2>2. /\ call[t].capacity >= call[t].sz /\ m_capacity = call[t].capacity
        /\ Usable(call[t].tmp, m_capacity)
        /\ call[t].pc = "free" => m_buf # call[t].tmp
    BY <1>6, <1>8, <2>1 DEF Growth1
  <2>3. Usable(call[t].tmp, m_capacity)' /\ (pc = "clear" => m_buf' # call[t].tmp)
    <3>1. CASE FreeOld(t)
      <4>1. /\ call[t].pc = "free" /\ m_buf' = m_buf
            /\ freed' = freed \/ freed' = freed \cup {m_buf}
        BY <3>1 DEF FreeOld
      <4>2. QED
        BY <1>2, <1>5, <2>2, <4>1 DEF Usable
    <3>2. CASE ClearBuf(t)
      <4>1. m_buf' = 0 /\ freed' = freed
        BY <3>2 DEF ClearBuf, NULL
      <4>2. QED
        BY <1>2, <1>5, <2>2, <4>1 DEF Usable, NULL
    <3>3. CASE AssignBuf(t)
      <4>1. Go(t, [call[t] EXCEPT !.pc = "return"])
        BY <3>3 DEF AssignBuf
      <4>2. call'[t] = [call[t] EXCEPT !.pc = "return"]
        BY <1>1, <4>1, GoIsAStep
      <4>3. QED
        BY <1>2, <1>5, <2>1, <4>2 DEF Call
    <3>4. QED
      BY <3>1, <3>2, <3>3
  <2>4. QED
    BY <1>2, <1>5, <2>1, <2>2, <2>3 DEF Growth1
<1>13. LoanOf(t)'
  <2>1. SUFFICES ASSUME ~grown', pc = "return"
                 PROVE  Usable(m_buf, call[t].sz)' /\ call[t].tmp \in {0, m_buf'}
    BY <1>2, <1>5 DEF LoanOf, Usable, Filling
  <2>2. AssignBuf(t)
    <3>1. SUFFICES ASSUME FreeOld(t) \/ ClearBuf(t) PROVE FALSE
      OBVIOUS
    <3>2. call'[t].pc \in Growing
      <4>1. \/ Go(t, [call[t] EXCEPT !.pc = "clear"])
            \/ Go(t, [call[t] EXCEPT !.pc = "assign"])
        BY <3>1 DEF FreeOld, ClearBuf
      <4>2. \/ call'[t] = [call[t] EXCEPT !.pc = "clear"]
            \/ call'[t] = [call[t] EXCEPT !.pc = "assign"]
        BY <1>1, <4>1, GoIsAStep
      <4>3. QED
        BY <1>2, <4>2 DEF Call, Growing
    <3>3. QED
      BY <1>5, <2>1, <3>2 DEF Growing
  <2>3. m_buf' = call[t].tmp /\ freed' = freed
    BY <2>2 DEF AssignBuf
  <2>4. /\ Usable(call[t].tmp, m_capacity)
        /\ call[t].capacity >= call[t].sz /\ m_capacity = call[t].capacity
    BY <1>6, <1>8, <2>1 DEF Growth1
  <2>5. call[t].tmp \in Blocks /\ size[call[t].tmp] \in Nat
    <3>1. size \in Seq(Nat) /\ call[t].tmp \in Blocks
      BY <1>1, <2>4 DEF TypeOf, BlocksType, Usable, NULL
    <3>2. QED
      BY <3>1 DEF Blocks
  <2>6. call[t].capacity \in Nat /\ call[t].sz \in Nat
    BY <1>2 DEF Call
  <2>7. QED
    BY <1>2, <1>5, <2>3, <2>4, <2>5, <2>6 DEF Usable
<1>14. Owned(t)'
  BY <1>5, <1>12, <1>13 DEF Owned, PayloadOf
<1>15. MisuseNeedsOverlap'
  <2>1. torn' => overlap'
    BY <1>1, <1>2, <1>6 DEF MisuseNeedsOverlap
  <2>2. misused' => grown'
    <3>1. CASE misused' = misused
      BY <1>1, <1>6, <3>1 DEF MisuseNeedsOverlap
    <3>2. CASE misused' = (misused \/ m_buf \in freed) /\ call[t].pc = "free" /\ m_buf # 0
      <4>1. ~grown' => m_buf \notin freed
        BY <1>6, <1>8, <3>2 DEF Growth1, Live
      <4>2. QED
        BY <1>1, <1>6, <3>2, <4>1 DEF MisuseNeedsOverlap
    <3>3. QED
      BY <3>1, <3>2 DEF FreeOld, ClearBuf, AssignBuf, NULL
  <2>3. QED
    BY <2>1, <2>2 DEF MisuseNeedsOverlap
<1>16. call[t].pc \in Lent
  BY <1>7 DEF Lent
<1>17. QED
  <2>1. Blocks \subseteq Blocks'
    BY <1>2
  <2>2. call'[t].pc \in Growing \/ (~two_grow' /\ ~OneGrowing' => Promise')
    BY <1>11
  <2>3. QED
    BY <1>4, <1>7, <1>9, <1>10, <1>14, <1>15, <1>16, <2>1, <2>2, PoolStepKeeps

(* alloc returns the block the loan is of. *)
LEMMA Returned ==
    ASSUME NEW t \in Thread, NEW reread \in BOOLEAN, PoolInv, ReturnBuf(t, reread)
    PROVE  PoolInv'
<1> DEFINE buf == IF reread \/ call[t].tmp = 0 THEN m_buf ELSE call[t].tmp
           c == [call[t] EXCEPT !.pc = "fill1", !.buf = buf, !.tmp = 0, !.capacity = 0]
<1>1. /\ PoolType /\ PoolHistory /\ MisuseNeedsOverlap
      /\ Owned(t) /\ TypeOf(t) /\ BlocksType
  BY DEF PoolInv, PoolType
<1>2. /\ call[t].pc = "return" /\ Go(t, c)
      /\ UNCHANGED <<m_buf, m_capacity, size, data, freed, torn, misused>>
  BY DEF ReturnBuf, NULL
<1>3. StepOf(t) /\ call'[t] = c
  BY <1>1, <1>2, GoIsAStep
<1>4. call[t] \in Call /\ buf \in Blocks \cup {0} /\ buf \in Nat /\ size \in Seq(Nat)
  BY <1>1 DEF TypeOf, BlocksType, Blocks
<1>5. ~grown => Usable(buf, call[t].sz)
  BY <1>1, <1>2 DEF Owned, LoanOf
<1> HIDE DEF buf
<1>6. /\ c \in Call /\ c.pc = "fill1" /\ c.buf = buf /\ c.tmp = 0 /\ c.sz = call[t].sz
  <2>1. "fill1" \in Lent
    BY DEF Lent
  <2>2. QED
    BY <1>4, <2>1 DEF Call
<1> HIDE DEF c
<1>7. BlocksType' /\ Blocks' = Blocks
  BY <1>1, <1>2 DEF BlocksType, Blocks
<1>8. TypeOf(t)'
  BY <1>1, <1>2, <1>3, <1>4, <1>6, <1>7 DEF TypeOf
<1>9. Owned(t)'
  <2>1. grown => grown'
    BY <1>1, <1>3, StepHistory
  <2>2. LoanOf(t)'
    BY <1>2, <1>3, <1>5, <1>6, <2>1 DEF LoanOf, Usable
  <2>3. QED
    BY <1>3, <1>6, <2>2 DEF Owned, CapacityOf, PayloadOf, Growing
<1>10. MisuseNeedsOverlap'
  BY <1>1, <1>2, <1>3, StepHistory DEF MisuseNeedsOverlap
<1>11. call[t].pc \notin Growing /\ call[t].pc \in Lent
  BY <1>2 DEF Growing, Lent
<1>12. QED
  BY <1>2, <1>3, <1>7, <1>8, <1>9, <1>10, <1>11, PromiseKept, PoolStepKeeps

LEMMA PoolStarts == PoolInit => PoolInv
<1> SUFFICES ASSUME PoolInit PROVE PoolInv
  OBVIOUS
<1>1. \A t \in Thread : call[t] = Idle
  BY DEF PoolInit
<1>2. /\ Idle \in Call /\ Idle.pc = "idle"
      /\ Idle.tmp = 0 /\ Idle.buf = 0
  BY DEF Idle, NULL, Call
<1>3. call \in [Thread -> Call]
  BY <1>2 DEF PoolInit
<1>4. BlocksType
  BY DEF PoolInit, BlocksType, Blocks, NULL
<1>5. \A t \in Thread : TypeOf(t)
  BY <1>1, <1>2 DEF TypeOf
<1>6. "idle" \notin Lent /\ "idle" \notin Growing /\ "video" \in Thread
  BY DEF Lent, Growing, Thread
<1>7. ~AllLent /\ ~AllGrowing /\ ~OneGrowing
  BY <1>1, <1>2, <1>6 DEF AllLent, AllGrowing, OneGrowing
<1>8. PoolHistory /\ CapacityInv
  BY <1>7 DEF PoolHistory, CapacityInv, Promise, PoolInit, NULL
<1>9. \A t \in Thread : Owned(t)
  BY <1>1, <1>2, <1>6 DEF Owned, CapacityOf, LoanOf, PayloadOf, Filling
<1>10. MisuseNeedsOverlap
  BY DEF MisuseNeedsOverlap, PoolInit
<1>11. {overlap, grown, two_grow} \subseteq BOOLEAN
  BY DEF PoolInit
<1>12. QED
  BY <1>3, <1>4, <1>5, <1>8, <1>9, <1>10, <1>11 DEF PoolInv, PoolType

LEMMA PoolSteps ==
    ASSUME PoolInv, [PoolNext]_poolVars
    PROVE  PoolInv'
<1>1. CASE UNCHANGED poolVars
  <2>1. UNCHANGED <<m_buf, m_capacity, size, data, freed, call, torn, misused,
                    overlap, grown, two_grow>>
    BY <1>1 DEF poolVars
  <2>2. Blocks' = Blocks /\ AllLent' = AllLent /\ AllGrowing' = AllGrowing
        /\ OneGrowing' = OneGrowing
    BY <2>1 DEF Blocks, AllLent, AllGrowing, OneGrowing
  <2>3. PoolType' /\ PoolHistory' /\ CapacityInv' /\ MisuseNeedsOverlap'
    BY <2>1, <2>2 DEF PoolInv, PoolType, BlocksType, TypeOf, PoolHistory, CapacityInv, Promise,
                      Usable, MisuseNeedsOverlap
  <2>4. \A t \in Thread : Owned(t)'
    BY <2>1, <2>2 DEF PoolInv, Owned, CapacityOf, Growth1, LoanOf, PayloadOf, Live, Usable
  <2>5. QED
    BY <2>3, <2>4 DEF PoolInv
<1>2. CASE PoolNext
  <2>1. "audio" \in Thread /\ "video" \in Thread /\ Slack \in Nat /\ MaxSize \in Nat
    BY PoolAssumption DEF Thread
  <2>2. ASSUME NEW sz \in 1..MaxSize, SendVideo(sz) PROVE PoolInv'
    <3>1. sz \in Nat /\ sz > 0
      BY <2>1
    <3>2. /\ call["video"] = Idle
          /\ Go("video", [Idle EXCEPT !.pc = "alloc", !.sz = sz])
          /\ UNCHANGED <<m_buf, m_capacity, size, data, freed, torn, misused>>
      BY <2>2 DEF SendVideo
    <3>3. QED
      BY <2>1, <3>1, <3>2, SendBegins
  <2>3. ASSUME NEW sz \in 1..MaxSize, SendAudio(sz) PROVE PoolInv'
    <3>1. sz \in Nat /\ sz > 0
      BY <2>1
    <3>2. /\ call["audio"] = Idle
          /\ Go("audio", [Idle EXCEPT !.pc = "alloc", !.sz = sz])
          /\ UNCHANGED <<m_buf, m_capacity, size, data, freed, torn, misused>>
      BY <2>3 DEF SendAudio
    <3>3. QED
      BY <2>1, <3>1, <3>2, SendBegins
  <2>4. CASE LockVideo
    <3> DEFINE c == [call["video"] EXCEPT !.pc = "header"]
    <3>1. /\ call["video"].pc = "lock" /\ Go("video", c)
          /\ UNCHANGED <<m_buf, m_capacity, size, data, freed, torn, misused>>
      BY <2>4 DEF LockVideo
    <3>2. /\ c \in Call /\ c.pc = "header" /\ c.sz = call["video"].sz
          /\ c.buf = call["video"].buf /\ c.tmp = call["video"].tmp
      BY <2>1, PoolFill
    <3> HIDE DEF c
    <3>3. call["video"].pc \in Filling
      BY <3>1 DEF Filling
    <3>4. QED
      BY <2>1, <3>1, <3>2, <3>3, Filled
  <2>5. CASE MakeVideoBody
    <3> DEFINE c == [call["video"] EXCEPT !.pc = "send"]
    <3>1. /\ call["video"].pc = "header" /\ Go("video", c)
          /\ misused' = (misused \/ ~Usable(call["video"].buf, call["video"].sz))
          /\ UNCHANGED <<m_buf, m_capacity, size, data, freed, torn>>
      BY <2>5 DEF MakeVideoBody
    <3>2. /\ c \in Call /\ c.pc = "send" /\ c.sz = call["video"].sz
          /\ c.buf = call["video"].buf /\ c.tmp = call["video"].tmp
      BY <2>1, PoolFill
    <3> HIDE DEF c
    <3>3. call["video"].pc \in Filling
      BY <3>1 DEF Filling
    <3>4. QED
      BY <2>1, <3>1, <3>2, <3>3, Filled
  <2>6. ASSUME NEW t \in Thread, Fill(t) PROVE PoolInv'
    <3> DEFINE next_pc == IF call[t].pc = "fill1" THEN "fill2"
                          ELSE IF t = "video" THEN "lock" ELSE "send"
               c == [call[t] EXCEPT !.pc = next_pc]
               usable == Usable(call[t].buf, call[t].sz)
               half == IF call[t].pc = "fill1" THEN 1 ELSE 2
    <3>1. /\ call[t].pc \in {"fill1", "fill2"}
          /\ misused' = (misused \/ ~usable)
          /\ data' = IF usable THEN [data EXCEPT ![call[t].buf][half] = t] ELSE data
          /\ UNCHANGED <<m_buf, m_capacity, size, freed, torn>>
      BY <2>6 DEF Fill
    <3>2. Go(t, c)
      BY <2>6 DEF Fill
    <3>3. next_pc \in {"fill2", "lock", "send"}
      OBVIOUS
    <3> HIDE DEF next_pc
    <3>4. /\ c \in Call /\ c.pc = next_pc /\ c.sz = call[t].sz
          /\ c.buf = call[t].buf /\ c.tmp = call[t].tmp
      <4>1. call[t] \in Call
        BY DEF PoolInv, PoolType, TypeOf
      <4>2. next_pc \in Lent
        BY <3>3 DEF Lent
      <4>3. QED
        BY <4>1, <4>2 DEF Call
    <3>5. \/ call[t].pc = "fill1" /\ c.pc = "fill2"
          \/ call[t].pc = "fill2" /\ c.pc \in {"lock", "send"}
      BY <3>1, <3>4 DEF next_pc
    <3>6. call[t].pc \in Filling
      BY <3>1 DEF Filling
    <3>7. data' = IF call[t].pc \in {"fill1", "fill2"} /\ Usable(call[t].buf, call[t].sz)
                  THEN [data EXCEPT ![call[t].buf][IF call[t].pc = "fill1" THEN 1 ELSE 2] = t]
                  ELSE data
      BY <3>1
    <3>8. misused' = (misused \/ ~Usable(call[t].buf, call[t].sz))
      BY <3>1
    <3>9. UNCHANGED <<m_buf, m_capacity, size, freed, torn>>
      BY <3>1
    <3> HIDE DEF c, usable, half
    <3>10. QED
      BY <2>6, <3>2, <3>4, <3>5, <3>6, <3>7, <3>8, <3>9, Filled
  <2>7. QED
    BY <1>2, <2>1, <2>2, <2>3, <2>4, <2>5, <2>6, Allocated, Malloced, GrowthStep, Returned, Sent
       DEF PoolNext
<1>3. QED
  BY <1>1, <1>2

(* The pool keeps its inductive invariant. *)
THEOREM PoolInvariance == PoolSpec => []PoolInv
<1>1. PoolInv /\ [PoolNext]_poolVars => PoolInv'
  BY PoolSteps
<1>2. QED
  BY <1>1, PoolStarts, PTL DEF PoolSpec

(* xutil.cpp MemHolder::alloc, under send_video and send_audio: a payload  *)
(* holds another's bytes only after both threads had the block lent, and a *)
(* missing, freed or short block is used only if the pool grew meanwhile.  *)
THEOREM MisuseExplained == PoolSpec => []MisuseNeedsOverlap
<1>1. PoolInv => MisuseNeedsOverlap
  BY DEF PoolInv
<1>2. QED
  BY <1>1, PoolInvariance, PTL

(* m_capacity promises no more than the block has, unless both threads     *)
(* once grew the pool at the same time.                                    *)
THEOREM CapacityTrue == PoolSpec => []CapacityTrueUnlessTwoGrow
<1>1. PoolInv => CapacityTrueUnlessTwoGrow
  BY DEF PoolInv, CapacityInv, OneGrowing, Promise, CapacityTrueUnlessTwoGrow, NULL
<1>2. QED
  BY <1>1, PoolInvariance, PTL
-----------------------------------------------------------------------------
(* RacingSends: where each rebase has got to, what it has read that is     *)
(* still so, and where that leaves the last video packet.                  *)

(* What a thread has read, and its send. *)
Seen == UNION {[D -> Int] : D \in SUBSET Field}
Aligning == {"read", "align", "align_write", "add", "add_write"}
Sending == [pc : {"idle", "cfg", "lts", "send"} \cup Aligning, ts : Nat, new : BOOLEAN,
            cfg : BOOLEAN, seen : Seen, shift : Int, base : Int]

SendsType ==
    /\ lts \in [Stream -> Nat] /\ tm_offset \in [Stream -> Int]
    /\ enc_ts \in [Stream -> Nat \cup {None}] /\ need_cfg \in [Stream -> BOOLEAN]
    /\ sending \in [Stream -> Sending]
    /\ last \in [Stream -> Int] /\ high \in Int
    /\ two_rebase \in BOOLEAN /\ crossed \in BOOLEAN

(* A send goes on from the last timestamp of its stream; it is that of a   *)
(* new stream until it is written there, and the first of its encoder.     *)
SendOf(s) ==
    /\ sending[s].pc = "idle" => enc_ts[s] = None \/ lts[s] = enc_ts[s]
    /\ sending[s].pc # "idle" => enc_ts[s] = sending[s].ts
    /\ sending[s].pc \in Aligning => sending[s].new
    /\ sending[s].pc \in {"align", "align_write", "add"} => DOMAIN sending[s].seen = Field
    /\ sending[s].new /\ sending[s].pc \notin {"idle", "send"} => lts[s] > Threshold
    /\ sending[s].new => sending[s].ts = 0
    /\ ~sending[s].new /\ sending[s].pc \in {"cfg", "lts"} =>
          sending[s].ts >= lts[s] - Threshold
    /\ sending[s].pc = "send" => lts[s] = sending[s].ts

(* Where the stream s stands. *)
At(s) == lts[s] + tm_offset[s]

(* What a rebase has read of the offsets, and of the last timestamps, is   *)
(* what they are.                                                          *)
OffsetsCurrent(s) ==
    /\ sending[s].pc \in {"read", "align", "align_write", "add"} =>
          \A t \in Stream : <<t, "offset">> \in DOMAIN sending[s].seen =>
             sending[s].seen[<<t, "offset">>] = tm_offset[t]
    /\ sending[s].pc = "align_write" => sending[s].base = tm_offset[Behind(sending[s].shift)]
    /\ sending[s].pc = "add_write" => sending[s].base = tm_offset[s]

LtsCurrent(s) ==
    /\ sending[s].pc \in {"read", "align"} =>
          \A t \in Stream : <<t, "lts">> \in DOMAIN sending[s].seen =>
             sending[s].seen[<<t, "lts">>] = lts[t]
    /\ sending[s].pc = "align_write" => sending[s].shift = At("audio") - At("video")

(* The last video packet is not ahead of where the video stream stands, or *)
(* will stand once this send has written its timestamp.                    *)
LastInv ==
    /\ sending["video"].pc \in {"idle"} \cup Aligning => last["video"] <= At("video")
    /\ sending["video"].pc \in {"cfg", "lts", "send"} =>
          /\ sending["video"].new =>
                last["video"] <= sending["video"].ts + tm_offset["video"]
          /\ last["video"] <= sending["video"].ts + tm_offset["video"] + Threshold

(* A stream that was moved on, and whose last timestamp was not yet        *)
(* written, will start within what was reached; any other is within it.    *)
Moved(s) == sending[s].new /\ sending[s].pc \in {"cfg", "lts"}

HighInv(s) ==
    IF Moved(s) THEN sending[s].ts + tm_offset[s] <= high ELSE At(s) <= high

(* No rebase was so far disturbed in one way or in the other. *)
Calm == ~two_rebase \/ ~crossed

SendsInv ==
    /\ SendsType
    /\ \A s \in Stream : SendOf(s)
    /\ ~two_rebase => \E s \in Stream : ~Rebasing(s)
    /\ Calm => LastInv /\ \A s \in Stream : OffsetsCurrent(s)
    /\ ~crossed => \A s \in Stream : HighInv(s) /\ LtsCurrent(s)

(* A thread that has read nothing yet. *)
LEMMA EmptySeen == <<>> \in Seen /\ DOMAIN <<>> = {}
<1>1. <<>> = [x \in {} |-> 0]
  OBVIOUS
<1>2. <<>> \in [{} -> Int] /\ {} \in SUBSET Field
  BY <1>1
<1> QED BY <1>1, <1>2 DEF Seen

(* What was read is integers, of some of the fields. *)
LEMMA SeenIs ==
    ASSUME NEW g \in Seen
    PROVE  /\ DOMAIN g \subseteq Field /\ g = [x \in DOMAIN g |-> g[x]]
           /\ \A x \in DOMAIN g : g[x] \in Int
BY DEF Seen

LEMMA SeenFun ==
    ASSUME NEW D \in SUBSET Field, NEW g \in [D -> Int]
    PROVE  g \in Seen
BY DEF Seen

(* A step of thread s, whose send becomes c: what it does to the other's.  *)
LEMMA SendsStepHistory ==
    ASSUME SendsInv, NEW s \in Stream, NEW c, Step(s, c), NEW t \in Stream, t # s
    PROVE  /\ sending'[s] = c
           /\ sending'[t] = sending[t]
           /\ Stream = {s, t}
           /\ two_rebase' \in BOOLEAN /\ crossed' \in BOOLEAN
           /\ ~two_rebase' => ~two_rebase /\ \E u \in Stream : ~Rebasing(u)'
           /\ ~crossed' => /\ ~crossed
                           /\ Rebasing(t) => lts' = lts /\ tm_offset' = tm_offset
<1>1. Stream = {s, t} /\ sending \in [Stream -> Sending]
  BY DEF Stream, SendsInv, SendsType
<1>2. sending' = [sending EXCEPT ![s] = c]
  BY DEF Step
<1>3. sending'[s] = c /\ sending'[t] = sending[t]
  BY <1>1, <1>2
<1>4. two_rebase' \in BOOLEAN /\ (~two_rebase' => ~two_rebase /\ \E u \in Stream : ~Rebasing(u)')
  <2>1. two_rebase' = (two_rebase \/ \A u \in Stream : Rebasing(u)')
    BY DEF Step
  <2>2. two_rebase \in BOOLEAN
    BY DEF SendsInv, SendsType
  <2>3. QED
    BY <2>1, <2>2, Zenon
<1>5. crossed' \in BOOLEAN /\ (~crossed' => ~crossed
        /\ (Rebasing(t) => lts' = lts /\ tm_offset' = tm_offset))
  <2>1. crossed' = (crossed \/ \E u \in Stream \ {s} :
                      Rebasing(u) /\ <<lts', tm_offset'>> # <<lts, tm_offset>>)
    BY DEF Step
  <2>2. crossed \in BOOLEAN
    BY DEF SendsInv, SendsType
  <2>3. QED
    BY <2>1, <2>2
<1>6. QED
  BY <1>1, <1>3, <1>4, <1>5

(* What a step of thread s keeps of the other's, as long as it does not    *)
(* move the other's stream: a write that would make stale what the other   *)
(* has read is one that the history tells.                                 *)
LEMMA OtherKept ==
    ASSUME SendsInv, NEW s \in Stream, NEW t \in Stream, t # s, NEW c \in Sending, Step(s, c),
           lts' \in [Stream -> Nat], tm_offset' \in [Stream -> Int],
           enc_ts' \in [Stream -> Nat \cup {None}], last' \in [Stream -> Int], high' \in Int,
           need_cfg' \in [Stream -> BOOLEAN],
           lts'[t] = lts[t], enc_ts'[t] = enc_ts[t], last'[t] = last[t], high' >= high,
           tm_offset' = tm_offset \/ (Rebasing(s) /\ Rebasing(s)')
    PROVE  /\ SendsType'
           /\ SendOf(t)'
           /\ (~two_rebase => \E u \in Stream : ~Rebasing(u))'
           /\ Calm' => Calm /\ OffsetsCurrent(t)'
           /\ ~crossed' => ~crossed /\ LtsCurrent(t)'
           /\ tm_offset'[t] = tm_offset[t] =>
                 /\ ~crossed' => HighInv(t)'
                 /\ t = "video" /\ Calm' => LastInv'
<1>1. SendsType /\ SendOf(t) /\ (Calm => OffsetsCurrent(t)) /\ (~crossed => LtsCurrent(t) /\ HighInv(t))
      /\ (Calm => LastInv)
  BY DEF SendsInv
<1>2. /\ sending'[s] = c /\ sending'[t] = sending[t] /\ Stream = {s, t}
      /\ two_rebase' \in BOOLEAN /\ crossed' \in BOOLEAN
      /\ ~two_rebase' => ~two_rebase /\ \E u \in Stream : ~Rebasing(u)'
      /\ ~crossed' => /\ ~crossed
                      /\ Rebasing(t) => lts' = lts /\ tm_offset' = tm_offset
  BY SendsStepHistory
<1>3. sending' \in [Stream -> Sending]
  <2>1. sending' = [sending EXCEPT ![s] = c] /\ sending \in [Stream -> Sending]
    BY <1>1 DEF Step, SendsType
  <2>2. QED
    BY <2>1
<1>4. SendsType'
  BY <1>2, <1>3 DEF SendsType
<1>5. SendOf(t)'
  BY <1>1, <1>2 DEF SendOf
<1>6. sending[t].pc \in Aligning => Rebasing(t) /\ Rebasing(t)'
  BY <1>1, <1>2 DEF SendOf, Rebasing, Aligning
<1>7. Calm' => Calm
  BY <1>2 DEF Calm
<1>8. Calm' /\ sending[t].pc \in Aligning => tm_offset' = tm_offset
  <2>1. CASE ~crossed'
    BY <1>2, <1>6, <2>1
  <2>2. CASE ~two_rebase'
    BY <1>2, <1>6, <2>2
  <2>3. QED
    BY <2>1, <2>2 DEF Calm
<1>9. ASSUME Calm' PROVE OffsetsCurrent(t)'
  <2>1. OffsetsCurrent(t)
    BY <1>1, <1>7, <1>9
  <2>2. CASE sending[t].pc \in Aligning
    BY <1>2, <1>8, <1>9, <2>1, <2>2 DEF OffsetsCurrent
  <2>3. CASE sending[t].pc \notin Aligning
    BY <1>2, <2>3 DEF OffsetsCurrent, Aligning
  <2>4. QED
    BY <2>2, <2>3
<1>10. ASSUME ~crossed' PROVE LtsCurrent(t)'
  <2>1. LtsCurrent(t)
    BY <1>1, <1>2, <1>10
  <2>2. CASE sending[t].pc \in Aligning
    <3>1. lts' = lts /\ tm_offset' = tm_offset
      BY <1>2, <1>6, <1>10, <2>2
    <3>2. QED
      BY <1>2, <2>1, <3>1 DEF LtsCurrent, At
  <2>3. CASE sending[t].pc \notin Aligning
    BY <1>2, <2>3 DEF LtsCurrent, Aligning
  <2>4. QED
    BY <2>2, <2>3
<1>11. ASSUME tm_offset'[t] = tm_offset[t], ~crossed'
       PROVE  HighInv(t)'
  <2>1. HighInv(t)
    BY <1>1, <1>2, <1>11
  <2>2. sending[t].ts \in Nat /\ high \in Int /\ lts[t] \in Nat /\ tm_offset[t] \in Int
    BY <1>1 DEF SendsType, Sending
  <2>3. QED
    BY <1>2, <1>11, <2>1, <2>2 DEF HighInv, Moved, At
<1>12. ASSUME tm_offset'[t] = tm_offset[t], t = "video", Calm'
       PROVE  LastInv'
  <2>1. LastInv
    BY <1>1, <1>7, <1>12
  <2>2. QED
    BY <1>2, <1>12, <2>1 DEF LastInv, At
<1>13. QED
  BY <1>2, <1>4, <1>5, <1>7, <1>9, <1>10, <1>11, <1>12

(* What is left to show of a step of thread s. *)
Own(s) ==
    /\ SendOf(s)
    /\ Calm => OffsetsCurrent(s)
    /\ ~crossed => LtsCurrent(s) /\ HighInv(s)
    /\ s = "video" /\ Calm => LastInv

(* The invariant says it of each thread. *)
LEMMA SendsInvOwn == SendsInv => \A s \in Stream : Own(s)
BY DEF SendsInv, Own

(* A step that moves no stream but its own. *)
LEMMA OwnStep ==
    ASSUME SendsInv, NEW s \in Stream, NEW c \in Sending, Step(s, c),
           lts' \in [Stream -> Nat], tm_offset' \in [Stream -> Int],
           enc_ts' \in [Stream -> Nat \cup {None}], last' \in [Stream -> Int], high' \in Int,
           need_cfg' \in [Stream -> BOOLEAN],
           \A t \in Stream \ {s} : /\ lts'[t] = lts[t] /\ tm_offset'[t] = tm_offset[t]
                                   /\ enc_ts'[t] = enc_ts[t] /\ last'[t] = last[t],
           high' >= high,
           tm_offset' = tm_offset \/ (Rebasing(s) /\ Rebasing(s)'),
           Own(s)'
    PROVE  SendsInv'
<1>1. PICK t \in Stream : t # s
  BY DEF Stream
<1>2. /\ SendsType'
      /\ SendOf(t)'
      /\ (~two_rebase => \E u \in Stream : ~Rebasing(u))'
      /\ Calm' => OffsetsCurrent(t)'
      /\ ~crossed' => LtsCurrent(t)' /\ HighInv(t)'
      /\ t = "video" /\ Calm' => LastInv'
  BY <1>1, OtherKept
<1>3. Stream = {s, t}
  BY <1>1 DEF Stream
<1>4. "video" \in Stream
  BY DEF Stream
<1>5. QED
  BY <1>2, <1>3, <1>4 DEF SendsInv, Own

(* Where a send goes on, and what is known of it. *)
LEMMA SendTypes ==
    ASSUME SendsInv, NEW s \in Stream
    PROVE  /\ sending[s] \in Sending /\ lts[s] \in Nat /\ tm_offset[s] \in Int
           /\ enc_ts[s] \in Nat \cup {None} /\ last[s] \in Int /\ high \in Int
           /\ Own(s)
BY SendsInvOwn DEF SendsInv, SendsType

(* The limits the code compares with. *)
LEMMA Limits == Threshold \in Nat /\ ShiftLimit \in Nat /\ MaxTs \in Nat
BY RacingAssumption

(* What a step says of the history, for its own thread. *)
LEMMA StepCalm ==
    ASSUME SendsInv, NEW s \in Stream, NEW c, Step(s, c)
    PROVE  /\ sending'[s] = c
           /\ Calm' => Calm
           /\ ~crossed' => ~crossed
<1>1. PICK t \in Stream : t # s
  BY DEF Stream
<1>2. QED
  BY <1>1, SendsStepHistory DEF Calm

(* Between two sends. *)
LEMMA NotSendingIs ==
    /\ NotSending \in Sending
    /\ NotSending.pc = "idle" /\ NotSending.new = FALSE
<1> DEFINE empty == <<>>
<1>1. NotSending = [pc |-> "idle", ts |-> 0, new |-> FALSE, cfg |-> FALSE,
                    seen |-> empty, shift |-> 0, base |-> 0] /\ empty \in Seen
  BY EmptySeen DEF NotSending
<1> HIDE DEF empty
<1>2. QED
  BY <1>1 DEF Sending

(* A send begins: of a new stream, it is one that starts again at 0 after *)
(* more than the threshold; of any other, it is not further back.          *)
LEMMA SendKeeps ==
    ASSUME SendsInv, NEW s \in Stream, NEW ts \in 0..MaxTs, NEW key_frame \in BOOLEAN,
           NEW sps_pps_changed \in BOOLEAN, Send(s, ts, key_frame, sps_pps_changed)
    PROVE  SendsInv'
<1> DEFINE new == NewStream(s, ts)
           cfg == IF s = "video" THEN key_frame /\ (need_cfg[s] \/ new \/ sps_pps_changed)
                  ELSE ts = 0 \/ new \/ need_cfg[s]
           c0 == [NotSending EXCEPT !.ts = ts, !.new = new, !.cfg = cfg]
           c == [c0 EXCEPT !.pc = IF new THEN "read" ELSE AfterRebase(c0)]
<1>1. Step(s, c) /\ sending[s] = NotSending
      /\ enc_ts' = [enc_ts EXCEPT ![s] = ts]
      /\ UNCHANGED <<lts, tm_offset, last, high>>
      /\ need_cfg' = [need_cfg EXCEPT ![s] = @ \/ (s = "video" /\ new)]
      /\ (enc_ts[s] = None => ts = 0) /\ (enc_ts[s] # None => ts > enc_ts[s])
  BY Zenon DEF Send
<1>2. ts \in Nat /\ new \in BOOLEAN
  BY Limits DEF NewStream
<1>3. /\ c.pc = IF new THEN "read" ELSE AfterRebase(c0)
      /\ c.ts = ts /\ c.new = new /\ c.seen = <<>> /\ c.shift = 0 /\ c.base = 0
      /\ c.pc \in {"read", "cfg", "lts"} /\ (c.pc = "read" <=> new)
  BY DEF NotSending, AfterRebase
<1>4. c \in Sending
  <2>1. NotSending \in Sending
    BY NotSendingIs
  <2>2. cfg \in BOOLEAN
    <3>1. need_cfg[s] \in BOOLEAN
      BY DEF SendsInv, SendsType, Stream
    <3>2. QED
      BY <1>2, <3>1
  <2> HIDE DEF new, cfg
  <2>3. c0 \in Sending
    BY <1>2, <2>1, <2>2 DEF Sending
  <2>4. AfterRebase(c0) \in {"cfg", "lts"}
    BY DEF AfterRebase
  <2>5. QED
    BY <2>3, <2>4 DEF Sending, Aligning
<1>5. SendsType
  BY DEF SendsInv
<1>6. sending'[s] = c /\ (Calm' => Calm) /\ (~crossed' => ~crossed)
  BY <1>1, StepCalm
<1> HIDE DEF c
<1>7. Own(s)'
  <2>1. Own(s) /\ lts[s] \in Nat /\ tm_offset[s] \in Int /\ enc_ts'[s] = ts /\ last[s] \in Int
    BY <1>1, <1>5, SendTypes DEF SendsType
  <2>2. sending[s].pc = "idle"
    BY <1>1 DEF NotSending
  <2>3. new => ts = 0 /\ lts[s] > Threshold
    BY <1>1, <1>2, <2>1, <2>2, Limits DEF Own, SendOf, NewStream, None
  <2>4. ~new => ts >= lts[s] - Threshold
    BY <1>1, <1>2, <2>1, Limits DEF NewStream
  <2>5. SendOf(s)'
    BY <1>1, <1>2, <1>3, <1>6, <2>1, <2>3, <2>4 DEF SendOf, Aligning
  <2>6. OffsetsCurrent(s)' /\ LtsCurrent(s)'
    BY <1>1, <1>3, <1>6, EmptySeen DEF OffsetsCurrent, LtsCurrent
  <2>7. HighInv(s) => HighInv(s)'
    BY <1>1, <1>3, <1>6, <2>2 DEF HighInv, Moved, At
  <2>8. s = "video" /\ LastInv => LastInv'
    BY <1>1, <1>2, <1>3, <1>6, <2>1, <2>2, <2>3, <2>4, Limits DEF LastInv, At, Aligning
  <2>9. QED
    BY <1>6, <2>1, <2>5, <2>6, <2>7, <2>8 DEF Own
<1>8. /\ lts' \in [Stream -> Nat] /\ tm_offset' \in [Stream -> Int]
      /\ enc_ts' \in [Stream -> Nat \cup {None}] /\ last' \in [Stream -> Int] /\ high' \in Int
      /\ need_cfg' \in [Stream -> BOOLEAN]
      /\ \A t \in Stream \ {s} : /\ lts'[t] = lts[t] /\ tm_offset'[t] = tm_offset[t]
                                 /\ enc_ts'[t] = enc_ts[t] /\ last'[t] = last[t]
      /\ high' >= high
  BY <1>1, <1>2, <1>5 DEF SendsType
<1>9. QED
  BY <1>1, <1>4, <1>7, <1>8, OwnStep

(* One more field read, which is current when it is read.                  *)
LEMMA ReadKeeps ==
    ASSUME SendsInv, NEW s \in Stream, NEW f \in Field, Read(s, f)
    PROVE  SendsInv'
<1> DEFINE old == sending[s].seen
           seen == [g \in DOMAIN old \cup {f} |-> IF g = f THEN Value(f) ELSE old[g]]
           c == [sending[s] EXCEPT !.seen = seen,
                                   !.pc = IF DOMAIN seen = Field THEN "align" ELSE "read"]
<1>1. Step(s, c) /\ sending[s].pc = "read" /\ f \notin DOMAIN old
      /\ UNCHANGED <<lts, tm_offset, need_cfg, enc_ts, last, high>>
  BY Zenon DEF Read, shared
<1>2. sending[s] \in Sending /\ Own(s) /\ SendsType
  BY SendTypes DEF SendsInv
<1>3. old \in Seen /\ DOMAIN old \subseteq Field /\ \A x \in DOMAIN old : old[x] \in Int
  <2>1. old \in Seen
    BY <1>2 DEF Sending
  <2>2. QED
    BY <2>1, SeenIs
<1>4. Value(f) \in Int
  BY <1>2 DEF SendsType, Value, Field
<1>5. seen \in Seen /\ DOMAIN seen = DOMAIN old \cup {f}
      /\ \A g \in DOMAIN seen : seen[g] = IF g = f THEN Value(f) ELSE old[g]
  <2>1. seen \in [DOMAIN old \cup {f} -> Int] /\ DOMAIN old \cup {f} \in SUBSET Field
    BY <1>3, <1>4
  <2>2. QED
    BY <2>1, SeenFun
<1> HIDE DEF seen
<1>6. c \in Sending /\ c.pc \in {"read", "align"} /\ (c.pc = "align" => DOMAIN seen = Field)
      /\ c.seen = seen /\ c.new = sending[s].new /\ c.ts = sending[s].ts
  BY <1>2, <1>5 DEF Sending, Aligning
<1>7. sending'[s] = c /\ (Calm' => Calm) /\ (~crossed' => ~crossed)
  BY <1>1, StepCalm
<1> HIDE DEF c
<1>8. Own(s)'
  <2>1. SendOf(s)'
    BY <1>1, <1>2, <1>6, <1>7 DEF SendOf, Own, Aligning
  <2>2. OffsetsCurrent(s) => OffsetsCurrent(s)'
    <3> SUFFICES ASSUME OffsetsCurrent(s), NEW t \in Stream, <<t, "offset">> \in DOMAIN seen
                 PROVE  seen[<<t, "offset">>] = tm_offset[t]
      BY <1>1, <1>6, <1>7 DEF OffsetsCurrent
    <3>1. f = <<t, "offset">> => Value(f) = tm_offset[t]
      BY DEF Value
    <3>2. QED
      BY <1>1, <1>5, <3>1 DEF OffsetsCurrent
  <2>3. LtsCurrent(s) => LtsCurrent(s)'
    <3> SUFFICES ASSUME LtsCurrent(s), NEW t \in Stream, <<t, "lts">> \in DOMAIN seen
                 PROVE  seen[<<t, "lts">>] = lts[t]
      BY <1>1, <1>6, <1>7 DEF LtsCurrent
    <3>1. f = <<t, "lts">> => Value(f) = lts[t]
      BY DEF Value
    <3>2. QED
      BY <1>1, <1>5, <3>1 DEF LtsCurrent
  <2>4. HighInv(s) => HighInv(s)'
    BY <1>1, <1>6, <1>7 DEF HighInv, Moved, At
  <2>5. s = "video" /\ LastInv => LastInv'
    BY <1>1, <1>6, <1>7 DEF LastInv, At, Aligning
  <2>6. QED
    BY <1>2, <1>7, <2>1, <2>2, <2>3, <2>4, <2>5 DEF Own
<1>9. QED
  BY <1>1, <1>2, <1>6, <1>8, OwnStep DEF SendsType

(* Which stream is moved up. *)
LEMMA BehindIs ==
    ASSUME NEW x \in Int
    PROVE  /\ Behind(x) \in Stream
           /\ Behind(x) = "video" <=> x > 0
BY DEF Behind, Stream

(* The shift is computed: of current values it is what audio is ahead.     *)
LEMMA AlignKeeps ==
    ASSUME SendsInv, NEW s \in Stream, NEW reread \in BOOLEAN, Align(s, reread)
    PROVE  SendsInv'
<1> DEFINE seen == sending[s].seen
           shift == Shift(seen)
           base == IF reread THEN tm_offset[Behind(shift)] ELSE seen[<<Behind(shift), "offset">>]
           c == IF Abs(shift) > ShiftLimit
                THEN [sending[s] EXCEPT !.pc = "add"]
                ELSE [sending[s] EXCEPT !.pc = "align_write", !.shift = shift, !.base = base]
<1>1. Step(s, c) /\ sending[s].pc = "align"
      /\ UNCHANGED <<lts, tm_offset, need_cfg, enc_ts, last, high>>
  BY Zenon DEF Align, shared
<1>2. sending[s] \in Sending /\ Own(s) /\ SendsType
  BY SendTypes DEF SendsInv
<1>3. seen \in Seen /\ DOMAIN seen = Field /\ \A x \in Field : seen[x] \in Int
  <2>1. seen \in Seen /\ DOMAIN seen = Field
    BY <1>1, <1>2 DEF Sending, Own, SendOf
  <2>2. QED
    BY <2>1, SeenIs
<1>4. shift \in Int
  BY <1>3 DEF Shift, Field, Stream
<1>5. Behind(shift) \in Stream /\ <<Behind(shift), "offset">> \in Field
  BY <1>4, BehindIs DEF Field
<1>6. base \in Int
  BY <1>2, <1>3, <1>5 DEF SendsType
<1>7. OffsetsCurrent(s) => base = tm_offset[Behind(shift)]
  BY <1>1, <1>3, <1>5 DEF OffsetsCurrent
<1>8. OffsetsCurrent(s) /\ LtsCurrent(s) => shift = At("audio") - At("video")
  <2> SUFFICES ASSUME OffsetsCurrent(s), LtsCurrent(s) PROVE shift = At("audio") - At("video")
    OBVIOUS
  <2>1. \A t \in Stream : <<t, "lts">> \in Field /\ <<t, "offset">> \in Field
    BY DEF Field
  <2>2. \A t \in Stream : seen[<<t, "lts">>] = lts[t] /\ seen[<<t, "offset">>] = tm_offset[t]
    BY <1>1, <1>3, <2>1 DEF OffsetsCurrent, LtsCurrent
  <2>3. \A t \in Stream : lts[t] \in Int /\ tm_offset[t] \in Int
    BY <1>2 DEF SendsType
  <2>4. QED
    BY <2>2, <2>3 DEF Shift, At, Stream
<1> HIDE DEF shift, base
<1>9. /\ c \in Sending /\ c.new = sending[s].new /\ c.ts = sending[s].ts /\ c.seen = seen
      /\ c.pc \in {"add", "align_write"}
      /\ c.pc = "align_write" => c.shift = shift /\ c.base = base
  BY <1>2, <1>4, <1>6 DEF Sending, Aligning
<1>10. sending'[s] = c /\ (Calm' => Calm) /\ (~crossed' => ~crossed)
  BY <1>1, StepCalm
<1> HIDE DEF c
<1>11. Own(s)'
  <2>1. SendOf(s)'
    BY <1>1, <1>2, <1>3, <1>9, <1>10 DEF SendOf, Own, Aligning
  <2>2. OffsetsCurrent(s) => OffsetsCurrent(s)'
    BY <1>1, <1>7, <1>9, <1>10 DEF OffsetsCurrent
  <2>3. OffsetsCurrent(s) /\ LtsCurrent(s) => LtsCurrent(s)'
    BY <1>1, <1>8, <1>9, <1>10 DEF LtsCurrent, At
  <2>4. HighInv(s) => HighInv(s)'
    BY <1>1, <1>9, <1>10 DEF HighInv, Moved, At
  <2>5. s = "video" /\ LastInv => LastInv'
    BY <1>1, <1>9, <1>10 DEF LastInv, At, Aligning
  <2>6. QED
    BY <1>2, <1>10, <2>1, <2>2, <2>3, <2>4, <2>5 DEF Own, Calm
<1>12. QED
  BY <1>1, <1>2, <1>9, <1>11, OwnStep DEF SendsType

(* The own offset is fetched, and what was read forgotten.                 *)
LEMMA AddKeeps ==
    ASSUME SendsInv, NEW s \in Stream, NEW reread \in BOOLEAN, Add(s, reread)
    PROVE  SendsInv'
<1> DEFINE base == IF reread THEN tm_offset[s] ELSE sending[s].seen[<<s, "offset">>]
           c == [sending[s] EXCEPT !.pc = "add_write", !.seen = <<>>, !.shift = 0, !.base = base]
<1>1. Step(s, c) /\ sending[s].pc = "add"
      /\ UNCHANGED <<lts, tm_offset, need_cfg, enc_ts, last, high>>
  BY Zenon DEF Add, shared
<1>2. sending[s] \in Sending /\ Own(s) /\ SendsType
  BY SendTypes DEF SendsInv
<1>3. <<s, "offset">> \in DOMAIN sending[s].seen /\ base \in Int
  <2>1. sending[s].seen \in Seen /\ DOMAIN sending[s].seen = Field
    BY <1>1, <1>2 DEF Sending, Own, SendOf
  <2>2. <<s, "offset">> \in Field
    BY DEF Field
  <2>3. sending[s].seen[<<s, "offset">>] \in Int
    BY <2>1, <2>2, SeenIs
  <2>4. QED
    BY <1>2, <2>1, <2>2, <2>3 DEF SendsType
<1>4. OffsetsCurrent(s) => base = tm_offset[s]
  BY <1>1, <1>3 DEF OffsetsCurrent
<1> HIDE DEF base
<1>5. /\ c \in Sending /\ c.new = sending[s].new /\ c.ts = sending[s].ts
      /\ c.pc = "add_write" /\ c.base = base
  <2> DEFINE none == <<>>
             zero == 0
  <2>1. none \in Seen /\ zero \in Int /\ "add_write" \in {"cfg", "lts", "add_write"}
    BY EmptySeen
  <2>2. c = [sending[s] EXCEPT !.pc = "add_write", !.seen = none, !.shift = zero, !.base = base]
    OBVIOUS
  <2> DEFINE old == sending[s]
             d == [old EXCEPT !.pc = "add_write", !.seen = none, !.shift = zero, !.base = base]
  <2>3. old \in Sending
    BY <1>2
  <2>4. c = d
    BY <2>2
  <2> HIDE DEF none, zero, c, old
  <2>5. d \in Sending /\ d.new = old.new /\ d.ts = old.ts /\ d.pc = "add_write" /\ d.base = base
    BY <1>3, <2>1, <2>3 DEF Sending, Aligning
  <2> HIDE DEF d
  <2>6. QED
    BY <2>4, <2>5, Zenon DEF old
<1>6. sending'[s] = c /\ (Calm' => Calm) /\ (~crossed' => ~crossed)
  BY <1>1, StepCalm
<1> HIDE DEF c
<1>7. Own(s)'
  <2>1. SendOf(s)'
    BY <1>1, <1>2, <1>5, <1>6 DEF SendOf, Own, Aligning
  <2>2. OffsetsCurrent(s) => OffsetsCurrent(s)'
    BY <1>1, <1>4, <1>5, <1>6 DEF OffsetsCurrent
  <2>3. LtsCurrent(s)'
    BY <1>5, <1>6 DEF LtsCurrent
  <2>4. HighInv(s) => HighInv(s)'
    BY <1>1, <1>5, <1>6 DEF HighInv, Moved, At
  <2>5. s = "video" /\ LastInv => LastInv'
    BY <1>1, <1>5, <1>6 DEF LastInv, At, Aligning
  <2>6. QED
    BY <1>2, <1>6, <2>1, <2>2, <2>3, <2>4, <2>5 DEF Own
<1>8. QED
  BY <1>1, <1>2, <1>5, <1>7, OwnStep DEF SendsType

(* The other stream is moved up to this one, or this one to the other: of  *)
(* current values, video not back and neither past what was reached.       *)
LEMMA AlignWriteKeeps ==
    ASSUME SendsInv, NEW s \in Stream, AlignWrite(s)
    PROVE  SendsInv'
<1> DEFINE u == Behind(sending[s].shift)
           offset == sending[s].base + sending[s].shift
           seen == [sending[s].seen EXCEPT ![<<u, "offset">>] = offset]
           c == [sending[s] EXCEPT !.pc = "add", !.seen[<<u, "offset">>] = offset]
<1>1. Step(s, c) /\ sending[s].pc = "align_write" /\ tm_offset' = [tm_offset EXCEPT ![u] = offset]
      /\ UNCHANGED <<lts, need_cfg, enc_ts, last, high>>
  BY Zenon DEF AlignWrite
<1>2. sending[s] \in Sending /\ Own(s) /\ SendsType
  BY SendTypes DEF SendsInv
<1>3. sending[s].seen \in Seen /\ DOMAIN sending[s].seen = Field
      /\ \A x \in Field : sending[s].seen[x] \in Int
  <2>1. sending[s].seen \in Seen /\ DOMAIN sending[s].seen = Field
    BY <1>1, <1>2 DEF Sending, Own, SendOf
  <2>2. QED
    BY <2>1, SeenIs
<1>4. u \in Stream /\ <<u, "offset">> \in Field /\ offset \in Int
      /\ (u = "video" <=> sending[s].shift > 0) /\ sending[s].shift \in Int
  BY <1>2, BehindIs DEF Sending, Field
<1>5. seen \in Seen /\ DOMAIN seen = Field
      /\ \A x \in Field : seen[x] = IF x = <<u, "offset">> THEN offset ELSE sending[s].seen[x]
  <2>1. seen \in [Field -> Int]
    BY <1>3, <1>4
  <2>2. seen \in Seen
    BY <2>1, SeenFun
  <2>3. QED
    BY <1>3, <2>2
<1>6. c = [sending[s] EXCEPT !.pc = "add", !.seen = seen]
  BY <1>2 DEF Sending
<1> HIDE DEF seen, offset, u
<1>7. c \in Sending /\ c.new = sending[s].new /\ c.ts = sending[s].ts /\ c.pc = "add"
      /\ c.seen = seen
  BY <1>2, <1>5, <1>6 DEF Sending, Aligning
<1>8. sending'[s] = c /\ (Calm' => Calm) /\ (~crossed' => ~crossed)
  BY <1>1, StepCalm
<1> HIDE DEF c
<1>9. sending[s].new /\ Rebasing(s) /\ Rebasing(s)'
  BY <1>1, <1>2, <1>7, <1>8 DEF Own, SendOf, Rebasing, Aligning
<1>10. PICK t \in Stream : t # s
  BY DEF Stream
<1>11. tm_offset' \in [Stream -> Int]
  BY <1>1, <1>2, <1>4 DEF SendsType
<1>12. Calm => offset = tm_offset[u] + sending[s].shift
  BY <1>1, <1>2 DEF Own, OffsetsCurrent, u, offset
<1>13. Stream = {s, t} /\ "video" \in Stream /\ "audio" \in Stream
  BY <1>10 DEF Stream
<1>14. \A v \in Stream : /\ lts'[v] = lts[v] /\ lts[v] \in Nat /\ tm_offset[v] \in Int
                         /\ tm_offset'[v] = IF v = u THEN offset ELSE tm_offset[v]
  BY <1>1, <1>2 DEF SendsType
<1>15. Calm => tm_offset'["video"] >= tm_offset["video"]
  BY <1>4, <1>12, <1>13, <1>14
<1>16. ASSUME ~crossed', NEW v \in Stream
       PROVE  HighInv(v)'
  <2>1. /\ ~crossed /\ Calm
        /\ sending'[t] = sending[t]
        /\ Rebasing(t) => tm_offset' = tm_offset
    BY <1>1, <1>7, <1>8, <1>10, <1>16, SendsStepHistory DEF Calm
  <2>2. /\ \A x \in Stream : HighInv(x)
        /\ sending[s].shift = At("audio") - At("video")
    BY <1>1, <2>1 DEF SendsInv, LtsCurrent
  <2>3. ~Moved(s) /\ ~Moved(s)'
    BY <1>1, <1>7, <1>8 DEF Moved
  <2>4. Moved(t)' <=> Moved(t)
    BY <2>1 DEF Moved
  <2>5. high \in Int /\ \A x \in Stream : sending[x].ts \in Nat
    BY <1>2 DEF SendsType, Sending
  <2>6. high' = high
    BY <1>1
  <2>7. CASE u = "audio"
    <3>1. tm_offset'[v] <= tm_offset[v]
      BY <1>4, <1>12, <1>14, <2>1, <2>7
    <3>2. Moved(v)' => Moved(v) /\ sending'[v].ts = sending[v].ts
      BY <1>13, <2>1, <2>3, <2>4
    <3>3. ~Moved(v)' => ~Moved(v)
      BY <1>13, <2>3, <2>4
    <3>4. HighInv(v)
      BY <2>2
    <3>5. CASE Moved(v)'
      <4>1. sending[v].ts + tm_offset[v] <= high
        BY <3>2, <3>4, <3>5 DEF HighInv
      <4>2. sending'[v].ts + tm_offset'[v] <= high'
        BY <1>11, <1>14, <2>5, <2>6, <3>1, <3>2, <3>5, <4>1
      <4>3. QED
        BY <3>5, <4>2 DEF HighInv
    <3>6. CASE ~Moved(v)'
      <4>1. At(v) <= high
        BY <3>3, <3>4, <3>6 DEF HighInv
      <4>2. At(v)' <= high'
        BY <1>11, <1>14, <2>5, <2>6, <3>1, <4>1 DEF At
      <4>3. QED
        BY <3>6, <4>2 DEF HighInv
    <3>7. QED
      BY <3>5, <3>6
  <2>8. CASE u = "video"
    <3>1. tm_offset'["video"] # tm_offset["video"]
      BY <1>4, <1>12, <1>13, <1>14, <2>1, <2>8
    <3>2. ~Moved(t)
      BY <2>1, <3>1 DEF Moved, Rebasing
    <3>3. \A x \in Stream : ~Moved(x) /\ ~Moved(x)'
      BY <1>13, <2>3, <2>4, <3>2
    <3>4. At("audio") <= high /\ At("video") <= high
      BY <1>13, <2>2, <3>3 DEF HighInv
    <3>5. At("video")' = At("audio") /\ At("audio")' = At("audio")
      BY <1>12, <1>13, <1>14, <2>1, <2>2, <2>8 DEF At
    <3>6. v = "audio" \/ v = "video"
      BY DEF Stream
    <3>7. At(v)' <= high'
      BY <2>6, <3>4, <3>5, <3>6
    <3>8. QED
      BY <3>3, <3>7 DEF HighInv
  <2>9. QED
    BY <1>4, <2>7, <2>8 DEF Stream
<1>17. ASSUME Calm' PROVE LastInv'
  <2>1. LastInv
    BY <1>8, <1>17 DEF SendsInv
  <2>2. tm_offset'["video"] >= tm_offset["video"] /\ last' = last /\ lts' = lts
    BY <1>1, <1>8, <1>15, <1>17
  <2>3. tm_offset["video"] \in Int /\ tm_offset'["video"] \in Int /\ last["video"] \in Int
        /\ lts["video"] \in Nat /\ sending["video"].ts \in Nat /\ Threshold \in Nat
    BY <1>2, <1>11, <1>13, Limits DEF SendsType, Sending
  <2>4. CASE s = "video"
    <3>1. last["video"] <= At("video")
      BY <1>1, <2>1, <2>4 DEF LastInv, Aligning
    <3>2. last'["video"] <= At("video")'
      BY <2>2, <2>3, <3>1 DEF At
    <3>3. sending'["video"].pc = "add"
      BY <1>7, <1>8, <2>4
    <3>4. QED
      BY <3>2, <3>3 DEF LastInv
  <2>5. CASE s # "video"
    <3>1. sending'["video"] = sending["video"]
      BY <1>1, <1>7, <1>13, <2>5, SendsStepHistory
    <3>2. QED
      BY <2>1, <2>2, <2>3, <3>1 DEF LastInv, At
  <2>6. QED
    BY <2>4, <2>5
<1>18. SendOf(s)'
  BY <1>1, <1>2, <1>5, <1>7, <1>8 DEF SendOf, Own, Aligning
<1>19. ASSUME Calm' PROVE OffsetsCurrent(s)'
  <2> SUFFICES ASSUME NEW x \in Stream
               PROVE  seen[<<x, "offset">>] = tm_offset'[x]
    BY <1>7, <1>8 DEF OffsetsCurrent
  <2>1. OffsetsCurrent(s)
    BY <1>2, <1>8, <1>19 DEF Own
  <2>2. <<x, "offset">> \in Field
    BY DEF Field
  <2>3. x # u => sending[s].seen[<<x, "offset">>] = tm_offset[x]
    BY <1>1, <1>3, <2>1, <2>2 DEF OffsetsCurrent
  <2>4. QED
    BY <1>5, <1>14, <2>2, <2>3
<1>20. LtsCurrent(s)'
  BY <1>7, <1>8 DEF LtsCurrent
<1>21. /\ SendsType'
       /\ SendOf(t)'
       /\ (~two_rebase => \E x \in Stream : ~Rebasing(x))'
       /\ Calm' => OffsetsCurrent(t)'
       /\ ~crossed' => LtsCurrent(t)'
  BY <1>1, <1>2, <1>7, <1>9, <1>10, <1>11, OtherKept DEF SendsType
<1>22. QED
  BY <1>13, <1>16, <1>17, <1>18, <1>19, <1>20, <1>21 DEF SendsInv

(* The stream moves to where it stands, so that its new timestamps follow. *)
LEMMA AddWriteKeeps ==
    ASSUME SendsInv, NEW s \in Stream, AddWrite(s)
    PROVE  SendsInv'
<1> DEFINE c == [sending[s] EXCEPT !.pc = AfterRebase(sending[s]), !.base = 0]
           offset == sending[s].base + lts[s]
<1>1. Step(s, c) /\ sending[s].pc = "add_write" /\ tm_offset' = [tm_offset EXCEPT ![s] = offset]
      /\ UNCHANGED <<lts, need_cfg, enc_ts, last, high>>
  BY Zenon DEF AddWrite
<1>2. sending[s] \in Sending /\ Own(s) /\ SendsType
  BY SendTypes DEF SendsInv
<1>3. c \in Sending /\ c.new = sending[s].new /\ c.ts = sending[s].ts /\ c.pc \in {"cfg", "lts"}
  <2> DEFINE zero == 0
             pc == AfterRebase(sending[s])
  <2>1. zero \in Int /\ pc \in {"cfg", "lts"} /\ pc \in {"cfg", "lts", "add_write"}
    BY DEF AfterRebase
  <2>2. c = [sending[s] EXCEPT !.pc = pc, !.base = zero]
    OBVIOUS
  <2> DEFINE old == sending[s]
             d == [old EXCEPT !.pc = pc, !.base = zero]
  <2>3. old \in Sending
    BY <1>2
  <2>4. c = d
    BY <2>2
  <2> HIDE DEF zero, pc, c, old
  <2>5. d \in Sending /\ d.new = old.new /\ d.ts = old.ts /\ d.pc = pc
    BY <2>1, <2>3 DEF Sending
  <2> HIDE DEF d
  <2>6. QED
    BY <2>1, <2>4, <2>5, Zenon DEF old
<1>4. sending'[s] = c /\ (Calm' => Calm) /\ (~crossed' => ~crossed)
  BY <1>1, StepCalm
<1> HIDE DEF c
<1>5. offset \in Int /\ (OffsetsCurrent(s) => offset = At(s))
      /\ tm_offset[s] \in Int /\ lts[s] \in Nat
  BY <1>1, <1>2 DEF SendsType, Sending, OffsetsCurrent, At
<1> HIDE DEF offset
<1>6. tm_offset' \in [Stream -> Int] /\ tm_offset'[s] = offset
      /\ \A t \in Stream \ {s} : tm_offset'[t] = tm_offset[t]
  BY <1>1, <1>2, <1>5 DEF SendsType
<1>7. sending[s].new /\ sending[s].ts = 0 /\ lts[s] > Threshold
  BY <1>1, <1>2 DEF Own, SendOf, Aligning
<1>8. Rebasing(s) /\ Rebasing(s)' /\ ~Moved(s) /\ Moved(s)'
  BY <1>1, <1>3, <1>4, <1>7 DEF Rebasing, Moved
<1>9. Own(s)'
  <2>1. SendOf(s)'
    BY <1>1, <1>2, <1>3, <1>4, <1>7 DEF SendOf, Own, Aligning
  <2>2. OffsetsCurrent(s)' /\ LtsCurrent(s)'
    BY <1>3, <1>4 DEF OffsetsCurrent, LtsCurrent
  <2>3. OffsetsCurrent(s) /\ HighInv(s) => HighInv(s)'
    BY <1>1, <1>3, <1>4, <1>5, <1>6, <1>7, <1>8 DEF HighInv
  <2>4. ASSUME s = "video", OffsetsCurrent(s), LastInv PROVE LastInv'
    <3>1. last["video"] <= At("video")
      BY <1>1, <2>4 DEF LastInv, Aligning
    <3>2. sending'["video"].pc \in {"cfg", "lts"} /\ sending'["video"].ts = 0
          /\ tm_offset'["video"] = At("video") /\ last' = last
      BY <1>1, <1>3, <1>4, <1>5, <1>6, <1>7, <2>4
    <3>3. At("video") \in Int /\ last["video"] \in Int /\ Threshold \in Nat
      BY <1>2, <1>5, <2>4, Limits DEF SendsType, At
    <3>4. QED
      BY <3>1, <3>2, <3>3 DEF LastInv, Aligning
  <2>5. QED
    BY <1>2, <1>4, <2>1, <2>2, <2>3, <2>4 DEF Own, Calm
<1>10. QED
  BY <1>1, <1>2, <1>3, <1>6, <1>8, <1>9, OwnStep DEF SendsType

(* The configuration packet has the timestamp of the send. *)
LEMMA SendConfigKeeps ==
    ASSUME SendsInv, NEW s \in Stream, SendConfig(s)
    PROVE  SendsInv'
<1> DEFINE c == [sending[s] EXCEPT !.pc = "lts"]
           sent == sending[s].ts + tm_offset[s]
<1>1. Step(s, c) /\ sending[s].pc = "cfg" /\ last' = [last EXCEPT ![s] = sent]
      /\ need_cfg' = [need_cfg EXCEPT ![s] = FALSE]
      /\ UNCHANGED <<lts, tm_offset, enc_ts, high>>
  BY Zenon DEF SendConfig
<1>2. sending[s] \in Sending /\ Own(s) /\ SendsType
  BY SendTypes DEF SendsInv
<1>3. c \in Sending /\ c.new = sending[s].new /\ c.ts = sending[s].ts /\ c.pc = "lts"
  BY <1>2 DEF Sending
<1>4. sending'[s] = c /\ (Calm' => Calm) /\ (~crossed' => ~crossed)
  BY <1>1, StepCalm
<1> HIDE DEF c
<1>5. sent \in Int /\ last' \in [Stream -> Int] /\ last'[s] = sent
      /\ \A t \in Stream \ {s} : last'[t] = last[t]
  BY <1>1, <1>2 DEF SendsType, Sending
<1>6. need_cfg' \in [Stream -> BOOLEAN]
  BY <1>1, <1>2 DEF SendsType
<1>7. Own(s)'
  <2>1. SendOf(s)'
    BY <1>1, <1>2, <1>3, <1>4 DEF SendOf, Own, Aligning
  <2>2. OffsetsCurrent(s)' /\ LtsCurrent(s)'
    BY <1>3, <1>4 DEF OffsetsCurrent, LtsCurrent
  <2>3. HighInv(s) => HighInv(s)'
    BY <1>1, <1>3, <1>4 DEF HighInv, Moved, At
  <2>4. s = "video" => LastInv'
    BY <1>1, <1>3, <1>4, <1>5, Limits DEF LastInv, Aligning
  <2>5. QED
    BY <1>2, <1>4, <2>1, <2>2, <2>3, <2>4 DEF Own
<1>8. QED
  BY <1>1, <1>2, <1>3, <1>5, <1>6, <1>7, OwnStep DEF SendsType

(* The higher of two timestamps. *)
LEMMA LaterIs ==
    ASSUME NEW x \in Int, NEW y \in Int
    PROVE  /\ Later(x, y) \in Int /\ Later(x, y) >= x /\ Later(x, y) >= y
           /\ Later(x, y) \in {x, y}
BY DEF Later

(* The stream then stands at the timestamp of the send. *)
LEMMA WriteLtsKeeps ==
    ASSUME SendsInv, NEW s \in Stream, WriteLts(s)
    PROVE  SendsInv'
<1> DEFINE c == [sending[s] EXCEPT !.pc = "send"]
           sent == sending[s].ts + tm_offset[s]
<1>1. Step(s, c) /\ sending[s].pc = "lts" /\ lts' = [lts EXCEPT ![s] = sending[s].ts]
      /\ high' = Later(high, sent)
      /\ UNCHANGED <<tm_offset, need_cfg, enc_ts, last>>
  BY Zenon DEF WriteLts
<1>2. sending[s] \in Sending /\ Own(s) /\ SendsType
  BY SendTypes DEF SendsInv
<1>3. c \in Sending /\ c.new = sending[s].new /\ c.ts = sending[s].ts /\ c.pc = "send"
  BY <1>2 DEF Sending
<1>4. sending'[s] = c /\ (Calm' => Calm) /\ (~crossed' => ~crossed)
  BY <1>1, StepCalm
<1> HIDE DEF c
<1>5. sending[s].ts \in Nat /\ sent \in Int /\ lts' \in [Stream -> Nat]
      /\ lts'[s] = sending[s].ts /\ \A t \in Stream \ {s} : lts'[t] = lts[t]
  BY <1>1, <1>2 DEF SendsType, Sending
<1>6. high' \in Int /\ high' >= high /\ high' >= sent
  BY <1>1, <1>2, <1>5, LaterIs DEF SendsType
<1>7. Own(s)'
  <2>1. SendOf(s)'
    BY <1>1, <1>2, <1>3, <1>4, <1>5 DEF SendOf, Own, Aligning
  <2>2. OffsetsCurrent(s)' /\ LtsCurrent(s)'
    BY <1>3, <1>4 DEF OffsetsCurrent, LtsCurrent
  <2>3. HighInv(s)'
    BY <1>1, <1>3, <1>4, <1>5, <1>6 DEF HighInv, Moved, At
  <2>4. s = "video" /\ LastInv => LastInv'
    BY <1>1, <1>3, <1>4 DEF LastInv, Aligning
  <2>5. QED
    BY <1>2, <1>4, <2>1, <2>2, <2>3, <2>4 DEF Own
<1>8. QED
  BY <1>1, <1>2, <1>3, <1>5, <1>6, <1>7, OwnStep DEF SendsType

(* The data packet has it too, and the send is over. *)
LEMMA SendDataKeeps ==
    ASSUME SendsInv, NEW s \in Stream, SendData(s)
    PROVE  SendsInv'
<1> DEFINE sent == sending[s].ts + tm_offset[s]
<1>1. Step(s, NotSending) /\ sending[s].pc = "send" /\ last' = [last EXCEPT ![s] = sent]
      /\ high' = Later(high, sent)
      /\ UNCHANGED <<lts, tm_offset, need_cfg, enc_ts>>
  BY Zenon DEF SendData
<1>2. sending[s] \in Sending /\ Own(s) /\ SendsType
  BY SendTypes DEF SendsInv
<1>3. NotSending \in Sending /\ NotSending.pc = "idle" /\ NotSending.new = FALSE
  BY NotSendingIs
<1>4. sending'[s] = NotSending /\ (Calm' => Calm) /\ (~crossed' => ~crossed)
  BY <1>1, StepCalm
<1>5. sent \in Int /\ last' \in [Stream -> Int] /\ last'[s] = sent
      /\ \A t \in Stream \ {s} : last'[t] = last[t]
  BY <1>1, <1>2 DEF SendsType, Sending
<1>6. high' \in Int /\ high' >= high
  BY <1>1, <1>2, <1>5, LaterIs DEF SendsType
<1>7. sent = At(s) /\ lts[s] \in Nat /\ tm_offset[s] \in Int /\ high \in Int
  BY <1>1, <1>2 DEF Own, SendOf, At, SendsType
<1>8. Own(s)'
  <2>1. SendOf(s)'
    <3>1. enc_ts'[s] = lts'[s]
      BY <1>1, <1>2 DEF Own, SendOf
    <3>2. QED
      BY <1>3, <1>4, <3>1 DEF SendOf, Aligning
  <2>2. OffsetsCurrent(s)' /\ LtsCurrent(s)'
    BY <1>3, <1>4 DEF OffsetsCurrent, LtsCurrent
  <2>3. HighInv(s) => HighInv(s)'
    BY <1>1, <1>3, <1>4, <1>6, <1>7 DEF HighInv, Moved, At
  <2>4. s = "video" => LastInv'
    BY <1>1, <1>3, <1>4, <1>5, <1>7 DEF LastInv, Aligning, At
  <2>5. QED
    BY <1>2, <1>4, <2>1, <2>2, <2>3, <2>4 DEF Own
<1>9. QED
  BY <1>1, <1>2, <1>3, <1>5, <1>6, <1>8, OwnStep DEF SendsType

(* An encoder that starts again touches neither DataInfo. *)
LEMMA RestartKeeps ==
    ASSUME SendsInv, NEW s \in Stream, Restart(s)
    PROVE  SendsInv'
<1>1. /\ sending[s] = NotSending /\ enc_ts' = [enc_ts EXCEPT ![s] = None]
      /\ UNCHANGED <<lts, tm_offset, need_cfg, sending, last, high, two_rebase, crossed>>
  BY Zenon DEF Restart, shared
<1>2. sending[s].pc = "idle"
  BY <1>1, NotSendingIs
<1>3. SendsType /\ SendsType'
  BY <1>1 DEF SendsInv, SendsType
<1>4. \A t \in Stream : SendOf(t)'
  <2> TAKE t \in Stream
  <2>1. SendOf(t)
    BY DEF SendsInv
  <2>2. CASE t = s
    BY <1>1, <1>2, <1>3, <2>1, <2>2 DEF SendOf, SendsType, Aligning
  <2>3. CASE t # s
    BY <1>1, <1>3, <2>1, <2>3 DEF SendOf, SendsType
  <2>4. QED
    BY <2>2, <2>3
<1>5. LastInv' = LastInv /\ Calm' = Calm
  BY <1>1 DEF LastInv, Calm, At
<1>6. \A t \in Stream : /\ Rebasing(t)' = Rebasing(t)
                        /\ OffsetsCurrent(t)' = OffsetsCurrent(t)
                        /\ LtsCurrent(t)' = LtsCurrent(t) /\ HighInv(t)' = HighInv(t)
  BY <1>1 DEF Rebasing, OffsetsCurrent, LtsCurrent, HighInv, Moved, At
<1>7. QED
  BY <1>1, <1>3, <1>4, <1>5, <1>6 DEF SendsInv

(* At the start no stream has been moved, and nothing sent.                *)
LEMMA SendsStart == SendsInit => SendsInv
<1> SUFFICES ASSUME SendsInit PROVE SendsInv
  OBVIOUS
<1>1. \A s \in Stream : /\ lts[s] = 0 /\ tm_offset[s] = 0 /\ enc_ts[s] = None /\ last[s] = 0
                        /\ sending[s] = NotSending
  BY DEF SendsInit
<1>2. high = 0 /\ two_rebase = FALSE /\ crossed = FALSE
  BY DEF SendsInit
<1>3. NotSending \in Sending /\ NotSending.pc = "idle" /\ NotSending.new = FALSE
  BY NotSendingIs
<1>4. SendsType
  <2>1. /\ lts \in [Stream -> Nat] /\ tm_offset \in [Stream -> Int]
        /\ need_cfg \in [Stream -> BOOLEAN] /\ last \in [Stream -> Int]
    BY DEF SendsInit
  <2>2. enc_ts \in [Stream -> Nat \cup {None}] /\ sending \in [Stream -> Sending]
    BY <1>3 DEF SendsInit
  <2>3. high \in Int /\ two_rebase \in BOOLEAN /\ crossed \in BOOLEAN
    <3>1. high \in Int
      BY <1>2
    <3>2. two_rebase \in BOOLEAN /\ crossed \in BOOLEAN
      BY <1>2, Zenon
    <3>3. QED
      BY <3>1, <3>2
  <2>4. QED
    BY <2>1, <2>2, <2>3, Zenon DEF SendsType
<1>5. "video" \in Stream
  BY DEF Stream
<1>6. \A s \in Stream : SendOf(s) /\ OffsetsCurrent(s) /\ LtsCurrent(s) /\ HighInv(s)
                        /\ ~Rebasing(s)
  BY <1>1, <1>2, <1>3 DEF SendOf, OffsetsCurrent, LtsCurrent, HighInv, Moved, At, Rebasing, Aligning
<1>7. LastInv
  BY <1>1, <1>3, <1>5 DEF LastInv, At
<1>8. QED
  BY <1>4, <1>5, <1>6, <1>7 DEF SendsInv

(* A step of something else changes nothing. *)
LEMMA SendsStutter == SendsInv /\ UNCHANGED sendsVars => SendsInv'
<1> SUFFICES ASSUME SendsInv, UNCHANGED sendsVars PROVE SendsInv'
  OBVIOUS
<1>1. UNCHANGED <<lts, tm_offset, need_cfg, enc_ts, sending, last, high, two_rebase, crossed>>
  BY DEF sendsVars
<1>2. SendsType' = SendsType /\ LastInv' = LastInv /\ Calm' = Calm
  BY <1>1 DEF SendsType, LastInv, Calm, At
<1>3. \A t \in Stream : /\ Rebasing(t)' = Rebasing(t) /\ SendOf(t)' = SendOf(t)
                        /\ OffsetsCurrent(t)' = OffsetsCurrent(t)
                        /\ LtsCurrent(t)' = LtsCurrent(t) /\ HighInv(t)' = HighInv(t)
  BY <1>1 DEF Rebasing, OffsetsCurrent, LtsCurrent, HighInv, Moved, At, SendOf
<1>4. QED
  BY <1>1, <1>2, <1>3 DEF SendsInv

(* Every step of either thread keeps the invariant. *)
LEMMA SendsStep == SendsInv /\ [SendsNext]_sendsVars => SendsInv'
<1> SUFFICES ASSUME SendsInv, [SendsNext]_sendsVars PROVE SendsInv'
  OBVIOUS
<1>1. CASE SendsNext
  <2>1. PICK s \in Stream :
          \/ Restart(s)
          \/ \E ts \in 0..MaxTs, key_frame, sps_pps_changed \in BOOLEAN :
                Send(s, ts, key_frame, sps_pps_changed)
          \/ \E f \in Field : Read(s, f)
          \/ \E reread \in BOOLEAN : Align(s, reread) \/ Add(s, reread)
          \/ AlignWrite(s) \/ AddWrite(s) \/ SendConfig(s) \/ WriteLts(s) \/ SendData(s)
    BY <1>1 DEF SendsNext
  <2>2. CASE Restart(s)
    BY <2>2, RestartKeeps
  <2>3. CASE \E ts \in 0..MaxTs, key_frame, sps_pps_changed \in BOOLEAN :
                Send(s, ts, key_frame, sps_pps_changed)
    BY <2>3, SendKeeps
  <2>4. CASE \E f \in Field : Read(s, f)
    BY <2>4, ReadKeeps
  <2>5. CASE \E reread \in BOOLEAN : Align(s, reread) \/ Add(s, reread)
    BY <2>5, AlignKeeps, AddKeeps
  <2>6. CASE AlignWrite(s)
    BY <2>6, AlignWriteKeeps
  <2>7. CASE AddWrite(s)
    BY <2>7, AddWriteKeeps
  <2>8. CASE SendConfig(s)
    BY <2>8, SendConfigKeeps
  <2>9. CASE WriteLts(s)
    BY <2>9, WriteLtsKeeps
  <2>10. CASE SendData(s)
    BY <2>10, SendDataKeeps
  <2>11. QED
    BY <2>1, <2>2, <2>3, <2>4, <2>5, <2>6, <2>7, <2>8, <2>9, <2>10
<1>2. CASE UNCHANGED sendsVars
  BY <1>2, SendsStutter
<1>3. QED
  BY <1>1, <1>2

(* What the sends of both threads keep, wherever they interleave.          *)
THEOREM SendsInvariance == SendsSpec => []SendsInv
<1>1. SendsInit => SendsInv
  BY SendsStart
<1>2. SendsInv /\ [SendsNext]_sendsVars => SendsInv'
  BY SendsStep
<1>3. QED
  BY <1>1, <1>2, PTL DEF SendsSpec

(* Only the two calls that put a video packet into the list change the     *)
(* last timestamp of video.                                                *)
LEMMA VideoSent ==
    ASSUME SendsInv, SendsNext, last'["video"] # last["video"]
    PROVE  /\ sending["video"].pc \in {"cfg", "send"}
           /\ last'["video"] = sending["video"].ts + tm_offset["video"]
           /\ two_rebase => two_rebase'
           /\ crossed => crossed'
<1>1. last \in [Stream -> Int] /\ "video" \in Stream
  BY DEF SendsInv, SendsType, Stream
<1>2. PICK s \in Stream : SendConfig(s) \/ SendData(s)
  <2>1. PICK s \in Stream :
          \/ Restart(s)
          \/ \E ts \in 0..MaxTs, key_frame, sps_pps_changed \in BOOLEAN :
                Send(s, ts, key_frame, sps_pps_changed)
          \/ \E f \in Field : Read(s, f)
          \/ \E reread \in BOOLEAN : Align(s, reread) \/ Add(s, reread)
          \/ AlignWrite(s) \/ AddWrite(s) \/ SendConfig(s) \/ WriteLts(s) \/ SendData(s)
    BY DEF SendsNext
  <2>2. ~Restart(s) /\ ~AlignWrite(s) /\ ~AddWrite(s) /\ ~WriteLts(s)
    BY DEF Restart, AlignWrite, AddWrite, WriteLts
  <2>3. ~\E ts \in 0..MaxTs, key_frame, sps_pps_changed \in BOOLEAN :
            Send(s, ts, key_frame, sps_pps_changed)
    BY DEF Send
  <2>4. ~\E f \in Field : Read(s, f)
    BY DEF Read
  <2>5. ~\E reread \in BOOLEAN : Align(s, reread) \/ Add(s, reread)
    BY DEF Align, Add
  <2>6. QED
    BY <2>1, <2>2, <2>3, <2>4, <2>5
<1>3. sending[s].pc \in {"cfg", "send"} /\ last' = [last EXCEPT ![s] = sending[s].ts + tm_offset[s]]
  BY <1>2 DEF SendConfig, SendData
<1>4. s = "video"
  BY <1>1, <1>3
<1>5. last'["video"] = sending["video"].ts + tm_offset["video"]
  BY <1>1, <1>3, <1>4
<1>6. PICK c : Step(s, c)
  BY <1>2 DEF SendConfig, SendData
<1>7. (two_rebase => two_rebase') /\ (crossed => crossed')
  BY <1>6 DEF Step
<1>8. QED
  BY <1>3, <1>4, <1>5, <1>7

(* However the rebases of send_video and send_audio race, video goes back  *)
(* by more than the threshold only once both threads rebased at the same   *)
(* time: one rebase alone goes on from where its stream stands, and a      *)
(* send that is no rebase from a timestamp it was just compared with.      *)
THEOREM FarBackOverlap == SendsSpec => FarBackNeedsOverlap
<1> DEFINE P == last'["video"] < last["video"] - Threshold => two_rebase
<1>1. SendsInv /\ [SendsNext]_sendsVars => [P]_sendsVars
  <2> SUFFICES ASSUME SendsInv, SendsNext, last'["video"] < last["video"] - Threshold,
                      ~two_rebase
               PROVE  FALSE
    <3>1. SendsInv => two_rebase \in BOOLEAN
      BY DEF SendsInv, SendsType
    <3>2. QED
      BY <3>1
  <2>1. /\ last["video"] \in Int /\ Threshold \in Nat /\ sending["video"] \in Sending
        /\ tm_offset["video"] \in Int
    BY Limits DEF SendsInv, SendsType, Stream
  <2>2. last'["video"] # last["video"]
    BY <2>1
  <2>3. sending["video"].pc \in {"cfg", "send"}
        /\ last'["video"] = sending["video"].ts + tm_offset["video"]
    BY <2>2, VideoSent
  <2>4. last["video"] <= sending["video"].ts + tm_offset["video"] + Threshold
    BY <2>3 DEF SendsInv, Calm, LastInv
  <2>5. sending["video"].ts \in Nat
    BY <2>1 DEF Sending
  <2>6. QED
    BY <2>1, <2>3, <2>4, <2>5
<1>2. QED
  BY <1>1, SendsInvariance, PTL DEF SendsSpec, FarBackNeedsOverlap

(* A new video stream starts between the last video packet and the highest *)
(* timestamp that was reached, unless a thread wrote a last timestamp or   *)
(* an offset while the other was rebasing.                                 *)
THEOREM StartsWithin == SendsSpec => StartsWithinUnlessCrossed
<1> DEFINE P == sending["video"].new /\ last'["video"] # last["video"] =>
                  crossed \/ last'["video"] \in last["video"]..Later(high, last["video"])
<1>1. SendsInv /\ [SendsNext]_sendsVars => [P]_sendsVars
  <2> SUFFICES ASSUME SendsInv, SendsNext, sending["video"].new,
                      last'["video"] # last["video"], ~crossed
               PROVE  last'["video"] \in last["video"]..Later(high, last["video"])
    <3>1. SendsInv => crossed \in BOOLEAN
      BY DEF SendsInv, SendsType
    <3>2. QED
      BY <3>1
  <2>1. /\ last["video"] \in Int /\ high \in Int /\ sending["video"] \in Sending
        /\ tm_offset["video"] \in Int /\ "video" \in Stream
    BY DEF SendsInv, SendsType, Stream
  <2>2. sending["video"].pc \in {"cfg", "send"}
        /\ last'["video"] = sending["video"].ts + tm_offset["video"]
    BY VideoSent
  <2>3. sending["video"].ts + tm_offset["video"] \in Int
    BY <2>1 DEF Sending
  <2>4. last["video"] <= last'["video"]
    BY <2>2 DEF SendsInv, Calm, LastInv
  <2>5. HighInv("video") /\ SendOf("video")
    BY <2>1 DEF SendsInv
  <2>6. last'["video"] <= high
    BY <2>2, <2>5 DEF HighInv, Moved, SendOf, At
  <2>7. Later(high, last["video"]) \in Int /\ Later(high, last["video"]) >= high
    BY <2>1, LaterIs
  <2>8. QED
    BY <2>1, <2>2, <2>3, <2>4, <2>6, <2>7
<1>2. QED
  BY <1>1, SendsInvariance, PTL DEF SendsSpec, StartsWithinUnlessCrossed
-----------------------------------------------------------------------------
(***************************************************************************)
(* Last, the packet of a frame carries the units x264 wrote, for all units *)
(* that hold no start code; and the parameter sets sent are the encoder's. *)
(*                                                                         *)
(* The operators that run over bytes and units are recursive functions:    *)
(* each is found by giving a function that satisfies its equation, since   *)
(* the equation has one solution (Agree).                                  *)
(***************************************************************************)
(* Induction over the natural numbers, for the recursive functions. *)
Less == OpToRel(<, Nat)

LEMMA LessWF == IsWellFoundedOn(Less, Nat)
BY NatLessThanWellFounded DEF Less

LEMMA LessIs == \A x, y \in Nat : <<x, y>> \in Less <=> x < y
BY DEF OpToRel, Less

(* A set with 0, and with the successor of each of its elements, is Nat. *)
LEMMA SetInduction ==
    ASSUME NEW S \in SUBSET Nat, 0 \in S, \A k \in S : k + 1 \in S
    PROVE  S = Nat
<1> SUFFICES ASSUME S # Nat PROVE FALSE
  OBVIOUS
<1> DEFINE T == Nat \ S
<1>1. PICK x \in T : \A y \in T : ~ (<<y, x>> \in Less)
  <2>1. T \subseteq Nat /\ T # {}
    OBVIOUS
  <2> HIDE DEF T
  <2>2. QED
    BY <2>1, LessWF, WFMin
<1>2. x # 0 /\ x - 1 \in Nat /\ x \in Nat
  OBVIOUS
<1>3. x - 1 \in T
  BY <1>2
<1>4. QED
  <2>1. x - 1 < x
    BY <1>2
  <2>2. <<x - 1, x>> \in Less
    BY <1>2, <2>1, LessIs
  <2>3. QED
    BY <1>1, <1>3, <2>2

(* Functions that begin alike and go on alike are alike. *)
LEMMA Agree ==
    ASSUME NEW m \in Nat, NEW f, NEW g, f[0] = g[0],
           \A i \in 1..m : f[i - 1] = g[i - 1] => f[i] = g[i]
    PROVE  \A i \in 0..m : f[i] = g[i]
<1> DEFINE N == {k \in Nat : k <= m => f[k] = g[k]}
<1>1. 0 \in N
  OBVIOUS
<1>2. ASSUME NEW k \in N
      PROVE  k + 1 \in N
  <2>1. k + 1 <= m => k + 1 \in 1..m /\ k + 1 - 1 = k /\ k <= m
    OBVIOUS
  <2>2. QED
    BY <2>1
<1>3. N \in SUBSET Nat
  OBVIOUS
<1> HIDE DEF N
<1>4. N = Nat
  BY <1>1, <1>2, <1>3, SetInduction
<1>5. QED
  BY <1>4 DEF N

LEMMA Alike ==
    \A m \in Nat : \A x, y :
        x[0] = y[0] /\ (\A i \in 1..m : x[i - 1] = y[i - 1] => x[i] = y[i])
        => \A i \in 0..m : x[i] = y[i]
BY Agree

(* A function on 0..m can be computed from step to step. *)
Steps(S, m) == [(1..m) \X S -> S]

Computed(f, S, base, step, m) ==
    /\ f \in [0..m -> S] /\ f[0] = base
    /\ \A i \in 1..m : f[i] = step[<<i, f[i - 1]>>]

LEMMA Recursion ==
    ASSUME NEW S, NEW base \in S, NEW m \in Nat, NEW step \in Steps(S, m)
    PROVE  \E f : Computed(f, S, base, step, m)
<1> USE DEF Steps, Computed
<1> DEFINE C(f, k) == Computed(f, S, base, step, k)
           N == {k \in Nat : k <= m => \E f : C(f, k)}
<1>1. 0 \in N
  <2>1. C([i \in 0..0 |-> base], 0)
    OBVIOUS
  <2>2. QED
    BY <2>1
<1>2. ASSUME NEW k \in N
      PROVE  k + 1 \in N
  <2> SUFFICES ASSUME k + 1 <= m PROVE \E f : C(f, k + 1)
    OBVIOUS
  <2>1. k \in Nat /\ k <= m
    OBVIOUS
  <2>2. PICK f : C(f, k)
    BY <2>1
  <2> DEFINE v == step[<<k + 1, f[k]>>]
             g == [i \in 0..(k + 1) |-> IF i <= k THEN f[i] ELSE v]
  <2>3. f[k] \in S /\ v \in S
    <3>1. f[k] \in S
      BY <2>1, <2>2
    <3>2. k + 1 \in 1..m
      BY <2>1
    <3>3. QED
      BY <3>1, <3>2
  <2>4. g \in [0..(k + 1) -> S] /\ g[k + 1] = v /\ \A i \in 0..k : g[i] = f[i]
    BY <2>1, <2>2, <2>3
  <2> HIDE DEF g
  <2>5. g[0] = base
    BY <2>1, <2>2, <2>4
  <2>6. ASSUME NEW i \in 1..(k + 1)
        PROVE  g[i] = step[<<i, g[i - 1]>>]
    <3>1. CASE i = k + 1
      <4>1. i - 1 = k /\ k \in 0..k
        BY <2>1, <3>1
      <4>2. QED
        BY <2>4, <3>1, <4>1
    <3>2. CASE i # k + 1
      <4>1. i \in 1..k /\ i \in 0..k /\ i - 1 \in 0..k
        BY <2>1, <3>2
      <4>2. QED
        BY <2>2, <2>4, <4>1
    <3>3. QED
      BY <3>1, <3>2
  <2>7. QED
    BY <2>4, <2>5, <2>6
<1>3. N \in SUBSET Nat
  OBVIOUS
<1> HIDE DEF N
<1>4. N = Nat
  BY <1>1, <1>2, <1>3, SetInduction
<1>5. m \in N /\ m <= m
  BY <1>4
<1>6. QED
  BY <1>5, Zenon DEF N
-----------------------------------------------------------------------------
(* A frame as x264 writes it. *)
Good(f) == f.nals \in Seq(Unit) /\ f.codes \in [1..Len(f.nals) -> {3, 4}]

(* A unit with the start code before it. *)
Chunk(f, i) == StartCode(f.codes[i]) \o f.nals[i]

LEMMA UnitIs ==
    ASSUME NEW u \in Unit
    PROVE  /\ u \in Seq(Nat) /\ Len(u) \in Nat /\ Len(u) >= 1 /\ u[Len(u)] # 0
           /\ \A i \in 1..Len(u) : u[i] \in Nat
           /\ \A i \in 1..Len(u) - 2 : ~(u[i] = 0 /\ u[i + 1] = 0 /\ u[i + 2] \in {0, 1})
<1>1. u \in Seq(Nat) /\ u # <<>> /\ u[Len(u)] # 0
      /\ \A i \in 1..Len(u) - 2 : ~(u[i] = 0 /\ u[i + 1] = 0 /\ u[i + 2] \in {0, 1})
  BY ParserAssumption DEF ParserAssumption
<1>2. Len(u) \in Nat /\ Len(u) >= 1
  BY <1>1
<1>3. \A i \in 1..Len(u) : u[i] \in Nat
  BY <1>1
<1>4. QED
  BY <1>1, <1>2, <1>3

(* Two sequences, one after the other. *)
IsJoined(s, t, w) ==
    /\ Len(w) = Len(s) + Len(t)
    /\ \A j \in 1..Len(s) : w[j] = s[j]
    /\ \A j \in 1..Len(t) : w[Len(s) + j] = t[j]

LEMMA Joined ==
    ASSUME NEW T, NEW s \in Seq(T), NEW t \in Seq(T)
    PROVE  /\ s \o t \in Seq(T) /\ Len(s \o t) = Len(s) + Len(t)
           /\ \A j \in 1..Len(s) : (s \o t)[j] = s[j]
           /\ \A j \in 1..Len(t) : (s \o t)[Len(s) + j] = t[j]
OBVIOUS

LEMMA UnitsJoined ==
    \A s, t \in Seq(Unit) : s \o t \in Seq(Unit) /\ IsJoined(s, t, s \o t)
BY DEF IsJoined

LEMMA ChunkIs ==
    ASSUME NEW f, Good(f), NEW i \in 1..Len(f.nals)
    PROVE  LET u == f.nals[i]
               c == f.codes[i]
           IN  /\ u \in Unit /\ c \in {3, 4}
               /\ Chunk(f, i) \in Seq(Nat) /\ Len(Chunk(f, i)) = c + Len(u)
               /\ Chunk(f, i)[1] = 0 /\ Chunk(f, i)[2] = 0
               /\ c = 3 => Chunk(f, i)[3] = 1
               /\ c = 4 => Chunk(f, i)[3] = 0 /\ Chunk(f, i)[4] = 1
               /\ \A j \in 1..Len(u) : Chunk(f, i)[c + j] = u[j]
<1> DEFINE u == f.nals[i]
           c == f.codes[i]
<1>1. u \in Unit /\ c \in {3, 4}
  BY DEF Good
<1>2. u \in Seq(Nat) /\ Len(u) \in Nat
  BY <1>1, UnitIs
<1> HIDE DEF u, c
<1>3. CASE c = 3
  <2> DEFINE s == <<0, 0, 1>>
  <2>1. StartCode(c) = s /\ s \in Seq(Nat) /\ Len(s) = 3 /\ s[1] = 0 /\ s[2] = 0 /\ s[3] = 1
    BY <1>3 DEF StartCode
  <2> HIDE DEF s
  <2>2. /\ s \o u \in Seq(Nat) /\ Len(s \o u) = 3 + Len(u)
        /\ \A j \in 1..3 : (s \o u)[j] = s[j]
        /\ \A j \in 1..Len(u) : (s \o u)[3 + j] = u[j]
    <3>1. /\ s \o u \in Seq(Nat) /\ Len(s \o u) = Len(s) + Len(u)
          /\ \A j \in 1..Len(s) : (s \o u)[j] = s[j]
          /\ \A j \in 1..Len(u) : (s \o u)[Len(s) + j] = u[j]
      <4>1. s \in Seq(Nat)
        BY <2>1
      <4>2. QED
        BY <1>2, <4>1, Joined
    <3>2. QED
      BY <2>1, <3>1
  <2> DEFINE t == s \o u
  <2>3. /\ t \in Seq(Nat) /\ Len(t) = 3 + Len(u)
        /\ t[1] = 0 /\ t[2] = 0 /\ t[3] = 1
        /\ \A j \in 1..Len(u) : t[3 + j] = u[j]
    <3> HIDE DEF t
    <3>1. \A j \in 1..3 : t[j] = s[j]
      BY <2>2 DEF t
    <3>2. t[1] = s[1] /\ t[2] = s[2] /\ t[3] = s[3]
      BY <3>1
    <3>3. QED
      BY <2>1, <2>2, <3>2, Zenon DEF t
  <2>4. Chunk(f, i) = t /\ c # 4
    BY <1>3, <2>1 DEF Chunk, u, c
  <2> HIDE DEF t
  <2>5. QED
    BY <1>1, <1>3, <2>3, <2>4, Zenon DEF u, c
<1>4. CASE c = 4
  <2> DEFINE s == <<0, 0, 0, 1>>
  <2>1. StartCode(c) = s /\ s \in Seq(Nat) /\ Len(s) = 4 /\ s[1] = 0 /\ s[2] = 0 /\ s[3] = 0
        /\ s[4] = 1
    BY <1>4 DEF StartCode
  <2> HIDE DEF s
  <2>2. /\ s \o u \in Seq(Nat) /\ Len(s \o u) = 4 + Len(u)
        /\ \A j \in 1..4 : (s \o u)[j] = s[j]
        /\ \A j \in 1..Len(u) : (s \o u)[4 + j] = u[j]
    <3>1. /\ s \o u \in Seq(Nat) /\ Len(s \o u) = Len(s) + Len(u)
          /\ \A j \in 1..Len(s) : (s \o u)[j] = s[j]
          /\ \A j \in 1..Len(u) : (s \o u)[Len(s) + j] = u[j]
      <4>1. s \in Seq(Nat)
        BY <2>1
      <4>2. QED
        BY <1>2, <4>1, Joined
    <3>2. QED
      BY <2>1, <3>1
  <2> DEFINE t == s \o u
  <2>3. /\ t \in Seq(Nat) /\ Len(t) = 4 + Len(u)
        /\ t[1] = 0 /\ t[2] = 0 /\ t[3] = 0 /\ t[4] = 1
        /\ \A j \in 1..Len(u) : t[4 + j] = u[j]
    <3> HIDE DEF t
    <3>1. \A j \in 1..4 : t[j] = s[j]
      BY <2>2 DEF t
    <3>2. t[1] = s[1] /\ t[2] = s[2] /\ t[3] = s[3] /\ t[4] = s[4]
      BY <3>1
    <3>3. QED
      BY <2>1, <2>2, <3>2, Zenon DEF t
  <2>4. Chunk(f, i) = t /\ c # 3
    BY <1>4, <2>1 DEF Chunk, u, c
  <2> HIDE DEF t
  <2>5. QED
    BY <1>1, <1>4, <2>3, <2>4, Zenon DEF u, c
<1>5. QED
  BY <1>1, <1>3, <1>4

(* The bytes, unit by unit. *)
IsBytes(bs, f) ==
    /\ bs \in [0..Len(f.nals) -> Seq(Nat)] /\ bs[0] = <<>>
    /\ \A i \in 1..Len(f.nals) : bs[i] = bs[i - 1] \o Chunk(f, i)

LEMMA BytesAre ==
    ASSUME NEW f, Good(f)
    PROVE  \E bs : IsBytes(bs, f) /\ Bytes(f) = bs[Len(f.nals)]
<1> DEFINE m == Len(f.nals)
           step == [x \in (1..m) \X Seq(Nat) |-> x[2] \o Chunk(f, x[1])]
           Eq(bs) == bs = [i \in 0..m |-> IF i = 0 THEN <<>> ELSE bs[i - 1] \o Chunk(f, i)]
<1>1. m \in Nat
  BY DEF Good
<1>2. step \in [(1..m) \X Seq(Nat) -> Seq(Nat)]
  <2>1. \A i \in 1..m : Chunk(f, i) \in Seq(Nat)
    BY ChunkIs
  <2>2. \A x \in (1..m) \X Seq(Nat) : x[2] \o Chunk(f, x[1]) \in Seq(Nat)
    BY <2>1
  <2>3. QED
    BY <2>2
<1>3. PICK bs \in [0..m -> Seq(Nat)] :
           bs[0] = <<>> /\ \A i \in 1..m : bs[i] = step[<<i, bs[i - 1]>>]
  <2> DEFINE S == Seq(Nat)
             base == <<>>
  <2>1. base \in S
    OBVIOUS
  <2> HIDE DEF step, m, S, base
  <2>2. step \in Steps(S, m)
    BY <1>2 DEF S, Steps
  <2>3. \E bs : Computed(bs, S, base, step, m)
    BY <1>1, <2>1, <2>2, Recursion
  <2>4. QED
    BY <2>3 DEF S, base, Computed
<1>4. \A i \in 1..m : bs[i] = bs[i - 1] \o Chunk(f, i)
  <2> TAKE i \in 1..m
  <2>1. bs[i - 1] \in Seq(Nat)
    BY <1>1, <1>3
  <2>2. QED
    BY <1>3, <2>1
<1>5. Eq(bs)
  <2>1. bs = [i \in 0..m |-> bs[i]]
    BY <1>3
  <2>2. \A i \in 0..m : bs[i] = IF i = 0 THEN <<>> ELSE bs[i - 1] \o Chunk(f, i)
    <3>1. \A i \in 0..m : i = 0 \/ i \in 1..m
      BY <1>1
    <3>2. \A i \in 1..m : i # 0
      BY <1>1
    <3>3. QED
      BY <1>3, <1>4, <3>1, <3>2, Zenon
  <2>3. QED
    BY <2>1, <2>2, Zenon
<1> DEFINE w == CHOOSE v : Eq(v)
<1>6. Bytes(f) = w[m]
  BY DEF Bytes, Chunk
<1>7. Eq(w)
  BY <1>5
<1> HIDE DEF w
<1>8. w[0] = <<>> /\ \A i \in 1..m : w[i] = w[i - 1] \o Chunk(f, i)
  <2>1. \A i \in 0..m : w[i] = IF i = 0 THEN <<>> ELSE w[i - 1] \o Chunk(f, i)
    BY <1>7, Zenon
  <2>2. 0 \in 0..m /\ \A i \in 1..m : i \in 0..m /\ i # 0
    BY <1>1
  <2>3. QED
    BY <2>1, <2>2, Zenon
<1>9. \A i \in 0..m : w[i] = bs[i]
  <2>1. \A i \in 1..m : w[i - 1] = bs[i - 1] => w[i] = bs[i]
    BY <1>4, <1>8
  <2>2. w[0] = bs[0]
    BY <1>3, <1>8
  <2> HIDE DEF m
  <2>3. \A x, y : x[0] = y[0] /\ (\A i \in 1..m : x[i - 1] = y[i - 1] => x[i] = y[i])
                  => \A i \in 0..m : x[i] = y[i]
    BY <1>1, Alike, Zenon
  <2>4. QED
    BY <2>1, <2>2, <2>3, Zenon
<1>10. m \in 0..m
  BY <1>1
<1>11. QED
  BY <1>3, <1>4, <1>6, <1>9, <1>10 DEF IsBytes
-----------------------------------------------------------------------------
(* The first m units lie in their bytes one after the other. *)
Laid(bs, f, m) ==
    \A i \in 1..m :
        /\ Len(bs[i]) = Len(bs[i - 1]) + f.codes[i] + Len(f.nals[i])
        /\ Len(bs[i]) <= Len(bs[m])
        /\ \A j \in 1..f.codes[i] + Len(f.nals[i]) : bs[m][Len(bs[i - 1]) + j] = Chunk(f, i)[j]

LEMMA BytesLaid ==
    ASSUME NEW f, Good(f), NEW bs, IsBytes(bs, f)
    PROVE  \A m \in 0..Len(f.nals) : Laid(bs, f, m) /\ Len(bs[m]) >= 3 * m
<1> DEFINE len == Len(f.nals)
           N == {m \in Nat : m <= len => Laid(bs, f, m) /\ Len(bs[m]) >= 3 * m}
<1>0. len \in Nat
  BY DEF Good
<1>1. 0 \in N
  <2>1. bs[0] = <<>>
    BY DEF IsBytes
  <2>2. Len(bs[0]) >= 3 * 0
    BY <2>1
  <2>3. QED
    BY <2>2 DEF Laid
<1>2. ASSUME NEW m \in N
      PROVE  m + 1 \in N
  <2> SUFFICES ASSUME m + 1 <= len PROVE Laid(bs, f, m + 1) /\ Len(bs[m + 1]) >= 3 * (m + 1)
    OBVIOUS
  <2> DEFINE c == Chunk(f, m + 1)
  <2>1. m \in Nat /\ m + 1 \in 1..len /\ m \in 0..len /\ m + 1 - 1 = m
    BY <1>0
  <2>2. /\ c \in Seq(Nat) /\ Len(c) = f.codes[m + 1] + Len(f.nals[m + 1])
        /\ f.codes[m + 1] \in {3, 4} /\ Len(f.nals[m + 1]) \in Nat
    <3>1. f.nals[m + 1] \in Unit
      BY <2>1, ChunkIs
    <3>2. QED
      BY <2>1, <3>1, ChunkIs, UnitIs
  <2>3. bs[m] \in Seq(Nat) /\ bs[m + 1] = bs[m] \o c
    <3>1. bs \in [0..len -> Seq(Nat)] /\ \A i \in 1..len : bs[i] = bs[i - 1] \o Chunk(f, i)
      BY DEF IsBytes
    <3>2. PICK k \in 1..len : k = m + 1 /\ k - 1 = m
      BY <2>1
    <3>3. bs[k] = bs[m] \o Chunk(f, k)
      BY <3>1, <3>2
    <3>4. bs[m + 1] = bs[m] \o c
      BY <3>2, <3>3, Zenon
    <3>5. bs[m] \in Seq(Nat)
      BY <2>1, <3>1, Zenon
    <3>6. QED
      BY <3>4, <3>5
  <2>4. Laid(bs, f, m) /\ Len(bs[m]) >= 3 * m
    BY <2>1
  <2> DEFINE s == bs[m]
             t == bs[m + 1]
  <2>5. /\ t \in Seq(Nat) /\ Len(s) \in Nat /\ Len(t) = Len(s) + Len(c)
        /\ \A j \in 1..Len(s) : t[j] = s[j]
        /\ \A j \in 1..Len(c) : t[Len(s) + j] = c[j]
    <3>1. s \in Seq(Nat) /\ t = s \o c /\ c \in Seq(Nat)
      BY <2>2, <2>3
    <3> HIDE DEF c, s, t
    <3>2. Len(s) \in Nat
      BY <3>1
    <3>3. QED
      BY <3>1, <3>2, Joined
  <2>6. ASSUME NEW i \in 1..m
        PROVE  /\ Len(bs[i]) = Len(bs[i - 1]) + f.codes[i] + Len(f.nals[i])
               /\ Len(bs[i]) <= Len(t)
               /\ \A j \in 1..f.codes[i] + Len(f.nals[i]) :
                     t[Len(bs[i - 1]) + j] = Chunk(f, i)[j]
    <3>1. i \in 1..len /\ i \in 0..len /\ i - 1 \in 0..len
      BY <1>0, <2>1
    <3>2. bs[i] \in Seq(Nat) /\ bs[i - 1] \in Seq(Nat)
      BY <3>1 DEF IsBytes
    <3>3. f.nals[i] \in Unit /\ f.codes[i] \in {3, 4}
      BY <3>1, ChunkIs
    <3>4. Len(bs[i]) \in Nat /\ Len(bs[i - 1]) \in Nat /\ Len(f.nals[i]) \in Nat
      BY <3>2, <3>3, UnitIs
    <3>5. /\ Len(bs[i]) = Len(bs[i - 1]) + f.codes[i] + Len(f.nals[i])
          /\ Len(bs[i]) <= Len(s)
          /\ \A j \in 1..f.codes[i] + Len(f.nals[i]) :
                s[Len(bs[i - 1]) + j] = Chunk(f, i)[j]
      BY <2>4 DEF Laid
    <3> DEFINE x == Len(bs[i - 1])
               k == f.codes[i] + Len(f.nals[i])
    <3>6. /\ x \in Nat /\ k \in Nat /\ x + k <= Len(s) /\ Len(s) <= Len(t)
          /\ \A j \in 1..k : s[x + j] = Chunk(f, i)[j]
      <4>1. x \in Nat /\ k \in Nat /\ x + k <= Len(s)
        <5> DEFINE y == f.codes[i]
                   z == Len(f.nals[i])
                   l == Len(s)
        <5>1. y \in {3, 4} /\ z \in Nat /\ x \in Nat /\ Len(bs[i]) = x + y + z /\ Len(bs[i]) <= l
          BY <3>3, <3>4, <3>5, Zenon
        <5>2. l \in Nat /\ k = y + z
          BY <2>5
        <5> HIDE DEF x, y, z, k, l, s
        <5>3. x + k <= l /\ k \in Nat
          BY <5>1, <5>2
        <5>4. QED
          BY <5>1, <5>3 DEF l
      <4>2. Len(s) <= Len(t)
        <5> HIDE DEF s, t, c
        <5>1. Len(c) \in Nat
          BY <2>2
        <5>2. QED
          BY <2>5, <5>1
      <4>3. QED
        BY <3>5, <4>1, <4>2
    <3>7. Len(bs[i]) <= Len(t)
      <4>1. Len(bs[i]) <= Len(s) /\ Len(s) <= Len(t) /\ Len(bs[i]) \in Nat
        BY <3>4, <3>5, <3>6
      <4> HIDE DEF s, t
      <4>2. Len(s) \in Nat /\ Len(t) \in Nat
        BY <2>5
      <4>3. QED
        BY <4>1, <4>2
    <3> HIDE DEF s, t, c, x, k
    <3>8. \A j \in 1..k : t[x + j] = Chunk(f, i)[j]
      <4>1. \A j \in 1..k : x + j \in 1..Len(s)
        BY <2>5, <3>6
      <4>2. QED
        BY <2>5, <3>6, <4>1
    <3>9. QED
      BY <3>5, <3>7, <3>8 DEF x, k
  <2>7. /\ Len(t) = Len(s) + f.codes[m + 1] + Len(f.nals[m + 1])
        /\ \A j \in 1..f.codes[m + 1] + Len(f.nals[m + 1]) : t[Len(s) + j] = c[j]
        /\ Len(t) <= Len(t) /\ Len(t) >= 3 * (m + 1)
    <3> HIDE DEF s, t, c
    <3>1. Len(s) >= 3 * m
      BY <2>4 DEF s
    <3> DEFINE y == f.codes[m + 1]
               z == Len(f.nals[m + 1])
    <3>2. /\ y \in {3, 4} /\ z \in Nat /\ Len(c) = y + z /\ Len(s) \in Nat
          /\ Len(t) = Len(s) + Len(c)
      BY <2>2, <2>5
    <3>3. \A j \in 1..y + z : t[Len(s) + j] = c[j]
      BY <2>5, <3>2
    <3> HIDE DEF y, z
    <3>4. Len(t) = Len(s) + y + z /\ Len(t) <= Len(t) /\ Len(t) >= 3 * (m + 1)
      BY <2>1, <3>1, <3>2
    <3>5. QED
      BY <3>3, <3>4 DEF y, z
  <2>8. \A i \in 1..(m + 1) : i = m + 1 \/ i \in 1..m
    BY <2>1
  <2> HIDE DEF c
  <2>9. ASSUME NEW i \in 1..(m + 1)
        PROVE  /\ Len(bs[i]) = Len(bs[i - 1]) + f.codes[i] + Len(f.nals[i])
               /\ Len(bs[i]) <= Len(t)
               /\ \A j \in 1..f.codes[i] + Len(f.nals[i]) :
                     t[Len(bs[i - 1]) + j] = Chunk(f, i)[j]
    <3>1. CASE i \in 1..m
      BY <2>6, <3>1
    <3>2. CASE i = m + 1
      <4>1. i - 1 = m /\ bs[i] = t /\ bs[i - 1] = s /\ Chunk(f, i) = c
        BY <2>1, <3>2 DEF c
      <4> HIDE DEF s, t
      <4>2. QED
        BY <2>7, <3>2, <4>1
    <3>3. QED
      BY <2>8, <3>1, <3>2
  <2>10. QED
    BY <2>7, <2>9 DEF Laid
<1>3. N \in SUBSET Nat
  OBVIOUS
<1> HIDE DEF N
<1>4. N = Nat
  BY <1>1, <1>2, <1>3, SetInduction
<1>5. QED
  BY <1>0, <1>4 DEF N

(* The least of a set of numbers. *)
LEMMA MinIs ==
    ASSUME NEW S \in SUBSET Nat, NEW x \in S, \A y \in S : x <= y
    PROVE  Min(S) = x
<1>1. \E y \in S : \A z \in S : y <= z
  OBVIOUS
<1> DEFINE w == CHOOSE y \in S : \A z \in S : y <= z
<1>2. w \in S /\ \A z \in S : w <= z
  BY <1>1
<1>3. Min(S) = w
  BY Zenon DEF Min
<1> HIDE DEF w
<1>4. QED
  BY <1>2, <1>3

LEMMA PartOf ==
    ASSUME NEW s \in Seq(Nat), NEW x \in Nat, NEW y \in Nat, 1 <= x, x <= y, y <= Len(s)
    PROVE  /\ SubSeq(s, x, y) \in Seq(Nat) /\ Len(SubSeq(s, x, y)) = y - x + 1
           /\ \A j \in 1..y - x + 1 : SubSeq(s, x, y)[j] = s[x + j - 1]
OBVIOUS

(* After at bytes of dat come a start code of length c and the unit u, and *)
(* then another start code or the end. *)
LiesAt(dat, at, c, u) ==
    /\ at + c + Len(u) <= Len(dat)
    /\ dat[at + 1] = 0 /\ dat[at + 2] = 0
    /\ c = 3 => dat[at + 3] = 1
    /\ c = 4 => dat[at + 3] = 0 /\ dat[at + 4] = 1
    /\ \A j \in 1..Len(u) : dat[at + c + j] = u[j]
    /\ \/ at + c + Len(u) = Len(dat)
       \/ /\ at + c + Len(u) + 1 <= Len(dat)
          /\ dat[at + c + Len(u) + 1] = 0 /\ dat[at + c + Len(u) + 2] = 0
          /\ dat[at + c + Len(u) + 3] \in {0, 1}

(* The loop finds a unit where one lies. *)
LEMMA FindUnit ==
    \A nalus : \A dat \in Seq(Nat), at \in Nat, c \in {3, 4}, u \in Unit :
        LiesAt(dat, at, c, u) =>
            Find(dat, [at |-> at + 1, nalus |-> nalus]) =
                [at |-> at + c + Len(u) + 1, nalus |-> Append(nalus, u)]
<1> TAKE nalus
<1> TAKE dat \in Seq(Nat), at \in Nat, c \in {3, 4}, u \in Unit
<1> HAVE LiesAt(dat, at, c, u)
<1> USE DEF LiesAt
<1>1. /\ u \in Seq(Nat) /\ Len(u) \in Nat /\ Len(u) >= 1 /\ u[Len(u)] # 0 /\ Len(dat) \in Nat
      /\ \A i \in 1..Len(u) - 2 : ~(u[i] = 0 /\ u[i + 1] = 0 /\ u[i + 2] \in {0, 1})
  BY UnitIs
<1> DEFINE codes == {i \in at + 1..Len(dat) : STARTCODE3(dat, i)}
<1>2. NextStartcode(dat, at + 1) = at + c - 2
  <2> DEFINE S == codes \cup {Len(dat) + 1}
  <2>1. S \in SUBSET Nat
    BY <1>1
  <2>2. at + c - 2 \in codes
    <3>1. at + c - 2 \in at + 1..Len(dat)
      BY <1>1
    <3>2. CASE c = 3
      BY <3>1, <3>2 DEF STARTCODE3
    <3>3. CASE c = 4
      BY <3>1, <3>3 DEF STARTCODE3
    <3>4. QED
      BY <3>2, <3>3
  <2>3. \A y \in S : at + c - 2 <= y
    <3> TAKE y \in S
    <3>1. CASE y = Len(dat) + 1
      BY <1>1, <3>1
    <3>2. CASE y \in codes
      <4>1. y >= at + 1 /\ y \in Nat
        BY <3>2, <1>1
      <4>2. CASE c = 3
        BY <4>1, <4>2
      <4>3. CASE c = 4
        <5>1. y # at + 1
          BY <3>2, <4>3 DEF STARTCODE3
        <5>2. QED
          BY <4>1, <4>3, <5>1
      <4>4. QED
        BY <4>2, <4>3
    <3>3. QED
      BY <3>1, <3>2
  <2>4. at + c - 2 \in S
    BY <2>2
  <2>5. NextStartcode(dat, at + 1) = Min(S)
    BY DEF NextStartcode, FirstOf
  <2> HIDE DEF S
  <2>6. QED
    BY <2>1, <2>3, <2>4, <2>5, MinIs
<1> DEFINE start == at + c + 1
           end == at + c + Len(u) + 1
<1>3. start \in Nat /\ end \in Nat /\ start = at + c - 2 + 3 /\ end > start /\ start - 3 <= Len(dat)
      /\ end <= Len(dat) + 1
  <2> DEFINE x == Len(u)
             y == Len(dat)
  <2>1. x \in Nat /\ x >= 1 /\ y \in Nat /\ at + c + x <= y
    BY <1>1
  <2> HIDE DEF x, y
  <2>2. /\ at + c + 1 \in Nat /\ at + c + x + 1 \in Nat /\ at + c + 1 = at + c - 2 + 3
        /\ at + c + x + 1 > at + c + 1 /\ at + c + 1 - 3 <= y /\ at + c + x + 1 <= y + 1
    BY <2>1
  <2>3. QED
    BY <2>2 DEF x, y
<1>4. NaluEnd(dat, start) = end
  <2> DEFINE places == {i \in start..Len(dat) :
                            dat[i] = 0 /\ dat[i + 1] = 0 /\ dat[i + 2] \in {0, 1}}
             S == places \cup {Len(dat) + 1}
  <2>1. S \in SUBSET Nat
    <3>1. start \in Nat /\ Len(dat) + 1 \in Nat
      BY <1>1, <1>3
    <3>2. \A i \in start..Len(dat) : i \in Nat
      BY <3>1
    <3>3. QED
      BY <3>1, <3>2, Zenon
  <2>2. end \in S
    <3>1. CASE at + c + Len(u) = Len(dat)
      BY <3>1
    <3>2. CASE at + c + Len(u) # Len(dat)
      <4>1. /\ end <= Len(dat) /\ dat[end] = 0 /\ dat[at + c + Len(u) + 2] = 0
            /\ dat[at + c + Len(u) + 3] \in {0, 1}
        BY <3>2
      <4>2. end + 1 = at + c + Len(u) + 2 /\ end + 2 = at + c + Len(u) + 3
            /\ end \in start..Len(dat)
        BY <1>1, <1>3, <4>1
      <4> HIDE DEF end, start
      <4>3. end \in places
        BY <4>1, <4>2
      <4>4. QED
        BY <4>3
    <3>3. QED
      BY <3>1, <3>2
  <2>3. ASSUME NEW y \in places, y < end
        PROVE  FALSE
    <3> DEFINE j == y - at - c
    <3>1. j \in 1..Len(u) /\ y = at + c + j /\ y \in Nat
      BY <1>1, <2>3
    <3>2. dat[y] = u[j]
      BY <3>1
    <3>3. CASE j = Len(u)
      BY <1>1, <3>2, <3>3
    <3>4. CASE j = Len(u) - 1
      <4>1. j + 1 \in 1..Len(u) /\ y + 1 = at + c + (j + 1)
        BY <3>1, <3>4
      <4>2. dat[y + 1] = u[j + 1]
        BY <4>1
      <4>3. QED
        BY <1>1, <3>4, <4>2
    <3>5. CASE j <= Len(u) - 2
      <4>1. /\ j + 1 \in 1..Len(u) /\ y + 1 = at + c + (j + 1)
            /\ j + 2 \in 1..Len(u) /\ y + 2 = at + c + (j + 2)
        BY <1>1, <3>1, <3>5
      <4>2. dat[y + 1] = u[j + 1] /\ dat[y + 2] = u[j + 2]
        BY <4>1
      <4>3. j \in 1..Len(u) - 2
        BY <1>1, <3>1, <3>5
      <4> HIDE DEF j
      <4>4. QED
        BY <1>1, <3>2, <4>2, <4>3
    <3> HIDE DEF j
    <3>6. QED
      BY <1>1, <3>1, <3>3, <3>4, <3>5
  <2>4. \A y \in S : end <= y
    <3> TAKE y \in S
    <3>1. y \in Nat
      BY <2>1
    <3>2. CASE y = Len(dat) + 1
      BY <1>3, <3>2
    <3>3. CASE y \in places
      <4> HIDE DEF places, S, end
      <4>1. QED
        BY <1>3, <2>3, <3>1, <3>3
    <3>4. QED
      BY <3>2, <3>3
  <2>5. NaluEnd(dat, start) = Min(S)
    BY DEF NaluEnd, FirstOf
  <2> HIDE DEF S, end
  <2>6. QED
    BY <2>1, <2>2, <2>4, <2>5, MinIs
<1>5. SubSeq(dat, start, end - 1) = u
  <2> DEFINE w == SubSeq(dat, start, end - 1)
  <2>1. /\ w \in Seq(Nat) /\ Len(w) = Len(u)
        /\ \A j \in 1..Len(u) : w[j] = dat[start + j - 1]
    <3> DEFINE p == end - 1
    <3>1. p \in Int /\ start \in Int /\ start <= p /\ p - start + 1 = Len(u) /\ p <= Len(dat)
          /\ start >= 1
      BY <1>1, <1>3
    <3>2. w = SubSeq(dat, start, p)
      OBVIOUS
    <3> HIDE DEF p, start, end, w
    <3>3. start \in Nat /\ p \in Nat
      BY <3>1
    <3>4. LET v == SubSeq(dat, start, p)
          IN  /\ v \in Seq(Nat) /\ Len(v) = p - start + 1
              /\ \A j \in 1..p - start + 1 : v[j] = dat[start + j - 1]
      BY <3>1, <3>3, PartOf, Zenon
    <3>5. QED
      BY <3>1, <3>2, <3>4, Zenon
  <2>2. \A j \in 1..Len(u) : start + j - 1 = at + c + j
    BY <1>1
  <2>3. \A j \in 1..Len(u) : w[j] = u[j]
    BY <2>1, <2>2
  <2> HIDE DEF w
  <2>4. w = u
    BY <1>1, <2>1, <2>3, SeqEqual
  <2>5. QED
    BY <2>4 DEF w
<1> HIDE DEF start, end
<1>6. QED
  <2> DEFINE t == [at |-> at + 1, nalus |-> nalus]
  <2>1. t.at = at + 1 /\ t.nalus = nalus
    OBVIOUS
  <2> HIDE DEF t
  <2>2. NextStartcode(dat, t.at) + 3 = start
    BY <1>2, <1>3, <2>1
  <2>3. ~(start - 3 > Len(dat))
    BY <1>1, <1>3
  <2>4. Find(dat, t) = [at |-> end, nalus |-> Append(nalus, u)]
    BY <1>3, <1>4, <1>5, <2>1, <2>2, <2>3, Zenon DEF Find
  <2>5. QED
    BY <2>4 DEF t, end

(* At the end it finds nothing more. *)
LEMMA FindNone ==
    ASSUME NEW dat \in Seq(Nat), NEW t, t.at = Len(dat) + 1
    PROVE  Find(dat, t) = t
<1> DEFINE S == {i \in Len(dat) + 1..Len(dat) : STARTCODE3(dat, i)} \cup {Len(dat) + 1}
<1>1. Len(dat) \in Nat
  OBVIOUS
<1>2. S = {Len(dat) + 1}
  BY <1>1
<1>3. Min(S) = Len(dat) + 1
  <2> HIDE DEF S
  <2>1. S \in SUBSET Nat /\ Len(dat) + 1 \in S /\ \A y \in S : Len(dat) + 1 <= y
    BY <1>1, <1>2
  <2>2. QED
    BY <2>1, MinIs
<1>4. NextStartcode(dat, t.at) = Len(dat) + 1
  BY <1>3 DEF NextStartcode, FirstOf
<1> DEFINE start == NextStartcode(dat, t.at) + 3
<1>5. start - 3 > Len(dat)
  BY <1>1, <1>4
<1>6. Find(dat, t) = IF start - 3 > Len(dat) THEN t
                     ELSE [at |-> NaluEnd(dat, start),
                           nalus |-> IF NaluEnd(dat, start) > start
                                     THEN Append(t.nalus, SubSeq(dat, start, NaluEnd(dat, start) - 1))
                                     ELSE t.nalus]
  BY DEF Find
<1> HIDE DEF start
<1>7. QED
  BY <1>5, <1>6, Zenon
-----------------------------------------------------------------------------
(* What Split has found after k units. *)
Found(bs, f, k) == [at |-> Len(bs[k]) + 1, nalus |-> SubSeq(f.nals, 1, k)]

LEMMA FindNext ==
    ASSUME NEW f, Good(f), NEW bs, IsBytes(bs, f), NEW i \in 1..Len(f.nals)
    PROVE  Find(bs[Len(f.nals)], Found(bs, f, i - 1)) = Found(bs, f, i)
<1> DEFINE len == Len(f.nals)
           dat == bs[len]
           at == Len(bs[i - 1])
           c == f.codes[i]
           u == f.nals[i]
<1>1. /\ len \in Nat /\ i \in Nat /\ 1 <= i /\ i <= len /\ i \in 1..len /\ i - 1 \in 0..len /\ len \in 0..len
      /\ i \in 0..len
  BY DEF Good
<1>2. dat \in Seq(Nat) /\ at \in Nat
  <2>1. bs \in [0..len -> Seq(Nat)]
    BY DEF IsBytes
  <2>2. dat \in Seq(Nat) /\ bs[i - 1] \in Seq(Nat)
    BY <1>1, <2>1, Zenon
  <2>3. QED
    BY <2>2
<1>3. c \in {3, 4} /\ u \in Unit /\ Len(u) \in Nat /\ Len(u) >= 1
  <2>1. c \in {3, 4} /\ u \in Unit
    BY ChunkIs
  <2> HIDE DEF c, u
  <2>2. QED
    BY <2>1, UnitIs
<1>4. /\ Len(bs[i]) = at + c + Len(u)
      /\ Len(bs[i]) <= Len(dat)
      /\ \A j \in 1..c + Len(u) : dat[at + j] = Chunk(f, i)[j]
  <2>1. Laid(bs, f, len)
    BY <1>1, BytesLaid
  <2>2. QED
    BY <2>1 DEF Laid
<1>5. dat[at + 1] = 0 /\ dat[at + 2] = 0 /\ (c = 3 => dat[at + 3] = 1)
      /\ (c = 4 => dat[at + 3] = 0 /\ dat[at + 4] = 1)
  <2> DEFINE w == Chunk(f, i)
             d == dat
             l == at
  <2>1. /\ w[1] = 0 /\ w[2] = 0 /\ (c = 3 => w[3] = 1) /\ (c = 4 => w[3] = 0 /\ w[4] = 1)
    BY ChunkIs
  <2>2. \A j \in 1..c + Len(u) : d[l + j] = w[j]
    BY <1>4
  <2> HIDE DEF w, d, l, c, u
  <2>3. 1 \in 1..c + Len(u) /\ 2 \in 1..c + Len(u) /\ 3 \in 1..c + Len(u)
        /\ (c = 4 => 4 \in 1..c + Len(u))
    BY <1>3
  <2>4. /\ d[l + 1] = w[1] /\ d[l + 2] = w[2] /\ d[l + 3] = w[3] /\ (c = 4 => d[l + 4] = w[4])
    BY <2>2, <2>3
  <2>5. QED
    BY <2>1, <2>4 DEF d, l
<1>6. \A j \in 1..Len(u) : dat[at + c + j] = u[j]
  <2> DEFINE w == Chunk(f, i)
             d == dat
             l == at
  <2>1. \A j \in 1..Len(u) : w[c + j] = u[j]
    BY ChunkIs
  <2>2. \A j \in 1..c + Len(u) : d[l + j] = w[j]
    BY <1>4
  <2>3. l \in Nat
    BY <1>2
  <2> HIDE DEF w, d, l, c, u
  <2>4. ASSUME NEW j \in 1..Len(u)
        PROVE  d[l + c + j] = u[j]
    <3>1. c + j \in 1..c + Len(u) /\ l + c + j = l + (c + j)
      BY <1>3, <2>3
    <3>2. QED
      BY <2>1, <2>2, <3>1
  <2>5. QED
    BY <2>4 DEF d, l
<1>7. \/ at + c + Len(u) = Len(dat)
      \/ /\ at + c + Len(u) + 1 <= Len(dat)
         /\ dat[at + c + Len(u) + 1] = 0 /\ dat[at + c + Len(u) + 2] = 0
         /\ dat[at + c + Len(u) + 3] \in {0, 1}
  <2> DEFINE p == at + c + Len(u)
             d == dat
  <2>0. p = Len(bs[i])
    BY <1>4
  <2>1. CASE i = len
    BY <1>4, <2>1
  <2>2. CASE i # len
    <3>1. PICK k \in 1..len : k - 1 = i
      <4>1. i + 1 \in 1..len /\ i + 1 - 1 = i
        BY <1>1, <2>2
      <4>2. QED
        BY <4>1
    <3> DEFINE v == f.nals[k]
               e == f.codes[k]
               w == Chunk(f, k)
    <3>2. Laid(bs, f, len)
      BY <1>1, BytesLaid
    <3>3. /\ Len(bs[k]) = Len(bs[k - 1]) + e + Len(v) /\ Len(bs[k]) <= Len(d)
          /\ \A j \in 1..e + Len(v) : d[Len(bs[k - 1]) + j] = w[j]
      BY <3>2, Zenon DEF Laid
    <3>4. /\ Len(bs[k]) = p + e + Len(v) /\ Len(bs[k]) <= Len(d)
          /\ \A j \in 1..e + Len(v) : d[p + j] = w[j]
      BY <2>0, <3>1, <3>3, Zenon
    <3>5. /\ e \in {3, 4} /\ v \in Unit
          /\ w[1] = 0 /\ w[2] = 0 /\ (e = 3 => w[3] = 1) /\ (e = 4 => w[3] = 0)
      BY ChunkIs
    <3>6. p \in Nat
      <4> HIDE DEF at, c, u
      <4>1. QED
        BY <1>2, <1>3
    <3>7. Len(d) \in Nat
      BY <1>2
    <3> HIDE DEF v, e, w, p, d
    <3>8. Len(v) \in Nat /\ Len(v) >= 1
      BY <3>5, UnitIs
    <3>9. 1 \in 1..e + Len(v) /\ 2 \in 1..e + Len(v) /\ 3 \in 1..e + Len(v)
      BY <3>5, <3>8
    <3>10. d[p + 1] = w[1] /\ d[p + 2] = w[2] /\ d[p + 3] = w[3]
      BY <3>4, <3>9
    <3>11. p + 1 <= Len(d)
      BY <3>4, <3>5, <3>6, <3>7, <3>8
    <3>12. w[3] \in {0, 1}
      BY <3>5
    <3>13. /\ p + 1 <= Len(d) /\ d[p + 1] = 0 /\ d[p + 2] = 0 /\ d[p + 3] \in {0, 1}
      BY <3>5, <3>10, <3>11, <3>12
    <3>14. QED
      BY <3>13 DEF p, d
  <2>3. QED
    BY <2>1, <2>2
<1> DEFINE s == SubSeq(f.nals, 1, i - 1)
<1>8. Append(s, u) = SubSeq(f.nals, 1, i)
  <2>1. f.nals \in Seq(Unit)
    BY DEF Good
  <2>2. QED
    BY <1>1, <2>1
<1>9. at + c + Len(u) <= Len(dat)
  BY <1>4
<1>10. Find(dat, [at |-> at + 1, nalus |-> s]) = [at |-> at + c + Len(u) + 1, nalus |-> Append(s, u)]
  <2> HIDE DEF dat, at, c, u, s, len
  <2>1. LiesAt(dat, at, c, u)
    BY <1>5, <1>6, <1>7, <1>9, Zenon DEF LiesAt
  <2>2. dat \in Seq(Nat) /\ at \in Nat /\ c \in {3, 4} /\ u \in Unit
    BY <1>2, <1>3, Zenon
  <2>3. QED
    BY <2>1, <2>2, FindUnit, Zenon
<1>11. Found(bs, f, i - 1) = [at |-> at + 1, nalus |-> s]
  BY DEF Found
<1>12. Found(bs, f, i) = [at |-> at + c + Len(u) + 1, nalus |-> Append(s, u)]
  BY <1>4, <1>8, Zenon DEF Found
<1>13. QED
  BY <1>10, <1>11, <1>12, Zenon

(* Split finds the units that x264 wrote, and no others. *)
LEMMA SplitIs ==
    ASSUME NEW f, Good(f)
    PROVE  Split(Bytes(f)) = f.nals
<1> DEFINE len == Len(f.nals)
<1>1. len \in Nat /\ f.nals \in Seq(Unit)
  BY DEF Good
<1>2. PICK bs : IsBytes(bs, f) /\ Bytes(f) = bs[len]
  BY BytesAre
<1> DEFINE dat == bs[len]
           m == Turns(dat)
           F(i) == Found(bs, f, IF i <= len THEN i ELSE len)
           start == [at |-> 1, nalus |-> <<>>]
           Eq(h) == h = [i \in 0..m |-> IF i = 0 THEN start ELSE Find(dat, h[i - 1])]
           g == [i \in 0..m |-> F(i)]
           w == CHOOSE h : Eq(h)
<1>3. dat \in Seq(Nat) /\ Len(dat) \in Nat /\ m \in Nat /\ m >= len
  <2>1. dat \in Seq(Nat)
    <3>1. bs \in [0..len -> Seq(Nat)] /\ len \in 0..len
      BY <1>1, <1>2 DEF IsBytes
    <3>2. QED
      BY <3>1, Zenon
  <2>2. Len(dat) >= 3 * len
    BY <1>1, <1>2, BytesLaid
  <2> HIDE DEF dat, len
  <2>3. QED
    BY <1>1, <2>1, <2>2 DEF Turns
<1>4. F(0) = start
  <2>1. bs[0] = <<>>
    BY <1>2 DEF IsBytes
  <2>2. SubSeq(f.nals, 1, 0) = <<>> /\ Len(bs[0]) + 1 = 1
    BY <1>1, <2>1
  <2>3. 0 <= len
    BY <1>1
  <2>4. QED
    BY <2>2, <2>3, Zenon DEF Found
<1>5. ASSUME NEW i \in 1..m
      PROVE  Find(dat, F(i - 1)) = F(i)
  <2>1. CASE i <= len
    <3>1. i \in 1..len /\ i - 1 <= len
      BY <1>1, <2>1
    <3>2. Find(dat, Found(bs, f, i - 1)) = Found(bs, f, i)
      BY <1>2, <3>1, FindNext
    <3>3. QED
      BY <2>1, <3>1, <3>2, Zenon
  <2>2. CASE ~(i <= len)
    <3>1. F(i - 1) = Found(bs, f, len) /\ F(i) = Found(bs, f, len)
      <4>1. i - 1 <= len => i - 1 = len
        BY <1>1, <2>2
      <4>2. QED
        BY <2>2, <4>1, Zenon
    <3>2. Found(bs, f, len).at = Len(dat) + 1
      BY DEF Found
    <3> HIDE DEF dat, len, F
    <3>3. Find(dat, Found(bs, f, len)) = Found(bs, f, len)
      BY <1>3, <3>2, FindNone
    <3>4. QED
      BY <3>1, <3>3, Zenon
  <2>3. QED
    BY <2>1, <2>2
<1> HIDE DEF F, start, dat, m
<1>6. Eq(g)
  <2>1. \A i \in 0..m : g[i] = IF i = 0 THEN start ELSE Find(dat, g[i - 1])
    <3>1. \A i \in 0..m : i = 0 \/ (i \in 1..m /\ i # 0 /\ i - 1 \in 0..m)
      BY <1>3
    <3>2. \A i \in 0..m : g[i] = F(i)
      OBVIOUS
    <3> HIDE DEF g
    <3>3. QED
      BY <1>4, <1>5, <3>1, <3>2, Zenon
  <2>2. QED
    BY <2>1, Zenon
<1>7. Eq(w)
  BY <1>6, Zenon
<1>8. \A i \in 0..m : w[i] = g[i]
  <2>0. \A i \in 1..m : i \in 0..m /\ i # 0 /\ i - 1 \in 0..m
    BY <1>3
  <2>1. \A i \in 1..m : w[i] = Find(dat, w[i - 1])
    BY <1>7, <2>0, Zenon
  <2>2. \A i \in 1..m : g[i] = Find(dat, g[i - 1])
    BY <1>6, <2>0, Zenon
  <2>3. 0 \in 0..m
    BY <1>3
  <2>4. w[0] = g[0]
    BY <1>6, <1>7, <2>3, Zenon
  <2> HIDE DEF w, g
  <2>5. \A i \in 1..m : w[i - 1] = g[i - 1] => w[i] = g[i]
    BY <2>1, <2>2, Zenon
  <2>6. \A x, y : x[0] = y[0] /\ (\A i \in 1..m : x[i - 1] = y[i - 1] => x[i] = y[i])
                  => \A i \in 0..m : x[i] = y[i]
    BY <1>3, Alike, Zenon
  <2>7. QED
    BY <2>4, <2>5, <2>6, Zenon
<1>9. Split(dat) = w[m].nalus
  BY DEF Split, m, start
<1>10. w[m] = Found(bs, f, len)
  <2>1. m \in 0..m /\ (m <= len => m = len)
    BY <1>1, <1>3
  <2>2. w[m] = F(m)
    BY <1>8, <2>1, Zenon
  <2>3. QED
    BY <2>1, <2>2, Zenon DEF F
<1>11. Found(bs, f, len).nalus = f.nals
  <2>1. SubSeq(f.nals, 1, len) = f.nals
    BY <1>1
  <2>2. QED
    BY <2>1 DEF Found
<1>12. QED
  BY <1>2, <1>9, <1>10, <1>11, Zenon DEF dat

(* No unit begins with a start code. *)
LEMMA BareUnit ==
    ASSUME NEW u \in Unit
    PROVE  Bare(u) = u
<1>1. /\ Len(u) \in Nat
      /\ \A i \in 1..Len(u) - 2 : ~(u[i] = 0 /\ u[i + 1] = 0 /\ u[i + 2] \in {0, 1})
  BY UnitIs
<1>2. Len(u) > 2 => ~(u[1] = 0 /\ u[2] = 0 /\ u[3] \in {0, 1})
  BY <1>1
<1>3. QED
  BY <1>1, <1>2 DEF Bare, STARTCODE3, STARTCODE4

(* What storing one unit after the other comes to. *)
LEMMA StoredFrom ==
    ASSUME NEW p, NEW nalus, NEW g, Len(nalus) \in Nat, g[0] = Reset(p),
           \A i \in 1..Len(nalus) : g[i] = Store(g[i - 1], nalus[i])
    PROVE  Stored(p, nalus) = g[Len(nalus)]
<1> DEFINE m == Len(nalus)
           start == Reset(p)
           Eq(h) == h = [i \in 0..m |-> IF i = 0 THEN start ELSE Store(h[i - 1], nalus[i])]
           d == [i \in 0..m |-> g[i]]
           w == CHOOSE h : Eq(h)
<1>1. Stored(p, nalus) = w[m]
  BY DEF Stored
<1> HIDE DEF m, start
<1>2. m \in Nat /\ m \in 0..m /\ 0 \in 0..m /\ \A i \in 1..m : i \in 0..m /\ i # 0 /\ i - 1 \in 0..m
  BY DEF m
<1>3. \A i \in 0..m : d[i] = g[i]
  OBVIOUS
<1>4. Eq(d)
  <2>1. \A i \in 0..m : i = 0 \/ i \in 1..m
    BY <1>2
  <2>2. \A i \in 0..m : d[i] = IF i = 0 THEN start ELSE Store(d[i - 1], nalus[i])
    <3> HIDE DEF d
    <3>1. g[0] = start /\ \A i \in 1..m : g[i] = Store(g[i - 1], nalus[i])
      BY DEF m, start
    <3>2. QED
      BY <1>2, <1>3, <2>1, <3>1, Zenon
  <2>3. QED
    BY <2>2, Zenon
<1>5. Eq(w)
  BY <1>4, Zenon
<1>6. \A i \in 0..m : w[i] = d[i]
  <2>1. \A i \in 1..m : w[i] = Store(w[i - 1], nalus[i])
    BY <1>2, <1>5, Zenon
  <2>2. \A i \in 1..m : d[i] = Store(d[i - 1], nalus[i])
    BY <1>2, <1>4, Zenon
  <2>3. w[0] = d[0]
    BY <1>2, <1>4, <1>5, Zenon
  <2> HIDE DEF w, d
  <2>4. \A i \in 1..m : w[i - 1] = d[i - 1] => w[i] = d[i]
    BY <2>1, <2>2, Zenon
  <2>5. m \in Nat
    BY <1>2
  <2>6. QED
    BY <2>3, <2>4, <2>5, Agree
<1>7. QED
  BY <1>1, <1>2, <1>3, <1>6, Zenon DEF m

(* What their lengths come to. *)
LEMMA BodyLengthFrom ==
    ASSUME NEW nalus, NEW g, Len(nalus) \in Nat, g[0] = VIDEO_PAYLOAD_OFFSET,
           \A i \in 1..Len(nalus) : g[i] = g[i - 1] + (4 + Len(nalus[i]))
    PROVE  BodyLength(nalus) = g[Len(nalus)]
<1> DEFINE m == Len(nalus)
           Eq(h) == h = [i \in 0..m |-> IF i = 0 THEN VIDEO_PAYLOAD_OFFSET
                                         ELSE h[i - 1] + (4 + Len(nalus[i]))]
           d == [i \in 0..m |-> g[i]]
           w == CHOOSE h : Eq(h)
<1>1. BodyLength(nalus) = w[m]
  BY DEF BodyLength
<1> HIDE DEF m
<1>2. m \in Nat /\ m \in 0..m /\ 0 \in 0..m /\ \A i \in 1..m : i \in 0..m /\ i # 0 /\ i - 1 \in 0..m
  BY DEF m
<1>3. \A i \in 0..m : d[i] = g[i]
  OBVIOUS
<1>4. Eq(d)
  <2>1. \A i \in 0..m : i = 0 \/ i \in 1..m
    BY <1>2
  <2>2. \A i \in 0..m : d[i] = IF i = 0 THEN VIDEO_PAYLOAD_OFFSET
                                ELSE d[i - 1] + (4 + Len(nalus[i]))
    <3> HIDE DEF d
    <3>1. \A i \in 1..m : g[i] = g[i - 1] + (4 + Len(nalus[i]))
      BY DEF m
    <3>2. QED
      BY <1>2, <1>3, <2>1, <3>1, Zenon
  <2>3. QED
    BY <2>2, Zenon
<1>5. Eq(w)
  BY <1>4, Zenon
<1>6. \A i \in 0..m : w[i] = d[i]
  <2>1. \A i \in 1..m : w[i] = w[i - 1] + (4 + Len(nalus[i]))
    BY <1>2, <1>5, Zenon
  <2>2. \A i \in 1..m : d[i] = d[i - 1] + (4 + Len(nalus[i]))
    BY <1>2, <1>4, Zenon
  <2>3. w[0] = d[0]
    BY <1>2, <1>4, <1>5, Zenon
  <2> HIDE DEF w, d
  <2>4. \A i \in 1..m : w[i - 1] = d[i - 1] => w[i] = d[i]
    BY <2>1, <2>2, Zenon
  <2>5. m \in Nat
    BY <1>2
  <2>6. \A x, y : x[0] = y[0] /\ (\A i \in 1..m : x[i - 1] = y[i - 1] => x[i] = y[i])
                  => \A i \in 0..m : x[i] = y[i]
    BY <2>5, Alike, Zenon
  <2>7. QED
    BY <2>3, <2>4, <2>6, Zenon
<1>7. QED
  BY <1>1, <1>2, <1>3, <1>6, Zenon DEF m
-----------------------------------------------------------------------------
Record(nalus, sps, pps, key_frame, changed) ==
    [nalus |-> nalus, sps |-> sps, pps |-> pps,
     key_frame |-> key_frame, sps_pps_changed |-> changed]

LEMMA RecordFields ==
    ASSUME NEW nalus, NEW sps, NEW pps, NEW key_frame, NEW changed
    PROVE  LET r == Record(nalus, sps, pps, key_frame, changed)
           IN  /\ r.nalus = nalus /\ r.sps = sps /\ r.pps = pps
               /\ r.key_frame = key_frame /\ r.sps_pps_changed = changed
BY DEF Record

LEMMA ResetIs ==
    ASSUME NEW q
    PROVE  Reset(q) = Record(<<>>, q.sps, q.pps, FALSE, FALSE)
BY Zenon DEF Reset, Record

LEMMA KindIs ==
    ASSUME NEW u \in Unit
    PROVE  /\ u \in Sps <=> nalu_typ(u) = 7
           /\ u \in Pps <=> nalu_typ(u) = 8
           /\ u \in Sei <=> nalu_typ(u) = 6
           /\ u \in Slice <=> nalu_typ(u) \notin {6, 7, 8}
BY ParserAssumption DEF ParserAssumption

(* What is stored of a unit, by its kind. *)
LEMMA StoreSps ==
    ASSUME NEW q, NEW u \in Sps
    PROVE  Store(q, u) = Record(Append(q.nalus, u), u, q.pps, TRUE,
                                q.sps_pps_changed \/ Differs(q.sps, u))
<1> DEFINE typ == nalu_typ(u)
<1>1. typ = 7
  BY KindIs DEF Unit
<1>2. Store(q, u) = Record(Append(q.nalus, u), IF typ = 7 THEN u ELSE q.sps,
                           IF typ = 8 THEN u ELSE q.pps, q.key_frame \/ typ \in {6, 7, 8},
                           \/ q.sps_pps_changed
                           \/ typ = 7 /\ Differs(q.sps, u)
                           \/ typ = 8 /\ Differs(q.pps, u))
  BY DEF Store, Record
<1>3. typ = 7 /\ typ # 8 /\ typ \in {6, 7, 8}
  BY <1>1
<1> HIDE DEF typ
<1>4. (q.key_frame \/ typ \in {6, 7, 8}) = (TRUE)
  BY <1>1, <1>3, Zenon
<1>5. (\/ q.sps_pps_changed
       \/ typ = 7 /\ Differs(q.sps, u)
       \/ typ = 8 /\ Differs(q.pps, u)) = (q.sps_pps_changed \/ Differs(q.sps, u))
  BY <1>3, Zenon
<1>6. QED
  BY <1>2, <1>3, <1>4, <1>5, Zenon

LEMMA StorePps ==
    ASSUME NEW q, NEW u \in Pps
    PROVE  Store(q, u) = Record(Append(q.nalus, u), q.sps, u, TRUE,
                                q.sps_pps_changed \/ Differs(q.pps, u))
<1> DEFINE typ == nalu_typ(u)
<1>1. typ = 8
  BY KindIs DEF Unit
<1>2. Store(q, u) = Record(Append(q.nalus, u), IF typ = 7 THEN u ELSE q.sps,
                           IF typ = 8 THEN u ELSE q.pps, q.key_frame \/ typ \in {6, 7, 8},
                           \/ q.sps_pps_changed
                           \/ typ = 7 /\ Differs(q.sps, u)
                           \/ typ = 8 /\ Differs(q.pps, u))
  BY DEF Store, Record
<1>3. typ = 8 /\ typ # 7 /\ typ \in {6, 7, 8}
  BY <1>1
<1> HIDE DEF typ
<1>4. (q.key_frame \/ typ \in {6, 7, 8}) = (TRUE)
  BY <1>1, <1>3, Zenon
<1>5. (\/ q.sps_pps_changed
       \/ typ = 7 /\ Differs(q.sps, u)
       \/ typ = 8 /\ Differs(q.pps, u)) = (q.sps_pps_changed \/ Differs(q.pps, u))
  BY <1>3, Zenon
<1>6. QED
  BY <1>2, <1>3, <1>4, <1>5, Zenon

LEMMA StoreSei ==
    ASSUME NEW q, NEW u \in Sei
    PROVE  Store(q, u) = Record(Append(q.nalus, u), q.sps, q.pps, TRUE,
                                q.sps_pps_changed \/ FALSE)
<1> DEFINE typ == nalu_typ(u)
<1>1. typ = 6
  BY KindIs DEF Unit
<1>2. Store(q, u) = Record(Append(q.nalus, u), IF typ = 7 THEN u ELSE q.sps,
                           IF typ = 8 THEN u ELSE q.pps, q.key_frame \/ typ \in {6, 7, 8},
                           \/ q.sps_pps_changed
                           \/ typ = 7 /\ Differs(q.sps, u)
                           \/ typ = 8 /\ Differs(q.pps, u))
  BY DEF Store, Record
<1>3. typ # 7 /\ typ # 8 /\ typ \in {6, 7, 8}
  BY <1>1
<1> HIDE DEF typ
<1>4. (q.key_frame \/ typ \in {6, 7, 8}) = (TRUE)
  BY <1>1, <1>3, Zenon
<1>5. (\/ q.sps_pps_changed
       \/ typ = 7 /\ Differs(q.sps, u)
       \/ typ = 8 /\ Differs(q.pps, u)) = (q.sps_pps_changed \/ FALSE)
  BY <1>3, Zenon
<1>6. QED
  BY <1>2, <1>3, <1>4, <1>5, Zenon

LEMMA StoreSlice ==
    ASSUME NEW q, NEW u \in Slice
    PROVE  Store(q, u) = Record(Append(q.nalus, u), q.sps, q.pps, q.key_frame \/ FALSE,
                                q.sps_pps_changed \/ FALSE)
<1> DEFINE typ == nalu_typ(u)
<1>1. typ \notin {6, 7, 8}
  BY KindIs DEF Unit
<1>2. Store(q, u) = Record(Append(q.nalus, u), IF typ = 7 THEN u ELSE q.sps,
                           IF typ = 8 THEN u ELSE q.pps, q.key_frame \/ typ \in {6, 7, 8},
                           \/ q.sps_pps_changed
                           \/ typ = 7 /\ Differs(q.sps, u)
                           \/ typ = 8 /\ Differs(q.pps, u))
  BY DEF Store, Record
<1>3. typ # 7 /\ typ # 8 /\ typ \notin {6, 7, 8}
  BY <1>1
<1> HIDE DEF typ
<1>4. (q.key_frame \/ typ \in {6, 7, 8}) = (q.key_frame \/ FALSE)
  BY <1>1, <1>3, Zenon
<1>5. (\/ q.sps_pps_changed
       \/ typ = 7 /\ Differs(q.sps, u)
       \/ typ = 8 /\ Differs(q.pps, u)) = (q.sps_pps_changed \/ FALSE)
  BY <1>3, Zenon
<1>6. QED
  BY <1>2, <1>3, <1>4, <1>5, Zenon

(* Key frames: the two sets, and no set after them. *)
IsKeyFrame(f, s, p) ==
    /\ Good(f) /\ Len(f.nals) >= 2 /\ f.nals[1] = s /\ f.nals[2] = p /\ f.key = TRUE
    /\ \A i \in 3..Len(f.nals) : f.nals[i] \in Sei \cup Slice

IsInterFrame(f) ==
    /\ Good(f) /\ f.key = FALSE
    /\ \A i \in 1..Len(f.nals) : f.nals[i] \in Slice

(* A frame of the units given is well formed. *)
LEMMA CodedIs ==
    ASSUME NEW nals \in Seq(Unit), NEW f \in Coded(nals)
    PROVE  Good(f) /\ f.nals = nals /\ f.key = (\E i \in 1..Len(nals) : nals[i] \in Sps)
<1>1. PICK c \in {3, 4} :
          f = [nals |-> nals,
               codes |-> [i \in DOMAIN nals |-> IF i = 1 \/ nals[i] \in Sps \cup Pps THEN 4 ELSE c],
               key |-> \E i \in DOMAIN nals : nals[i] \in Sps]
  BY Zenon DEF Coded
<1>2. DOMAIN nals = 1..Len(nals)
  OBVIOUS
<1> DEFINE codes == [i \in 1..Len(nals) |-> IF i = 1 \/ nals[i] \in Sps \cup Pps THEN 4 ELSE c]
<1>3. /\ f.nals = nals /\ f.codes = codes
      /\ f.key = (\E i \in 1..Len(nals) : nals[i] \in Sps)
  BY <1>1, <1>2
<1>4. codes \in [1..Len(nals) -> {3, 4}]
  OBVIOUS
<1> HIDE DEF codes
<1>5. QED
  BY <1>3, <1>4 DEF Good

LEMMA SlicesAre ==
    ASSUME NEW t \in Slices
    PROVE  t \in Seq(Unit) /\ \A i \in 1..Len(t) : t[i] \in Slice
<1>1. PICK k \in 1..MaxSlices : t \in [1..k -> Slice]
  BY DEF Slices
<1>2. k \in Nat
  OBVIOUS
<1>3. t \in Seq(Slice) /\ Len(t) = k
  BY <1>1, <1>2
<1>4. QED
  BY <1>1, <1>3 DEF Unit

LEMMA KeyFramesAre ==
    ASSUME NEW s \in Sps, NEW p \in Pps, NEW f \in KeyFrames(<<s, p>>)
    PROVE  IsKeyFrame(f, s, p)
<1>1. PICK sei \in {<<>>} \cup {<<u>> : u \in Sei}, t \in Slices : f \in Coded(<<s, p>> \o sei \o t)
  BY DEF KeyFrames
<1> DEFINE sets == <<s, p>>
           front == sets \o sei
           nals == front \o t
<1>2. sets \in Seq(Unit) /\ Len(sets) = 2 /\ sets[1] = s /\ sets[2] = p
  BY DEF Unit
<1>3. sei \in Seq(Unit) /\ \A i \in 1..Len(sei) : sei[i] \in Sei
  <2>1. CASE sei = <<>>
    BY <2>1
  <2>2. CASE sei # <<>>
    <3>1. PICK u \in Sei : sei = <<u>>
      BY <2>2
    <3>2. QED
      BY <3>1 DEF Unit
  <2>3. QED
    BY <2>1, <2>2
<1>4. t \in Seq(Unit) /\ \A i \in 1..Len(t) : t[i] \in Slice
  BY SlicesAre
<1> HIDE DEF sets
<1>5. /\ front \in Seq(Unit) /\ Len(front) = 2 + Len(sei)
      /\ front[1] = s /\ front[2] = p
      /\ \A i \in 3..Len(front) : front[i] \in Sei
  <2>1. /\ front \in Seq(Unit) /\ Len(front) = 2 + Len(sei) /\ Len(sei) \in Nat
        /\ \A j \in 1..2 : front[j] = sets[j]
        /\ \A j \in 1..Len(sei) : front[2 + j] = sei[j]
    <3>1. sets \in Seq(Unit) /\ sei \in Seq(Unit)
      BY <1>2, <1>3
    <3>2. /\ front \in Seq(Unit) /\ Len(front) = Len(sets) + Len(sei)
          /\ \A j \in 1..Len(sets) : front[j] = sets[j]
          /\ \A j \in 1..Len(sei) : front[Len(sets) + j] = sei[j]
      BY <3>1, Joined
    <3> HIDE DEF front
    <3>3. QED
      BY <1>2, <3>1, <3>2
  <2> HIDE DEF front
  <2>2. \A i \in 3..Len(front) : i - 2 \in 1..Len(sei) /\ 2 + (i - 2) = i
    BY <2>1
  <2>3. QED
    BY <1>2, <1>3, <2>1, <2>2
<1> HIDE DEF front
<1>6. /\ nals \in Seq(Unit) /\ Len(nals) >= 2
      /\ nals[1] = s /\ nals[2] = p
      /\ \A i \in 3..Len(nals) : nals[i] \in Sei \cup Slice
  <2>1. /\ nals \in Seq(Unit) /\ Len(nals) = Len(front) + Len(t)
        /\ Len(t) \in Nat /\ Len(sei) \in Nat /\ Len(front) \in Nat
        /\ \A j \in 1..Len(front) : nals[j] = front[j]
        /\ \A j \in 1..Len(t) : nals[Len(front) + j] = t[j]
    <3>1. front \in Seq(Unit) /\ t \in Seq(Unit)
      BY <1>4, <1>5, Zenon
    <3>2. Len(front) \in Nat /\ Len(t) \in Nat /\ Len(sei) \in Nat
      BY <1>3, <3>1
    <3>3. nals \in Seq(Unit) /\ IsJoined(front, t, nals)
      BY <3>1, UnitsJoined
    <3>4. QED
      BY <3>2, <3>3, Zenon DEF IsJoined
  <2> HIDE DEF nals
  <2>2. \A i \in 3..Len(nals) : \/ i \in 3..Len(front) /\ i \in 1..Len(front)
                                \/ i - Len(front) \in 1..Len(t) /\ Len(front) + (i - Len(front)) = i
    BY <1>5, <2>1
  <2>3. \A i \in 3..Len(nals) : nals[i] \in Sei \cup Slice
    <3> TAKE i \in 3..Len(nals)
    <3>1. CASE i \in 3..Len(front) /\ i \in 1..Len(front)
      BY <1>5, <2>1, <3>1
    <3>2. CASE i - Len(front) \in 1..Len(t) /\ Len(front) + (i - Len(front)) = i
      <4>1. nals[i] = t[i - Len(front)]
        BY <2>1, <3>2
      <4>2. QED
        BY <1>4, <3>2, <4>1
    <3>3. QED
      BY <2>2, <3>1, <3>2
  <2>4. 1 \in 1..Len(front) /\ 2 \in 1..Len(front)
    BY <1>5, <2>1
  <2>5. QED
    BY <1>5, <2>1, <2>3, <2>4
<1>7. f \in Coded(nals)
  BY <1>1 DEF sets, front
<1> HIDE DEF nals
<1>8. Good(f) /\ f.nals = nals /\ f.key = (\E i \in 1..Len(nals) : nals[i] \in Sps)
  BY <1>6, <1>7, CodedIs
<1>9. f.key = TRUE
  <2>1. 1 \in 1..Len(nals) /\ nals[1] \in Sps
    BY <1>6
  <2>2. QED
    BY <1>8, <2>1, Zenon
<1>10. QED
  BY <1>6, <1>8, <1>9, Zenon DEF IsKeyFrame

LEMMA InterFramesAre ==
    ASSUME NEW f \in InterFrames
    PROVE  IsInterFrame(f)
<1>1. PICK t \in Slices \cup {<<>>} : f \in Coded(t)
  BY DEF InterFrames
<1>2. t \in Seq(Unit) /\ \A i \in 1..Len(t) : t[i] \in Slice
  <2>1. CASE t = <<>>
    BY <2>1
  <2>2. CASE t # <<>>
    BY <1>1, <2>2, SlicesAre
  <2>3. QED
    BY <2>1, <2>2
<1>3. Good(f) /\ f.nals = t /\ f.key = (\E i \in 1..Len(t) : t[i] \in Sps)
  BY <1>1, <1>2, CodedIs
<1>4. ~(\E i \in 1..Len(t) : t[i] \in Sps)
  <2> SUFFICES ASSUME NEW i \in 1..Len(t), t[i] \in Sps PROVE FALSE
    BY Zenon
  <2>1. t[i] \in Slice /\ t[i] \in Unit
    BY <1>2 DEF Unit
  <2>2. nalu_typ(t[i]) = 7 /\ nalu_typ(t[i]) \notin {6, 7, 8}
    BY <2>1, KindIs
  <2>3. QED
    BY <2>2
<1>5. f.key = FALSE
  BY <1>3, <1>4, Zenon
<1>6. QED
  BY <1>2, <1>3, <1>5, Zenon DEF IsInterFrame

(* What a key frame leaves in the parser. *)
LEMMA KeyFrameStored ==
    ASSUME NEW q, NEW s \in Sps, NEW p \in Pps, NEW f, IsKeyFrame(f, s, p)
    PROVE  \E changed :
               /\ changed = (Differs(q.sps, s) \/ Differs(q.pps, p))
               /\ Stored(q, f.nals) = Record(f.nals, s, p, TRUE, changed)
<1>0. PICK no, yes : no = FALSE /\ yes = TRUE
  OBVIOUS
<1>1. PICK new : new = (no \/ Differs(q.sps, s))
  OBVIOUS
<1>2. PICK changed : changed = (new \/ Differs(q.pps, p))
  OBVIOUS
<1> DEFINE m == Len(f.nals)
           front(i) == SubSeq(f.nals, 1, i)
           After(i) == IF i = 0 THEN Record(front(0), q.sps, q.pps, no, no)
                       ELSE IF i = 1 THEN Record(front(1), s, q.pps, yes, new)
                       ELSE Record(front(i), s, p, yes, changed)
           g == [i \in 0..m |-> After(i)]
<1>3. m \in Nat /\ m >= 2 /\ f.nals \in Seq(Unit) /\ f.nals[1] = s /\ f.nals[2] = p
  BY DEF IsKeyFrame, Good
<1>4. /\ front(0) = <<>>
      /\ \A i \in 1..m : front(i) = Append(front(i - 1), f.nals[i])
      /\ front(m) = f.nals
  BY <1>3
<1>5. /\ 0 \in 0..m /\ m \in 0..m /\ 1 \in 1..m /\ 2 \in 1..m
      /\ \A i \in 1..m : i \in 0..m /\ i - 1 \in 0..m
  BY <1>3
<1> HIDE DEF front
<1>6. /\ After(0) = Record(front(0), q.sps, q.pps, no, no)
      /\ After(1) = Record(front(1), s, q.pps, yes, new)
      /\ \A i \in 0..m : i >= 2 => After(i) = Record(front(i), s, p, yes, changed)
  <2>1. 1 # 0 /\ \A i \in 0..m : i >= 2 => i # 0 /\ i # 1
    OBVIOUS
  <2>2. QED
    BY <2>1, Zenon
<1>7. \A i \in 0..m : g[i] = After(i)
  OBVIOUS
<1> HIDE DEF After, g
<1>8. ASSUME NEW i \in 1..m
      PROVE  g[i] = Store(g[i - 1], f.nals[i])
  <2>1. front(i) = Append(front(i - 1), f.nals[i])
    BY <1>4
  <2>2. CASE i = 1
    <3>1. i - 1 = 0 /\ f.nals[i] = s
      BY <1>3, <2>2
    <3>3. Store(Record(front(0), q.sps, q.pps, no, no), s)
             = Record(Append(front(0), s), s, q.pps, yes, new)
      <4> DEFINE r == Record(front(0), q.sps, q.pps, no, no)
      <4>1. /\ r.nalus = front(0) /\ r.sps = q.sps /\ r.pps = q.pps
            /\ r.sps_pps_changed = no
        BY RecordFields
      <4> HIDE DEF r
      <4>2. Store(r, s) = Record(Append(r.nalus, s), s, r.pps, TRUE,
                                 r.sps_pps_changed \/ Differs(r.sps, s))
        BY StoreSps, Zenon
      <4>3. (r.sps_pps_changed \/ Differs(r.sps, s)) = new
        BY <1>1, <4>1, Zenon
      <4>4. QED
        BY <1>0, <4>1, <4>2, <4>3, Zenon DEF r
    <3>4. g[i - 1] = After(0) /\ g[i] = After(1)
      BY <1>5, <1>7, <2>2, <3>1, Zenon
    <3>5. QED
      BY <1>6, <2>1, <2>2, <3>1, <3>3, <3>4, Zenon
  <2>3. CASE i = 2
    <3>1. i - 1 = 1 /\ f.nals[i] = p /\ i >= 2
      BY <1>3, <2>3
    <3>2. Store(Record(front(1), s, q.pps, yes, new), p)
             = Record(Append(front(1), p), s, p, yes, changed)
      <4> DEFINE r == Record(front(1), s, q.pps, yes, new)
      <4>1. r.nalus = front(1) /\ r.sps = s /\ r.pps = q.pps /\ r.sps_pps_changed = new
        BY RecordFields
      <4> HIDE DEF r
      <4>2. Store(r, p) = Record(Append(r.nalus, p), r.sps, p, TRUE,
                                 r.sps_pps_changed \/ Differs(r.pps, p))
        BY StorePps, Zenon
      <4>3. (r.sps_pps_changed \/ Differs(r.pps, p)) = changed
        BY <1>2, <4>1, Zenon
      <4>4. QED
        BY <1>0, <4>1, <4>2, <4>3, Zenon DEF r
    <3>3. g[i - 1] = After(1) /\ g[i] = After(i)
      BY <1>5, <1>7, <3>1, Zenon
    <3>4. After(i) = Record(front(i), s, p, yes, changed)
      BY <1>5, <1>6, <3>1, Zenon
    <3>5. QED
      BY <1>6, <2>1, <3>1, <3>2, <3>3, <3>4, Zenon
  <2>4. CASE i >= 3
    <3>1. i >= 2 /\ i - 1 >= 2 /\ i \in 3..m
      BY <1>3, <2>4
    <3>2. /\ g[i - 1] = Record(front(i - 1), s, p, yes, changed)
          /\ g[i] = Record(front(i), s, p, yes, changed)
      BY <1>5, <1>6, <1>7, <3>1, Zenon
    <3>3. f.nals[i] \in Sei \/ f.nals[i] \in Slice
      BY <3>1 DEF IsKeyFrame
    <3>6. Store(Record(front(i - 1), s, p, yes, changed), f.nals[i])
             = Record(Append(front(i - 1), f.nals[i]), s, p, yes, changed)
      <4> DEFINE r == Record(front(i - 1), s, p, yes, changed)
                 u == f.nals[i]
      <4>1. /\ r.nalus = front(i - 1) /\ r.sps = s /\ r.pps = p
            /\ r.key_frame = yes /\ r.sps_pps_changed = changed
        BY RecordFields
      <4> HIDE DEF r, u
      <4>2. \/ Store(r, u) = Record(Append(r.nalus, u), r.sps, r.pps, TRUE,
                                    r.sps_pps_changed \/ FALSE)
            \/ Store(r, u) = Record(Append(r.nalus, u), r.sps, r.pps, r.key_frame \/ FALSE,
                                    r.sps_pps_changed \/ FALSE)
        BY <3>3, StoreSei, StoreSlice, Zenon DEF u
      <4>3. (r.sps_pps_changed \/ FALSE) = changed /\ (r.key_frame \/ FALSE) = yes
        BY <1>0, <1>2, <4>1, Zenon
      <4>4. QED
        BY <1>0, <4>1, <4>2, <4>3, Zenon DEF r, u
    <3>5. QED
      BY <2>1, <3>2, <3>6, Zenon
  <2>5. QED
    BY <2>2, <2>3, <2>4
<1>9. Stored(q, f.nals) = g[m]
  <2>1. g[0] = Reset(q)
    BY <1>4, <1>5, <1>6, <1>7, <1>0, ResetIs, Zenon
  <2>2. QED
    BY <1>3, <1>8, <2>1, StoredFrom
<1>10. g[m] = Record(f.nals, s, p, yes, changed)
  BY <1>3, <1>4, <1>5, <1>6, <1>7, Zenon
<1>11. changed = (Differs(q.sps, s) \/ Differs(q.pps, p))
  BY <1>0, <1>1, <1>2, Zenon
<1>12. QED
  BY <1>0, <1>9, <1>10, <1>11, Zenon

(* Another frame leaves only its units. *)
LEMMA InterFrameStored ==
    ASSUME NEW q, NEW f, IsInterFrame(f)
    PROVE  Stored(q, f.nals) = Record(f.nals, q.sps, q.pps, FALSE, FALSE)
<1>0. PICK no, yes : no = FALSE /\ yes = TRUE
  OBVIOUS
<1> DEFINE m == Len(f.nals)
           front(i) == SubSeq(f.nals, 1, i)
           g == [i \in 0..m |-> Record(front(i), q.sps, q.pps, no, no)]
<1>1. m \in Nat /\ f.nals \in Seq(Unit)
  BY DEF IsInterFrame, Good
<1>2. /\ front(0) = <<>>
      /\ \A i \in 1..m : front(i) = Append(front(i - 1), f.nals[i])
      /\ front(m) = f.nals
  BY <1>1
<1>3. 0 \in 0..m /\ m \in 0..m /\ \A i \in 1..m : i \in 0..m /\ i - 1 \in 0..m
  BY <1>1
<1> HIDE DEF front
<1>4. \A i \in 0..m : g[i] = Record(front(i), q.sps, q.pps, no, no)
  OBVIOUS
<1> HIDE DEF g
<1>5. ASSUME NEW i \in 1..m
      PROVE  g[i] = Store(g[i - 1], f.nals[i])
  <2>1. i \in 0..m /\ i - 1 \in 0..m /\ front(i) = Append(front(i - 1), f.nals[i])
    BY <1>2, <1>3
  <2>5. no = (no \/ FALSE)
    BY <1>0, Zenon
  <2>2. f.nals[i] \in Slice
    BY DEF IsInterFrame
  <2>3. Store(Record(front(i - 1), q.sps, q.pps, no, no), f.nals[i])
           = Record(Append(front(i - 1), f.nals[i]), q.sps, q.pps, no, no)
    <3> DEFINE r == Record(front(i - 1), q.sps, q.pps, no, no)
               u == f.nals[i]
    <3>1. /\ r.nalus = front(i - 1) /\ r.sps = q.sps /\ r.pps = q.pps
          /\ r.key_frame = no /\ r.sps_pps_changed = no
      BY RecordFields
    <3> HIDE DEF r, u
    <3>2. Store(r, u) = Record(Append(r.nalus, u), r.sps, r.pps, r.key_frame \/ FALSE,
                               r.sps_pps_changed \/ FALSE)
      BY <2>2, StoreSlice, Zenon DEF u
    <3>3. (r.sps_pps_changed \/ FALSE) = no /\ (r.key_frame \/ FALSE) = no
      BY <2>5, <3>1, Zenon
    <3>4. QED
      BY <3>1, <3>2, <3>3, Zenon DEF r, u
  <2>4. QED
    BY <1>4, <2>1, <2>3, Zenon
<1>6. Stored(q, f.nals) = g[m]
  <2>1. g[0] = Reset(q)
    BY <1>2, <1>3, <1>4, <1>0, ResetIs, Zenon
  <2>2. QED
    BY <1>1, <1>5, <2>1, StoredFrom
<1>7. QED
  BY <1>0, <1>2, <1>3, <1>4, <1>6, Zenon

(* The block is one length per unit longer or shorter than the bytes.      *)
LEMMA BodyIs ==
    ASSUME NEW f, Good(f)
    PROVE  /\ Len(Bytes(f)) \in Nat /\ ShortCodes(f) \in Nat
           /\ BodyLength(f.nals) = VIDEO_PAYLOAD_OFFSET + Len(Bytes(f)) + ShortCodes(f)
<1> DEFINE m == Len(f.nals)
           Short(i) == {j \in 1..i : f.codes[j] = 3}
           card(i) == Cardinality(Short(i))
<1>1. m \in Nat /\ f.codes \in [1..m -> {3, 4}]
  BY DEF Good
<1>2. PICK d : IsBytes(d, f) /\ Bytes(f) = d[m]
  BY BytesAre
<1> DEFINE g == [i \in 0..m |-> VIDEO_PAYLOAD_OFFSET + Len(d[i]) + card(i)]
<1>3. \A i \in 0..m : IsFiniteSet(Short(i)) /\ card(i) \in Nat
  <2> TAKE i \in 0..m
  <2>1. IsFiniteSet(1..i)
    BY FS_Interval
  <2>2. Short(i) \in SUBSET (1..i)
    OBVIOUS
  <2> HIDE DEF Short
  <2>3. IsFiniteSet(Short(i))
    BY <2>1, <2>2, FS_Subset
  <2>4. QED
    BY <2>3, FS_CardinalityType
<1>4. Short(0) = {} /\ card(0) = 0
  <2>1. Short(0) = {}
    OBVIOUS
  <2>2. QED
    BY <2>1, FS_EmptySet
<1>5. ASSUME NEW i \in 1..m
      PROVE  f.codes[i] \in {3, 4} /\ card(i) + f.codes[i] = card(i - 1) + 4
  <2>1. i \in Nat /\ i - 1 \in 0..m /\ i \in 0..m /\ f.codes[i] \in {3, 4}
    BY <1>1
  <2>2. CASE f.codes[i] = 3
    <3>1. Short(i) = Short(i - 1) \cup {i} /\ i \notin Short(i - 1)
      BY <2>1, <2>2
    <3>2. IsFiniteSet(Short(i - 1)) /\ card(i - 1) \in Nat
      BY <1>3, <2>1
    <3> HIDE DEF Short
    <3>3. Cardinality(Short(i - 1) \cup {i}) = Cardinality(Short(i - 1)) + 1
      BY <3>1, <3>2, FS_AddElement
    <3>4. QED
      BY <2>2, <3>1, <3>2, <3>3
  <2>3. CASE f.codes[i] = 4
    <3>1. Short(i) = Short(i - 1)
      BY <2>1, <2>3
    <3>2. card(i - 1) \in Nat
      BY <1>3, <2>1
    <3> HIDE DEF Short
    <3>3. QED
      BY <2>3, <3>1, <3>2
  <2>4. QED
    BY <2>1, <2>2, <2>3
<1>6. \A i \in 1..m : Len(d[i]) = Len(d[i - 1]) + f.codes[i] + Len(f.nals[i])
  <2>1. m \in 0..m
    BY <1>1
  <2>2. QED
    BY <1>2, <2>1, BytesLaid DEF Laid
<1>7. d[0] = <<>> /\ \A i \in 0..m : d[i] \in Seq(Nat)
  BY <1>2 DEF IsBytes
<1>8. \A i \in 0..m : Len(d[i]) \in Nat
  BY <1>7
<1>9. \A i \in 1..m : Len(f.nals[i]) \in Nat
  BY ChunkIs, UnitIs
<1>10. VIDEO_PAYLOAD_OFFSET \in Nat
  BY ParserAssumption DEF ParserAssumption
<1>11. ShortCodes(f) = card(m)
  <2>1. DOMAIN f.codes = 1..m
    BY <1>1
  <2>2. QED
    BY <2>1 DEF ShortCodes
<1> HIDE DEF card, Short, m
<1>12. \A i \in 0..m : g[i] = VIDEO_PAYLOAD_OFFSET + Len(d[i]) + card(i)
  OBVIOUS
<1> HIDE DEF g
<1>13. 0 \in 0..m /\ m \in 0..m /\ \A i \in 1..m : i \in 0..m /\ i - 1 \in 0..m
  BY <1>1
<1>14. g[0] = VIDEO_PAYLOAD_OFFSET
  <2>1. Len(d[0]) = 0
    BY <1>7
  <2>2. QED
    BY <1>4, <1>10, <1>12, <1>13, <2>1
<1>15. ASSUME NEW i \in 1..m
       PROVE  g[i] = g[i - 1] + (4 + Len(f.nals[i]))
  <2>1. i \in 0..m /\ i - 1 \in 0..m
    BY <1>13
  <2>2. /\ Len(d[i - 1]) \in Nat /\ card(i - 1) \in Nat /\ card(i) \in Nat
        /\ Len(f.nals[i]) \in Nat /\ Len(d[i]) = Len(d[i - 1]) + f.codes[i] + Len(f.nals[i])
        /\ f.codes[i] \in {3, 4} /\ card(i) + f.codes[i] = card(i - 1) + 4
    BY <1>3, <1>5, <1>6, <1>8, <1>9, <2>1
  <2>3. /\ g[i] = VIDEO_PAYLOAD_OFFSET + Len(d[i]) + card(i)
        /\ g[i - 1] = VIDEO_PAYLOAD_OFFSET + Len(d[i - 1]) + card(i - 1)
    BY <1>12, <2>1
  <2> DEFINE x == Len(d[i - 1])
             y == Len(d[i])
             z == Len(f.nals[i])
             code == f.codes[i]
             c0 == card(i - 1)
             c1 == card(i)
  <2>4. /\ x \in Nat /\ c0 \in Nat /\ c1 \in Nat /\ z \in Nat /\ y = x + code + z
        /\ code \in {3, 4} /\ c1 + code = c0 + 4
        /\ g[i] = VIDEO_PAYLOAD_OFFSET + y + c1
        /\ g[i - 1] = VIDEO_PAYLOAD_OFFSET + x + c0
    BY <2>2, <2>3, Zenon
  <2> HIDE DEF x, y, z, code, c0, c1
  <2>5. g[i] = g[i - 1] + (4 + z)
    BY <1>10, <2>4
  <2>6. QED
    BY <2>5 DEF z
<1>16. BodyLength(f.nals) = g[m]
  BY <1>1, <1>14, <1>15, BodyLengthFrom DEF m
<1>17. QED
  BY <1>2, <1>3, <1>8, <1>11, <1>12, <1>13, <1>16
-----------------------------------------------------------------------------
(* What the parser keeps of an encoder's sets, and what the server has:    *)
(* unless the configuration is still owed to it, the sets sent to it last  *)
(* are the stored ones; and a run that gave a frame has its sets stored.   *)
SetsAre == enc \in {<<s, p>> : s \in Sps, p \in Pps}

ServerHasSets ==
    parser_need_cfg \/ (/\ parser.sps # <<>> /\ parser.pps # <<>>
                        /\ avc_dcr = <<parser.sps, parser.pps>>)

RunIsStored == ~first => ~parser_need_cfg /\ enc = <<parser.sps, parser.pps>>

ParserInv == SetsAre /\ ServerHasSets /\ RunIsStored /\ FrameFaithful

(* The packet of a well-formed frame. *)
LEMMA FaithfulSend ==
    ASSUME NEW f, Good(f), NEW new_stream, SendFrame(f, new_stream),
           Stored(parser, f.nals).nalus = f.nals,
           Stored(parser, f.nals).key_frame = f.key
    PROVE  FrameFaithful'
<1> DEFINE p == Stored(parser, f.nals)
<1>1. Process(parser, Bytes(f)) = p
  BY SplitIs, Zenon DEF Process
<1> DEFINE nalus == [i \in DOMAIN p.nalus |-> Bare(p.nalus[i])]
<1>2. /\ body' = [key |-> p.key_frame, nalus |-> nalus, length |-> BodyLength(nalus)]
      /\ buf_length' = AllocLength(Len(Bytes(f)))
      /\ frame' = f
  BY <1>1, Zenon DEF SendFrame
<1>3. nalus = f.nals
  <2>1. p.nalus = f.nals
    OBVIOUS
  <2> HIDE DEF p
  <2>2. f.nals \in Seq(Unit)
    BY DEF Good
  <2>3. \A i \in DOMAIN f.nals : f.nals[i] \in Unit
    BY <2>2
  <2>4. nalus = [i \in DOMAIN f.nals |-> f.nals[i]]
    BY <2>1, <2>3, BareUnit
  <2> HIDE DEF nalus
  <2>5. QED
    BY <2>2, <2>4
<1>4. p.key_frame = f.key
  OBVIOUS
<1> HIDE DEF p, nalus
<1>5. body'.nalus = f.nals /\ body'.key = f.key /\ body'.length = BodyLength(f.nals)
  BY <1>2, <1>3, <1>4
<1>6. ShortCodes(f) <= JustInCase + VIDEO_BODY_HEADER_LENGTH - VIDEO_PAYLOAD_OFFSET
         => BodyLength(f.nals) <= AllocLength(Len(Bytes(f)))
  <2>1. {VIDEO_PAYLOAD_OFFSET, VIDEO_BODY_HEADER_LENGTH, JustInCase} \subseteq Nat
    BY ParserAssumption DEF ParserAssumption
  <2>2. QED
    BY <2>1, BodyIs DEF AllocLength
<1>7. ShortCodes(frame)' = ShortCodes(f)
  BY <1>2 DEF ShortCodes
<1>8. QED
  BY <1>2, <1>5, <1>6, <1>7 DEF FrameFaithful

LEMMA KeyFrameKeeps ==
    ASSUME ParserInv, NEW f \in KeyFrames(enc), NEW new_stream \in BOOLEAN,
           SendFrame(f, new_stream)
    PROVE  ParserInv'
<1>1. PICK s \in Sps, p \in Pps : enc = <<s, p>>
  BY DEF ParserInv, SetsAre
<1>2. IsKeyFrame(f, s, p)
  BY <1>1, KeyFramesAre
<1>3. PICK changed :
          /\ changed = (Differs(parser.sps, s) \/ Differs(parser.pps, p))
          /\ Stored(parser, f.nals) = Record(f.nals, s, p, TRUE, changed)
  BY <1>2, KeyFrameStored
<1> DEFINE q == Stored(parser, f.nals)
<1>4. /\ q.nalus = f.nals /\ q.sps = s /\ q.pps = p /\ q.key_frame = TRUE
      /\ q.sps_pps_changed = changed
  <2>1. PICK yes, c : yes = TRUE /\ c = changed
    OBVIOUS
  <2>2. q = Record(f.nals, s, p, yes, c)
    BY <1>3, <2>1, Zenon
  <2> HIDE DEF q
  <2>3. /\ q.nalus = f.nals /\ q.sps = s /\ q.pps = p /\ q.key_frame = yes
        /\ q.sps_pps_changed = c
    BY <2>2, RecordFields
  <2>4. QED
    BY <2>1, <2>3, Zenon
<1>5. Good(f) /\ f.key = TRUE /\ f.nals # <<>>
  BY <1>2 DEF IsKeyFrame
<1>6. FrameFaithful'
  BY <1>4, <1>5, FaithfulSend
<1>7. Process(parser, Bytes(f)) = q
  BY <1>5, SplitIs, Zenon DEF Process
<1> DEFINE need == parser_need_cfg \/ new_stream
           cfg == (need \/ q.sps_pps_changed) /\ q.key_frame
<1>8. /\ parser' = q /\ avc_dcr' = (IF cfg THEN <<q.sps, q.pps>> ELSE avc_dcr)
      /\ parser_need_cfg' = (need /\ ~cfg) /\ first' = (first /\ f.nals = <<>>)
      /\ enc' = enc
  BY <1>7, Zenon DEF SendFrame
<1> HIDE DEF q
<1>9. ~first' /\ ~parser_need_cfg'
  BY <1>4, <1>5, <1>8, Zenon
<1>10. s # <<>> /\ p # <<>>
  <2>1. s \in Unit /\ p \in Unit
    BY DEF Unit
  <2>2. QED
    BY <2>1, UnitIs
<1>11. avc_dcr' = <<s, p>>
  <2>1. CASE cfg
    BY <1>4, <1>8, <2>1, Zenon
  <2>2. CASE ~cfg
    <3>1. ~parser_need_cfg /\ ~changed
      BY <1>4, <2>2, Zenon
    <3>2. ~Differs(parser.sps, s) /\ ~Differs(parser.pps, p)
      BY <1>3, <3>1, Zenon
    <3>3. /\ parser.sps # <<>> /\ parser.pps # <<>>
          /\ avc_dcr = <<parser.sps, parser.pps>>
      BY <3>1, Zenon DEF ParserInv, ServerHasSets
    <3>4. parser.sps = s /\ parser.pps = p
      BY <3>2, <3>3, Zenon DEF Differs
    <3>5. QED
      BY <1>8, <2>2, <3>3, <3>4, Zenon
  <2>3. QED
    BY <2>1, <2>2, Zenon
<1>12. SetsAre'
  BY <1>8 DEF ParserInv, SetsAre
<1>13. ServerHasSets'
  BY <1>4, <1>8, <1>10, <1>11, Zenon DEF ServerHasSets
<1>14. RunIsStored'
  BY <1>1, <1>4, <1>8, <1>9, Zenon DEF RunIsStored
<1>15. QED
  BY <1>6, <1>12, <1>13, <1>14, Zenon DEF ParserInv

LEMMA InterFrameKeeps ==
    ASSUME ParserInv, NEW f \in InterFrames, NEW new_stream \in BOOLEAN,
           first => f.nals = <<>>, SendFrame(f, new_stream)
    PROVE  ParserInv'
<1>1. IsInterFrame(f)
  BY InterFramesAre
<1>2. PICK no : no = FALSE
  OBVIOUS
<1>3. Stored(parser, f.nals) = Record(f.nals, parser.sps, parser.pps, no, no)
  BY <1>1, <1>2, InterFrameStored, Zenon
<1> DEFINE q == Stored(parser, f.nals)
<1>4. /\ q.nalus = f.nals /\ q.sps = parser.sps /\ q.pps = parser.pps
      /\ q.key_frame = no /\ q.sps_pps_changed = no
  BY <1>3, RecordFields
<1>5. Good(f) /\ f.key = no
  BY <1>1, <1>2 DEF IsInterFrame
<1>6. FrameFaithful'
  BY <1>4, <1>5, FaithfulSend
<1>7. Process(parser, Bytes(f)) = q
  BY <1>5, SplitIs, Zenon DEF Process
<1> DEFINE need == parser_need_cfg \/ new_stream
           cfg == (need \/ q.sps_pps_changed) /\ q.key_frame
<1>8. /\ parser' = q /\ avc_dcr' = (IF cfg THEN <<q.sps, q.pps>> ELSE avc_dcr)
      /\ parser_need_cfg' = (need /\ ~cfg) /\ first' = (first /\ f.nals = <<>>)
      /\ enc' = enc /\ (new_stream => first)
  BY <1>7, Zenon DEF SendFrame
<1> HIDE DEF q
<1>9. /\ parser'.sps = parser.sps /\ parser'.pps = parser.pps
      /\ avc_dcr' = avc_dcr /\ (parser_need_cfg' <=> need) /\ (first' <=> first)
  BY <1>2, <1>4, <1>8, Zenon
<1>10. SetsAre'
  BY <1>8 DEF ParserInv, SetsAre
<1>11. ServerHasSets'
  BY <1>9, Zenon DEF ParserInv, ServerHasSets
<1>12. RunIsStored'
  BY <1>8, <1>9, Zenon DEF ParserInv, RunIsStored
<1>13. QED
  BY <1>6, <1>10, <1>11, <1>12, Zenon DEF ParserInv

(* Every state: the parser stores the sets of the run that is being sent,  *)
(* the server was given the stored sets unless it is still owed them, and  *)
(* the packet is faithful.                                                 *)
THEOREM ParserInvariance == ParserSpec => []ParserInv
<1>1. ParserInit => ParserInv
  BY DEF ParserInit, ParserInv, SetsAre, ServerHasSets, RunIsStored, FrameFaithful
<1>2. ParserInv /\ [ParserNext]_parserVars => ParserInv'
  <2> SUFFICES ASSUME ParserInv, [ParserNext]_parserVars PROVE ParserInv'
    OBVIOUS
  <2>1. ASSUME NEW f \in KeyFrames(enc), NEW new_stream \in BOOLEAN, SendFrame(f, new_stream)
        PROVE  ParserInv'
    BY <2>1, KeyFrameKeeps
  <2>2. ASSUME NEW f \in InterFrames, NEW new_stream \in BOOLEAN,
               first => f.nals = <<>>, SendFrame(f, new_stream)
        PROVE  ParserInv'
    BY <2>2, InterFrameKeeps
  <2>3. CASE Reopen
    <3>1. SetsAre' /\ RunIsStored'
      BY <2>3 DEF Reopen, SetsAre, RunIsStored
    <3>2. ServerHasSets'
      BY <2>3, Zenon DEF Reopen, ParserInv, ServerHasSets
    <3>3. FrameFaithful'
      BY <2>3 DEF Reopen, ParserInv, FrameFaithful, ShortCodes
    <3>4. QED
      BY <3>1, <3>2, <3>3, Zenon DEF ParserInv
  <2>4. CASE UNCHANGED parserVars
    BY <2>4 DEF parserVars, ParserInv, SetsAre, ServerHasSets, RunIsStored, FrameFaithful,
                ShortCodes
  <2>5. QED
    BY <2>1, <2>2, <2>3, <2>4, Zenon DEF ParserNext
<1>3. QED
  BY <1>1, <1>2, PTL DEF ParserSpec

(* Whatever the units, their start codes and the encoders: the packet of a *)
(* frame carries exactly its units, its mark, and fits the block.          *)
THEOREM FrameIsFaithful == ParserSpec => []FrameFaithful
<1>1. ParserInv => FrameFaithful
  BY DEF ParserInv
<1>2. QED
  BY <1>1, ParserInvariance, PTL

(* The sets last sent to the server are those of the frames being sent.    *)
THEOREM ConfigIsCurrent == ParserSpec => []ConfigCurrent
<1>1. ParserInv => ConfigCurrent
  BY Zenon DEF ParserInv, ServerHasSets, RunIsStored, ConfigCurrent
<1>2. QED
  BY <1>1, ParserInvariance, PTL
=============================================================================
