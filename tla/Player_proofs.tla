----------------------------- MODULE Player_proofs -----------------------------
(***************************************************************************)
(* Proofs about Player, for any number of FQRtmpPlayers and of deaths of   *)
(* the service: what the activity's thread still has to do of its message  *)
(* tells what the service holds, as long as no FQRtmpPlayer that is no     *)
(* longer the activity's own stayed bound.                                 *)
(***************************************************************************)
EXTENDS Player, SequenceTheorems, WellFoundedInduction, TLAPS

Calls == {"create", "register", "setDataSource", "setDisplay", "prepare", "start", "stop",
          "release"}
Todo == [op : Calls \cup {"started", "unbind", "process"}, c : Client]

TypeOK ==
    /\ made \in 0..MaxClients /\ mFQRtmp \in 0..made
    /\ mPlaybackStarted \in [Client -> BOOLEAN]
    /\ binding \in [Client -> {"none", "bound", "connected"}]
    /\ dead \subseteq Client
    /\ todo \in Seq(Todo) /\ queue \in Seq(Messages)
    /\ mPlayer \in Client \cup {NULL} /\ mClientCb \in Client \cup {NULL}
    /\ event \in Client \cup {NULL}
    /\ open \subseteq {mFQRtmp} \ {NULL} /\ lost \subseteq 1..made

(* What comes after a call, of those that the thread does for one message. *)
Follows(s, t) ==
    \/ s.op = "create" /\ t.op = "register" /\ t.c = s.c
    \/ s.op = "register" /\ t.op = "setDataSource" /\ t.c = s.c
    \/ s.op = "setDataSource" /\ t.op = "setDisplay" /\ t.c = s.c
    \/ s.op = "setDisplay" /\ t.op = "prepare" /\ t.c = s.c
    \/ s.op = "prepare" /\ t.op = "start" /\ t.c = s.c
    \/ s.op = "start" /\ t.op = "started" /\ t.c = s.c
    \/ s.op = "stop" /\ t.op = "release" /\ t.c = s.c
    \/ s.op = "release" /\ t.op = "unbind" /\ t.c = s.c
    \/ s.op = "unbind" /\ t.op = "process"

Ends == {"start", "started", "unbind", "process"}

(* What is left of a message: calls in order, the last of which may be the *)
(* last, and process only of the activity's own FQRtmpPlayer.              *)
Ordered(s, own) ==
    /\ s \in Seq(Todo)
    /\ \A i \in 1..Len(s) - 1 : Follows(s[i], s[i + 1])
    /\ s # <<>> => s[Len(s)].op \in Ends
    /\ \A i \in 1..Len(s) : s[i].op = "process" => s[i].c = own

UnbindingIn(s) == {c \in Client : \E i \in 1..Len(s) : s[i].op = "unbind" /\ s[i].c = c}

(* Who is bound is open, or will be unbound, unless its close was lost;    *)
(* and only who is bound gets the messages of its ServiceConnection.       *)
BoundInv ==
    /\ \A i \in 1..Len(queue) : queue[i].op # "prepared" => binding[queue[i].c] # "none"
    /\ \A c \in Client : binding[c] # "none" => c \in open \cup lost \cup UnbindingIn(todo)

(* One that lost its close is no longer the activity's own, and will never *)
(* be closed.                                                              *)
Stuck == ~(lost \subseteq {mFQRtmp})

Own == mFQRtmp # NULL /\ binding[mFQRtmp] # "none"
Owned == Own /\ mFQRtmp \notin dead
Playing == Owned /\ mPlayer = mFQRtmp /\ mClientCb = mFQRtmp

(* On the way there the url may be missing: prepare throws if it is. *)
Setting == Owned /\ mPlayer \in {NULL, mFQRtmp}

(* What the service holds, by what its next call is.                       *)
PlayerHeld ==
    /\ todo = <<>> => Playing
    /\ todo # <<>> =>
          LET op == Head(todo).op
          IN  /\ op \in {"create", "start", "started"} => Playing
              /\ op = "register" => Setting
              /\ op \in {"setDataSource", "setDisplay", "prepare"} =>
                    Setting /\ mClientCb = mFQRtmp
              /\ op \in {"stop", "release"} => Head(todo).c \notin dead
              /\ op \notin {"unbind", "process"}

(* The calls of onServiceConnected are for the activity's own.             *)
Setup == {"create", "register", "setDataSource", "setDisplay", "prepare"}

Connecting ==
    todo # <<>> /\ Head(todo).op \in Setup => Head(todo).c = mFQRtmp /\ Own

PlayerInv ==
    /\ TypeOK
    /\ Ordered(todo, mFQRtmp)
    /\ BoundInv
    /\ ~Stuck => Connecting
    /\ ~Stuck /\ created => PlayerHeld
-----------------------------------------------------------------------------
(* Induction over the natural numbers, for what Kept computes. *)
Less == OpToRel(<, Nat)

LEMMA LessWF == IsWellFoundedOn(Less, Nat)
BY NatLessThanWellFounded DEF Less

LEMMA LessIs == \A x, y \in Nat : <<x, y>> \in Less <=> x < y
BY DEF OpToRel, Less

(* A set with 0, and with the successor of each of its elements, is Nat. *)
LEMMA SetInduction ==
    ASSUME NEW S \in SUBSET Nat, 0 \in S, \A n \in S : n + 1 \in S
    PROVE  S = Nat
<1> SUFFICES ASSUME S # Nat PROVE FALSE
  OBVIOUS
<1> DEFINE T == Nat \ S
<1>1. PICK x \in T : \A y \in T : ~ (<<y, x>> \in Less)
  <2>1. T \subseteq Nat /\ T # {}
    OBVIOUS
  <2> HIDE DEF T
  <2>2. QED
    BY <2>1, LessWF, WFMin
<1>2. x # 0 /\ x - 1 \in Nat /\ x \in Nat
  OBVIOUS
<1>3. x - 1 \in T
  BY <1>2
<1>4. QED
  <2>1. x - 1 < x
    BY <1>2
  <2>2. <<x - 1, x>> \in Less
    BY <1>2, <2>1, LessIs
  <2>3. QED
    BY <1>1, <1>3, <2>2

(* The function that Kept is built from. *)
IsKept(f, s, S, n) ==
    f = [i \in 0..n |-> IF i = 0 THEN <<>>
                        ELSE IF s[i] \in S THEN Append(f[i - 1], s[i]) ELSE f[i - 1]]

(* What it is at each place. *)
LEMMA KeptAt ==
    ASSUME NEW f, NEW s, NEW S, NEW n \in Nat, IsKept(f, s, S, n), NEW i \in 0..n
    PROVE  f[i] = IF i = 0 THEN <<>>
                  ELSE IF s[i] \in S THEN Append(f[i - 1], s[i]) ELSE f[i - 1]
BY Zenon DEF IsKept

(* There is such a function for every length. *)
LEMMA KeptExists ==
    ASSUME NEW s, NEW S
    PROVE  \A n \in Nat : \E f : IsKept(f, s, S, n)
<1> DEFINE N == {n \in Nat : \E f : IsKept(f, s, S, n)}
<1>1. 0 \in N
  <2>1. IsKept([i \in 0..0 |-> <<>>], s, S, 0)
    BY DEF IsKept
  <2>2. QED
    BY <2>1
<1>2. ASSUME NEW n \in N
      PROVE  n + 1 \in N
  <2>1. PICK f : IsKept(f, s, S, n)
    BY <1>2
  <2> DEFINE V(i) == IF i = 0 THEN <<>>
                     ELSE IF s[i] \in S THEN Append(f[i - 1], s[i]) ELSE f[i - 1]
             g == [i \in 0..(n + 1) |-> IF i <= n THEN f[i] ELSE V(i)]
  <2>2. \A i \in 0..n : g[i] = f[i] /\ f[i] = V(i)
    BY <2>1, KeptAt
  <2>3. \A i \in 0..(n + 1) : i # 0 => g[i - 1] = f[i - 1]
    OBVIOUS
  <2>4. g[n + 1] = V(n + 1)
    OBVIOUS
  <2>5. \A i \in 0..(n + 1) : g[i] = V(i)
    <3>1. \A i \in 0..(n + 1) : i \in 0..n \/ i = n + 1
      OBVIOUS
    <3> HIDE DEF g, V
    <3>2. QED
      BY <2>2, <2>4, <3>1
  <2>6. g = [i \in 0..(n + 1) |-> g[i]]
    OBVIOUS
  <2> HIDE DEF g
  <2>7. IsKept(g, s, S, n + 1)
    BY <2>3, <2>5, <2>6, Zenon DEF IsKept
  <2>8. QED
    BY <2>7
<1> HIDE DEF N
<1>3. N = Nat
  <2>1. N \in SUBSET Nat
    BY DEF N
  <2>2. QED
    BY <1>1, <1>2, <2>1, SetInduction
<1>4. QED
  BY <1>3 DEF N

(* What Kept returns is a sequence of what it was given, all of it in S. *)
LEMMA KeptIs ==
    ASSUME NEW T, NEW s \in Seq(T), NEW S
    PROVE  /\ Kept(s, S) \in Seq(T)
           /\ \A i \in DOMAIN Kept(s, S) :
                 Kept(s, S)[i] \in S /\ \E j \in DOMAIN s : Kept(s, S)[i] = s[j]
<1> DEFINE f == CHOOSE g : IsKept(g, s, S, Len(s))
<1>1. Kept(s, S) = f[Len(s)]
  BY DEF Kept, IsKept
<1>2. Len(s) \in Nat /\ IsKept(f, s, S, Len(s))
  <2>1. Len(s) \in Nat
    OBVIOUS
  <2>2. \E g : IsKept(g, s, S, Len(s))
    BY <2>1, KeptExists
  <2>3. QED
    BY <2>1, <2>2
<1> HIDE DEF f
<1> DEFINE Good(t) == /\ t \in Seq(T)
                      /\ \A i \in 1..Len(t) : t[i] \in S /\ \E j \in 1..Len(s) : t[i] = s[j]
           N == {n \in Nat : n <= Len(s) => Good(f[n])}
<1>3. 0 \in N
  <2>1. f[0] = <<>>
    BY <1>2, KeptAt
  <2>2. Good(<<>>)
    OBVIOUS
  <2>3. QED
    BY <2>1, <2>2
<1>4. ASSUME NEW n \in N
      PROVE  n + 1 \in N
  <2> SUFFICES ASSUME n + 1 <= Len(s) PROVE Good(f[n + 1])
    OBVIOUS
  <2>1. Good(f[n])
    BY <1>2
  <2>2. f[n + 1] = IF s[n + 1] \in S THEN Append(f[n], s[n + 1]) ELSE f[n]
    <3>1. n + 1 \in 0..Len(s) /\ n + 1 # 0 /\ n + 1 - 1 = n
      BY <1>2
    <3>2. QED
      BY <1>2, <3>1, KeptAt
  <2>3. s[n + 1] \in T /\ n + 1 \in 1..Len(s)
    BY <1>2
  <2>4. CASE s[n + 1] \in S
    <3> DEFINE t == f[n] 
               u == Append(t, s[n + 1])
    <3>1. u \in Seq(T) /\ Len(u) = Len(t) + 1 /\ u[Len(t) + 1] = s[n + 1]
          /\ \A i \in 1..Len(t) : u[i] = t[i]
      BY <2>1, <2>3
    <3>2. \A i \in 1..Len(u) : i = Len(t) + 1 \/ i \in 1..Len(t)
      BY <2>1, <3>1
    <3>3. f[n + 1] = u
      BY <2>2, <2>4
    <3> HIDE DEF u
    <3>4. Good(u)
      BY <2>1, <2>3, <2>4, <3>1, <3>2
    <3>5. QED
      BY <3>3, <3>4
  <2>5. QED
    BY <2>1, <2>2, <2>4
<1> HIDE DEF N
<1>5. N = Nat
  <2>1. N \in SUBSET Nat
    BY DEF N
  <2>2. QED
    BY <1>3, <1>4, <2>1, SetInduction
<1>6. Good(f[Len(s)])
  BY <1>2, <1>5 DEF N
<1>7. QED
  BY <1>1, <1>6
-----------------------------------------------------------------------------
(* The head of a sequence and what comes after it. *)
LEMMA HeadAndTail ==
    ASSUME NEW T, NEW s \in Seq(T), s # <<>>
    PROVE  /\ Len(s) \in Nat /\ Len(s) >= 1 /\ Head(s) = s[1] /\ Head(s) \in T
           /\ Tail(s) \in Seq(T) /\ Len(Tail(s)) = Len(s) - 1
           /\ \A i \in 1..Len(Tail(s)) : Tail(s)[i] = s[i + 1]
<1>1. Len(s) \in Nat /\ Len(s) # 0
  BY EmptySeq
<1>2. Len(s) >= 1
  BY <1>1
<1>3. Head(s) = s[1] /\ Head(s) \in T
  BY <1>1, <1>2, HeadTailProperties
<1>4. /\ Tail(s) \in Seq(T) /\ Len(Tail(s)) = Len(s) - 1
      /\ \A i \in 1..Len(Tail(s)) : Tail(s)[i] = s[i + 1]
  BY <1>1, <1>2, HeadTailProperties
<1>5. QED
  BY <1>1, <1>2, <1>3, <1>4

(* What the thread begins when it takes a message. *)
LEMMA StepsAre ==
    ASSUME NEW ops \in Seq(Calls \cup {"started", "unbind", "process"}), NEW c \in Client
    PROVE  /\ Steps(ops, c) \in Seq(Todo) /\ Len(Steps(ops, c)) = Len(ops)
           /\ \A i \in 1..Len(ops) : Steps(ops, c)[i].op = ops[i] /\ Steps(ops, c)[i].c = c
<1>1. Steps(ops, c) = [i \in 1..Len(ops) |-> [op |-> ops[i], c |-> c]]
  BY DEF Steps
<1>2. \A i \in 1..Len(ops) : [op |-> ops[i], c |-> c] \in Todo
  BY DEF Todo
<1>3. Steps(ops, c) \in [1..Len(ops) -> Todo] /\ Len(ops) \in Nat
  BY <1>1, <1>2
<1>4. Steps(ops, c) \in Seq(Todo) /\ Len(Steps(ops, c)) = Len(ops)
  BY <1>3
<1>5. QED
  BY <1>1, <1>4

(* A thread with nothing left to do. *)
LEMMA Nothing ==
    ASSUME NEW own
    PROVE  Ordered(<<>>, own) /\ UnbindingIn(<<>>) = {}
BY DEF Ordered, UnbindingIn

(* What onServiceConnected begins. *)
LEMMA OfConnected ==
    ASSUME NEW c \in Client, NEW own
    PROVE  LET s == Steps(<<"create", "register", "setDataSource", "setDisplay", "prepare",
                            "start", "started">>, c)
           IN  Ordered(s, own) /\ s # <<>> /\ Head(s).op = "create" /\ Head(s).c = c
<1> DEFINE ops == <<"create", "register", "setDataSource", "setDisplay", "prepare", "start",
                    "started">>
           s == Steps(ops, c)
<1>1. ops \in Seq(Calls \cup {"started", "unbind", "process"}) /\ Len(ops) = 7
      /\ ops[1] = "create" /\ ops[2] = "register" /\ ops[3] = "setDataSource"
      /\ ops[4] = "setDisplay" /\ ops[5] = "prepare" /\ ops[6] = "start" /\ ops[7] = "started"
  BY DEF Calls
<1> HIDE DEF ops
<1>2. s \in Seq(Todo) /\ Len(s) = 7 /\ \A i \in 1..7 : s[i].op = ops[i] /\ s[i].c = c
  BY <1>1, StepsAre
<1> HIDE DEF s
<1>3. \A i \in 1..6 : Follows(s[i], s[i + 1])
  <2> TAKE i \in 1..6
  <2>1. s[i].op = ops[i] /\ s[i + 1].op = ops[i + 1] /\ s[i].c = c /\ s[i + 1].c = c
    BY <1>2
  <2>2. i = 1 \/ i = 2 \/ i = 3 \/ i = 4 \/ i = 5 \/ i = 6
    OBVIOUS
  <2>3. QED
    BY <1>1, <2>1, <2>2 DEF Follows
<1>4. s # <<>> /\ Head(s) = s[1] /\ s[Len(s)].op = "started"
  <2>1. s # <<>>
    <3>1. Len(<<>>) # 7 /\ Len(s) = 7
      BY <1>2
    <3>2. QED
      BY <3>1, Zenon
  <2>2. QED
    BY <1>1, <1>2, <2>1, HeadAndTail
<1>5. \A i \in 1..7 : s[i].op # "process"
  <2> TAKE i \in 1..7
  <2>1. i = 1 \/ i = 2 \/ i = 3 \/ i = 4 \/ i = 5 \/ i = 6 \/ i = 7
    OBVIOUS
  <2>2. QED
    BY <1>1, <1>2, <2>1
<1>6. Ordered(s, own)
  BY <1>2, <1>3, <1>4, <1>5 DEF Ordered, Ends
<1>7. QED
  BY <1>1, <1>2, <1>4, <1>6 DEF s, ops

(* What ON_PREPARED begins. *)
LEMMA OfPrepared ==
    ASSUME NEW c \in Client, NEW own
    PROVE  LET s == Steps(<<"start">>, c)
           IN  Ordered(s, own) /\ s # <<>> /\ Head(s).op = "start" /\ UnbindingIn(s) = {}
<1> DEFINE ops == <<"start">>
           s == Steps(ops, c)
<1>1. ops \in Seq(Calls \cup {"started", "unbind", "process"}) /\ Len(ops) = 1 /\ ops[1] = "start"
  BY DEF Calls
<1> HIDE DEF ops
<1>2. s \in Seq(Todo) /\ Len(s) = 1 /\ \A i \in 1..1 : s[i].op = "start" /\ s[i].c = c
  BY <1>1, StepsAre
<1> HIDE DEF s
<1>3. Ordered(s, own) /\ s # <<>> /\ Head(s).op = "start" /\ UnbindingIn(s) = {}
  BY <1>2 DEF Ordered, Ends, UnbindingIn
<1>4. QED
  BY <1>3 DEF s, ops

(* What close leaves to do, and handlePlay after it. *)
LEMMA OfClose ==
    ASSUME NEW c \in Client \cup {NULL}, NEW own, mPlaybackStarted \in [Client -> BOOLEAN]
    PROVE  LET s == CloseSteps(c)
           IN  /\ Ordered(s, own) /\ \A i \in 1..Len(s) : s[i].op # "process"
               /\ s # <<>> => s[Len(s)].op = "unbind"
               /\ IF c # NULL /\ mPlaybackStarted[c]
                  THEN /\ s # <<>> /\ Head(s).op = "stop" /\ Head(s).c = c
                       /\ UnbindingIn(s) = {c}
                  ELSE s = <<>>
<1>1. CASE c # NULL /\ mPlaybackStarted[c]
  <2> DEFINE ops == <<"stop", "release", "unbind">>
             s == Steps(ops, c)
  <2>1. ops \in Seq(Calls \cup {"started", "unbind", "process"}) /\ Len(ops) = 3
        /\ ops[1] = "stop" /\ ops[2] = "release" /\ ops[3] = "unbind"
    BY DEF Calls
  <2>2. CloseSteps(c) = s
    BY <1>1, Zenon DEF CloseSteps
  <2> HIDE DEF ops
  <2>3. s \in Seq(Todo) /\ Len(s) = 3 /\ \A i \in 1..3 : s[i].op = ops[i] /\ s[i].c = c
    BY <1>1, <2>1, StepsAre
  <2> HIDE DEF s
  <2>4. /\ s[1].op = "stop" /\ s[2].op = "release" /\ s[3].op = "unbind"
        /\ \A i \in 1..3 : i = 1 \/ i = 2 \/ i = 3
    BY <2>1, <2>3
  <2>5. \A i \in 1..2 : Follows(s[i], s[i + 1])
    <3> TAKE i \in 1..2
    <3>1. i = 1 \/ i = 2
      OBVIOUS
    <3>2. QED
      BY <2>3, <2>4, <3>1 DEF Follows
  <2>6. \A i \in 1..3 : s[i].op # "process"
    BY <2>4
  <2>7. s # <<>> /\ Head(s) = s[1]
    <3>1. Len(<<>>) # 3 /\ Len(s) = 3
      BY <2>3
    <3>2. QED
      BY <2>3, <3>1, HeadAndTail, Zenon
  <2>8. Ordered(s, own)
    BY <2>3, <2>4, <2>5, <2>6, <2>7 DEF Ordered, Ends
  <2>9. UnbindingIn(s) = {c}
    BY <1>1, <2>3, <2>4 DEF UnbindingIn
  <2>10. QED
    BY <1>1, <2>2, <2>3, <2>4, <2>6, <2>7, <2>8, <2>9
<1>2. CASE ~(c # NULL /\ mPlaybackStarted[c])
  <2>1. CloseSteps(c) = <<>>
    BY <1>2, Zenon DEF CloseSteps
  <2>2. QED
    BY <1>2, <2>1, Nothing
<1>3. QED
  BY <1>1, <1>2

(* handlePlay goes on after the close of what was played. *)
LEMMA OfPlay ==
    ASSUME NEW c \in Client \cup {NULL}, NEW own \in Client,
           NEW r \in {<<>>, Steps(<<"process">>, own)},
           mPlaybackStarted \in [Client -> BOOLEAN]
    PROVE  LET s == CloseSteps(c) \o r
           IN  /\ Ordered(s, own)
               /\ IF c # NULL /\ mPlaybackStarted[c]
                  THEN /\ s # <<>> /\ Head(s).op = "stop" /\ Head(s).c = c
                       /\ UnbindingIn(s) = {c}
                  ELSE s # <<>> => Head(s).op = "process"
<1> DEFINE x == CloseSteps(c)
           ops == <<"process">>
           y == Steps(ops, own)
<1>1. /\ Ordered(x, own) /\ \A i \in 1..Len(x) : x[i].op # "process"
      /\ x # <<>> => x[Len(x)].op = "unbind"
      /\ IF c # NULL /\ mPlaybackStarted[c]
         THEN /\ x # <<>> /\ Head(x).op = "stop" /\ Head(x).c = c
              /\ UnbindingIn(x) = {c}
         ELSE x = <<>>
  BY OfClose
<1>2. y \in Seq(Todo) /\ Len(y) = 1 /\ y[1].op = "process" /\ y[1].c = own
  <2>1. ops \in Seq(Calls \cup {"started", "unbind", "process"}) /\ Len(ops) = 1
        /\ ops[1] = "process"
    OBVIOUS
  <2> HIDE DEF ops
  <2>2. QED
    BY <2>1, StepsAre
<1> HIDE DEF x, ops, y
<1>3. x \in Seq(Todo)
  BY <1>1 DEF Ordered
<1>4. CASE r = <<>>
  <2>1. x \o <<>> = x
    BY <1>3
  <2>2. QED
    BY <1>1, <1>4, <2>1 DEF x
<1>5. CASE r = y
  <2> DEFINE s == x \o y
  <2>1. s \in Seq(Todo) /\ Len(s) = Len(x) + 1 /\ Len(x) \in Nat
        /\ (\A i \in 1..Len(x) : s[i] = x[i]) /\ s[Len(x) + 1] = y[1]
    <3>1. Len(x) \in Nat
      BY <1>3
    <3>2. s \in Seq(Todo) /\ Len(s) = Len(x) + Len(y)
          /\ \A i \in 1..Len(x) + Len(y) : s[i] = IF i <= Len(x) THEN x[i] ELSE y[i - Len(x)]
      BY <1>2, <1>3, ConcatProperties
    <3>3. Len(x) + 1 \in 1..Len(x) + Len(y)
      BY <1>2, <3>1
    <3>4. QED
      BY <1>2, <3>1, <3>2, <3>3
  <2> HIDE DEF s
  <2>2. \A i \in 1..Len(s) : i \in 1..Len(x) \/ i = Len(x) + 1
    BY <2>1
  <2>3. \A i \in 1..Len(s) - 1 : Follows(s[i], s[i + 1])
    <3> TAKE i \in 1..Len(s) - 1
    <3>1. i \in 1..Len(x) /\ s[i] = x[i]
      BY <2>1
    <3>2. CASE i < Len(x)
      <4>1. i \in 1..Len(x) - 1 /\ s[i + 1] = x[i + 1]
        BY <2>1, <3>1, <3>2
      <4>2. QED
        BY <1>1, <3>1, <4>1 DEF Ordered
    <3>3. CASE i = Len(x)
      <4>1. x # <<>> /\ s[i].op = "unbind" /\ s[i + 1] = y[1]
        BY <1>1, <1>3, <2>1, <3>1, <3>3
      <4>2. QED
        BY <1>2, <4>1 DEF Follows
    <3>4. QED
      BY <2>1, <3>1, <3>2, <3>3
  <2>4. s # <<>> /\ s[Len(s)] = y[1] /\ Head(s) = s[1]
    BY <2>1
  <2>5. \A i \in 1..Len(s) : s[i].op = "process" => s[i].c = own
    BY <1>1, <1>2, <2>1, <2>2
  <2>6. Ordered(s, own)
    BY <1>2, <2>1, <2>3, <2>4, <2>5 DEF Ordered, Ends
  <2>7. UnbindingIn(s) = UnbindingIn(x)
    BY <1>2, <2>1, <2>2 DEF UnbindingIn
  <2>8. IF x # <<>> THEN Head(s) = Head(x) ELSE Head(s) = y[1]
    BY <1>3, <2>1, <2>4
  <2>9. CASE c # NULL /\ mPlaybackStarted[c]
    BY <1>1, <1>5, <2>4, <2>6, <2>7, <2>8, <2>9 DEF s, x, y, ops
  <2>10. CASE ~(c # NULL /\ mPlaybackStarted[c])
    BY <1>1, <1>2, <1>5, <2>6, <2>8, <2>10 DEF s, x, y, ops
  <2>11. QED
    BY <2>9, <2>10
<1>6. QED
  BY <1>4, <1>5 DEF y, ops

(* The thread makes one call: what is left, and what the next one is. *)
LEMMA CallMade ==
    ASSUME NEW s, NEW own, Ordered(s, own), s # <<>>
    PROVE  /\ Ordered(Tail(s), own)
           /\ Head(s) \in Todo /\ (Head(s).op = "process" => Head(s).c = own)
           /\ Tail(s) # <<>> => Follows(Head(s), Head(Tail(s)))
           /\ Tail(s) = <<>> => Head(s).op \in Ends
           /\ \A c \in UnbindingIn(s) :
                 c \in UnbindingIn(Tail(s)) \/ (Head(s).op = "unbind" /\ c = Head(s).c)
<1> DEFINE t == Tail(s)
<1>1. s \in Seq(Todo) /\ Len(s) \in Nat /\ Len(s) >= 1 /\ Head(s) = s[1]
      /\ t \in Seq(Todo) /\ Len(t) = Len(s) - 1 /\ (\A i \in 1..Len(t) : t[i] = s[i + 1])
  BY HeadAndTail DEF Ordered
<1> HIDE DEF t
<1>2. (t # <<>> => Head(t) = t[1] /\ Len(t) >= 1) /\ (t = <<>> => Len(t) = 0)
  BY <1>1, HeadAndTail
<1>3. \A i \in 1..Len(t) - 1 : Follows(t[i], t[i + 1])
  <2> TAKE i \in 1..Len(t) - 1
  <2>1. i + 1 \in 1..Len(s) - 1 /\ t[i] = s[i + 1] /\ t[i + 1] = s[i + 1 + 1]
    BY <1>1, <1>2
  <2>2. QED
    BY <2>1 DEF Ordered
<1>4. t # <<>> => t[Len(t)].op \in Ends
  <2>1. t # <<>> => t[Len(t)] = s[Len(s)]
    BY <1>1, <1>2
  <2>2. QED
    BY <2>1 DEF Ordered
<1>5. \A i \in 1..Len(t) : t[i].op = "process" => t[i].c = own
  <2>1. \A i \in 1..Len(t) : i + 1 \in 1..Len(s) /\ t[i] = s[i + 1]
    BY <1>1, <1>2
  <2>2. QED
    BY <2>1 DEF Ordered
<1>6. Ordered(t, own)
  BY <1>1, <1>3, <1>4, <1>5 DEF Ordered
<1>7. Head(s) \in Todo /\ (Head(s).op = "process" => Head(s).c = own)
  BY <1>1, <1>2 DEF Ordered
<1>8. t # <<>> => Follows(Head(s), Head(t))
  <2>1. t # <<>> => 1 \in 1..Len(s) - 1 /\ Head(s) = s[1] /\ Head(t) = s[1 + 1]
    BY <1>1, <1>2
  <2>2. QED
    BY <2>1 DEF Ordered
<1>9. t = <<>> => Head(s).op \in Ends
  <2>1. t = <<>> => s[Len(s)] = Head(s)
    <3> SUFFICES ASSUME t = <<>> PROVE s[Len(s)] = Head(s)
      OBVIOUS
    <3>1. Len(s) = 1
      BY <1>1, <1>2
    <3>2. QED
      BY <1>1, <3>1
  <2>2. s # <<>> => s[Len(s)].op \in Ends
    BY DEF Ordered
  <2>3. QED
    BY <2>1, <2>2
<1>10. \A c \in UnbindingIn(s) : c \in UnbindingIn(t) \/ (Head(s).op = "unbind" /\ c = Head(s).c)
  <2> TAKE c \in UnbindingIn(s)
  <2>1. PICK i \in 1..Len(s) : s[i].op = "unbind" /\ s[i].c = c
    BY DEF UnbindingIn
  <2>2. i = 1 \/ (i - 1 \in 1..Len(t) /\ t[i - 1] = s[i])
    BY <1>1, <1>2
  <2>3. c \in Client
    BY DEF UnbindingIn
  <2>4. QED
    BY <1>2, <2>1, <2>2, <2>3 DEF UnbindingIn
<1>11. QED
  BY <1>6, <1>7, <1>8, <1>9, <1>10 DEF t
-----------------------------------------------------------------------------
(* NULL is no FQRtmpPlayer. *)
LEMMA NullIsNone == NULL \notin Client /\ MaxClients \in Nat
BY PlayerAssumption DEF NULL, Client

(* The history of the activity's own FQRtmpPlayer. *)
LEMMA StuckStays ==
    ASSUME PlayerInv, Closed(mFQRtmp), mFQRtmp' \in {mFQRtmp, NULL, made + 1}
    PROVE  /\ ~Stuck' => ~Stuck
           /\ lost' \subseteq 1..made
           /\ mFQRtmp' # mFQRtmp /\ Own /\ ~mPlaybackStarted[mFQRtmp] => Stuck'
           /\ open' = {}
           /\ \A c \in Client : binding[c] # "none" /\ c \in open \cup lost =>
                 \/ c \in lost'
                 \/ c = mFQRtmp /\ c # NULL /\ mPlaybackStarted[c]
<1>1. /\ open' = open \ {mFQRtmp}
      /\ lost' = IF mFQRtmp = NULL \/ binding[mFQRtmp] = "none" THEN lost
                 ELSE IF mPlaybackStarted[mFQRtmp] THEN lost \ {mFQRtmp} ELSE lost \cup {mFQRtmp}
  BY DEF Closed
<1>2. /\ open \subseteq {mFQRtmp} \ {NULL} /\ lost \subseteq 1..made /\ made \in Nat
      /\ mFQRtmp \in 0..made /\ NULL = 0
  BY NullIsNone DEF PlayerInv, TypeOK, NULL
<1>3. ~Stuck' => ~Stuck
  <2> SUFFICES ASSUME Stuck PROVE Stuck'
    OBVIOUS
  <2>1. PICK c \in lost : c # mFQRtmp
    BY DEF Stuck
  <2>2. c \in lost'
    BY <1>1, <2>1
  <2>3. c # mFQRtmp'
    BY <1>2, <2>1
  <2>4. QED
    BY <2>2, <2>3 DEF Stuck
<1>4. lost' \subseteq 1..made
  BY <1>1, <1>2
<1>5. mFQRtmp' # mFQRtmp /\ Own /\ ~mPlaybackStarted[mFQRtmp] => Stuck'
  BY <1>1 DEF Own, Stuck
<1>6. open' = {}
  BY <1>1, <1>2
<1>7. \A c \in Client : binding[c] # "none" /\ c \in open \cup lost =>
                 \/ c \in lost'
                 \/ c = mFQRtmp /\ c # NULL /\ mPlaybackStarted[c]
  BY <1>1, <1>2
<1>8. QED
  BY <1>3, <1>4, <1>5, <1>6, <1>7

(* The activity closes its FQRtmpPlayer, and keeps it, or has another or  *)
(* none.                                                                   *)
LEMMA CloseKeeps ==
    ASSUME PlayerInv, todo = <<>>, Closed(mFQRtmp),
           mFQRtmp' \in {mFQRtmp, NULL, made + 1}, made' \in made..MaxClients,
           mFQRtmp' \in 0..made',
           Ordered(todo', mFQRtmp'),
           IF mFQRtmp # NULL /\ mPlaybackStarted[mFQRtmp]
           THEN /\ todo' # <<>> /\ Head(todo').op = "stop" /\ Head(todo').c = mFQRtmp
                /\ UnbindingIn(todo') = {mFQRtmp}
           ELSE todo' # <<>> => Head(todo').op = "process" /\ mFQRtmp' # mFQRtmp,
           UNCHANGED <<mPlaybackStarted, binding, dead, queue, service, event>>
    PROVE  PlayerInv'
<1>1. /\ TypeOK /\ BoundInv /\ (~Stuck => Connecting)
      /\ (~Stuck /\ created => PlayerHeld)
  BY DEF PlayerInv
<1>2. UNCHANGED <<mPlaybackStarted, binding, dead, queue, mPlayer, mClientCb, created, event>>
  BY DEF service
<1>3. /\ ~Stuck' => ~Stuck
      /\ lost' \subseteq 1..made
      /\ mFQRtmp' # mFQRtmp /\ Own /\ ~mPlaybackStarted[mFQRtmp] => Stuck'
      /\ open' = {}
      /\ \A c \in Client : binding[c] # "none" /\ c \in open \cup lost =>
            c \in lost' \/ (c = mFQRtmp /\ c # NULL /\ mPlaybackStarted[c])
  BY StuckStays
<1>4. TypeOK'
  <2>1. lost' \subseteq 1..made' /\ made' \in 0..MaxClients
    BY <1>1, <1>3, NullIsNone DEF TypeOK
  <2>2. todo' \in Seq(Todo)
    BY DEF Ordered
  <2>3. QED
    BY <1>1, <1>2, <1>3, <2>1, <2>2 DEF TypeOK
<1>5. BoundInv'
  <2>1. ASSUME NEW c \in Client, binding[c] # "none"
        PROVE  c \in lost' \cup UnbindingIn(todo')
    <3>1. c \in open \cup lost
      BY <1>1, <2>1, Nothing DEF BoundInv
    <3>2. QED
      BY <1>3, <2>1, <3>1
  <2>2. QED
    BY <1>1, <1>2, <2>1 DEF BoundInv
<1>6. Connecting'
  BY DEF Connecting, Setup
<1>7. ASSUME ~Stuck', created' PROVE PlayerHeld'
  <2>1. Playing
    BY <1>1, <1>2, <1>3, <1>7 DEF PlayerHeld
  <2>2. CASE mPlaybackStarted[mFQRtmp]
    <3>1. todo' # <<>> /\ Head(todo').op = "stop" /\ Head(todo').c = mFQRtmp
      BY <2>1, <2>2 DEF Playing, Owned, Own
    <3>2. mFQRtmp \notin dead'
      BY <1>2, <2>1 DEF Playing, Owned
    <3>3. QED
      BY <3>1, <3>2 DEF PlayerHeld
  <2>3. CASE ~mPlaybackStarted[mFQRtmp]
    <3>1. mFQRtmp' = mFQRtmp
      BY <1>3, <1>7, <2>1, <2>3 DEF Playing, Owned
    <3>2. todo' = <<>>
      BY <2>3, <3>1
    <3>3. Playing'
      BY <1>2, <2>1, <3>1 DEF Playing, Owned, Own
    <3>4. QED
      BY <3>2, <3>3 DEF PlayerHeld
  <2>4. QED
    BY <2>2, <2>3
<1>8. QED
  BY <1>4, <1>5, <1>6, <1>7 DEF PlayerInv

(* The activity pauses, resets its FQRtmpPlayer, or plays another url. *)
LEMMA ActivityKeeps ==
    ASSUME PlayerInv,
           OnPause \/ ResetFQRtmp \/ (\E url \in Urls : HandlePlay(url))
    PROVE  PlayerInv'
<1>1. /\ mFQRtmp \in Client \cup {NULL} /\ mPlaybackStarted \in [Client -> BOOLEAN]
      /\ made \in 0..MaxClients /\ mFQRtmp \in 0..made
  BY NullIsNone DEF PlayerInv, TypeOK, Client, NULL
<1>2. CASE OnPause
  <2>1. /\ todo = <<>> /\ Closed(mFQRtmp) /\ todo' = CloseSteps(mFQRtmp)
        /\ UNCHANGED <<mFQRtmp, made, mPlaybackStarted, binding, dead, queue, service, event>>
    BY <1>2 DEF OnPause
  <2> DEFINE s == CloseSteps(mFQRtmp)
  <2>2. /\ Ordered(s, mFQRtmp')
        /\ IF mFQRtmp # NULL /\ mPlaybackStarted[mFQRtmp]
           THEN s # <<>> /\ Head(s).op = "stop" /\ Head(s).c = mFQRtmp /\ UnbindingIn(s) = {mFQRtmp}
           ELSE s = <<>>
    BY <1>1, OfClose
  <2> HIDE DEF s
  <2>3. todo' = s
    BY <2>1 DEF s
  <2>4. made' \in made..MaxClients /\ mFQRtmp' \in 0..made'
    BY <1>1, <2>1, NullIsNone
  <2>5. QED
    BY <2>1, <2>2, <2>3, <2>4, CloseKeeps
<1>3. CASE ResetFQRtmp
  <2>1. /\ todo = <<>> /\ Closed(mFQRtmp) /\ todo' = CloseSteps(mFQRtmp) /\ mFQRtmp' = NULL
        /\ UNCHANGED <<made, mPlaybackStarted, binding, dead, queue, service, event>>
    BY <1>3 DEF ResetFQRtmp
  <2> DEFINE s == CloseSteps(mFQRtmp)
  <2>2. /\ Ordered(s, mFQRtmp')
        /\ IF mFQRtmp # NULL /\ mPlaybackStarted[mFQRtmp]
           THEN s # <<>> /\ Head(s).op = "stop" /\ Head(s).c = mFQRtmp /\ UnbindingIn(s) = {mFQRtmp}
           ELSE s = <<>>
    BY <1>1, OfClose
  <2> HIDE DEF s
  <2>3. todo' = s
    BY <2>1 DEF s
  <2>4. made' \in made..MaxClients /\ mFQRtmp' \in 0..made'
    BY <1>1, <2>1, NullIsNone DEF NULL
  <2>5. QED
    BY <2>1, <2>2, <2>3, <2>4, CloseKeeps
<1>4. CASE \E url \in Urls : HandlePlay(url)
  <2> PICK url \in Urls : HandlePlay(url)
    BY <1>4
  <2> DEFINE own == made + 1
             r == IF url = "empty" THEN <<>> ELSE Steps(<<"process">>, own)
             s == CloseSteps(mFQRtmp) \o r
  <2>1. /\ todo = <<>> /\ Closed(mFQRtmp) /\ todo' = s /\ mFQRtmp' = made + 1 /\ made' = made + 1
        /\ made < MaxClients
        /\ UNCHANGED <<mPlaybackStarted, binding, dead, queue, service, event>>
    BY DEF HandlePlay
  <2>2. own \in Client
    BY <1>1, <2>1, NullIsNone DEF Client
  <2> HIDE DEF own
  <2> r \in {<<>>, Steps(<<"process">>, own)}
    OBVIOUS
  <2> HIDE DEF r
  <2>3. /\ Ordered(s, own)
        /\ IF mFQRtmp # NULL /\ mPlaybackStarted[mFQRtmp]
           THEN s # <<>> /\ Head(s).op = "stop" /\ Head(s).c = mFQRtmp /\ UnbindingIn(s) = {mFQRtmp}
           ELSE s # <<>> => Head(s).op = "process"
    BY <1>1, <2>2, OfPlay
  <2> HIDE DEF s
  <2>4. made' \in made..MaxClients /\ mFQRtmp' \in 0..made' /\ mFQRtmp' # mFQRtmp
    BY <1>1, <2>1, NullIsNone
  <2>5. QED
    BY <2>1, <2>3, <2>4, CloseKeeps DEF own
<1>5. QED
  BY <1>2, <1>3, <1>4
-----------------------------------------------------------------------------
(* A message more, or the first one taken.                                 *)
LEMMA Queued ==
    ASSUME NEW s \in Seq(Messages), NEW m \in Messages
    PROVE  /\ Append(s, m) \in Seq(Messages)
           /\ \A i \in 1..Len(Append(s, m)) :
                 Append(s, m)[i] = m \/ \E j \in 1..Len(s) : Append(s, m)[i] = s[j]
<1>1. /\ Append(s, m) \in Seq(Messages) /\ Len(Append(s, m)) = Len(s) + 1
      /\ \A i \in 1..Len(s) : Append(s, m)[i] = s[i]
      /\ Append(s, m)[Len(s) + 1] = m
  BY AppendProperties
<1>2. Len(s) \in Nat
  OBVIOUS
<1>3. \A i \in 1..Len(s) + 1 : i \in 1..Len(s) \/ i = Len(s) + 1
  BY <1>2
<1>4. QED
  BY <1>1, <1>3

(* The first message is taken. *)
LEMMA Taken ==
    ASSUME NEW s \in Seq(Messages), s # <<>>
    PROVE  /\ Head(s) \in Messages /\ Tail(s) \in Seq(Messages)
           /\ \E j \in 1..Len(s) : Head(s) = s[j]
           /\ \A i \in 1..Len(Tail(s)) : \E j \in 1..Len(s) : Tail(s)[i] = s[j]
<1>1. /\ Len(s) \in Nat /\ Len(s) >= 1 /\ Head(s) = s[1] /\ Head(s) \in Messages
      /\ Tail(s) \in Seq(Messages) /\ Len(Tail(s)) = Len(s) - 1
      /\ \A i \in 1..Len(Tail(s)) : Tail(s)[i] = s[i + 1]
  BY HeadAndTail
<1>2. 1 \in 1..Len(s) /\ \A i \in 1..Len(Tail(s)) : i + 1 \in 1..Len(s)
  BY <1>1
<1>3. QED
  BY <1>1, <1>2

(* The service holds what it held, if the thread does nothing. *)
LEMMA HeldKept ==
    ASSUME UNCHANGED <<mFQRtmp, made, binding, dead, todo, mPlayer, mClientCb, created, open, lost>>
    PROVE  /\ Stuck' = Stuck /\ Connecting' = Connecting /\ PlayerHeld' = PlayerHeld
           /\ Ordered(todo, mFQRtmp)' = Ordered(todo, mFQRtmp)
BY DEF Stuck, Connecting, PlayerHeld, Playing, Setting, Owned, Own

(* A step that changes the messages only, and perhaps what the next event  *)
(* is for: whoever they are for is bound.                                  *)
LEMMA QueueKeeps ==
    ASSUME PlayerInv,
           UNCHANGED <<mFQRtmp, made, mPlaybackStarted, binding, dead, todo, mPlayer, mClientCb,
                       created, open, lost>>,
           queue' \in Seq(Messages), event' \in Client \cup {NULL},
           \A i \in 1..Len(queue') :
              queue'[i].op # "prepared" => binding[queue'[i].c] # "none"
    PROVE  PlayerInv'
<1>1. TypeOK' /\ BoundInv'
  BY DEF PlayerInv, TypeOK, BoundInv
<1>2. /\ Stuck' = Stuck /\ Connecting' = Connecting /\ PlayerHeld' = PlayerHeld
      /\ Ordered(todo, mFQRtmp)' = Ordered(todo, mFQRtmp)
  BY HeldKept
<1>3. QED
  BY <1>1, <1>2 DEF PlayerInv

(* Android connects what is bound, and an event finds a callback.          *)
LEMMA ConnectKeeps ==
    ASSUME PlayerInv, NEW c \in Client, Connect(c)
    PROVE  PlayerInv'
<1> DEFINE m == [op |-> "connected", c |-> c]
<1>1. /\ binding[c] = "bound" /\ queue' = Append(queue, m)
      /\ UNCHANGED <<mFQRtmp, made, mPlaybackStarted, binding, dead, todo, mPlayer, mClientCb,
                     created, event, open, lost>>
  BY DEF Connect, activity, service
<1>2. queue \in Seq(Messages) /\ m \in Messages /\ event \in Client \cup {NULL}
      /\ m.c = c
  BY DEF PlayerInv, TypeOK, Messages
<1> HIDE DEF m
<1>3. /\ queue' \in Seq(Messages)
      /\ \A i \in 1..Len(queue') : queue'[i] = m \/ \E j \in 1..Len(queue) : queue'[i] = queue[j]
  BY <1>1, <1>2, Queued
<1>4. \A j \in 1..Len(queue) : queue[j].op # "prepared" => binding[queue[j].c] # "none"
  BY DEF PlayerInv, BoundInv
<1>5. \A i \in 1..Len(queue') : queue'[i].op # "prepared" => binding[queue'[i].c] # "none"
  BY <1>1, <1>2, <1>3, <1>4
<1>6. QED
  BY <1>1, <1>2, <1>3, <1>5, QueueKeeps

(* An event finds a callback, or the activity resumes. *)
LEMMA EventKeeps ==
    ASSUME PlayerInv, VlcEvent \/ OnResume
    PROVE  PlayerInv'
<1>1. /\ event' \in {event, mClientCb} /\ queue' = queue
      /\ UNCHANGED <<mFQRtmp, made, mPlaybackStarted, binding, dead, todo, mPlayer, mClientCb,
                     created, open, lost>>
  BY DEF VlcEvent, OnResume, activity, service
<1>2. queue \in Seq(Messages) /\ event \in Client \cup {NULL} /\ mClientCb \in Client \cup {NULL}
  BY DEF PlayerInv, TypeOK
<1>3. \A i \in 1..Len(queue) : queue[i].op # "prepared" => binding[queue[i].c] # "none"
  BY DEF PlayerInv, BoundInv
<1>4. QED
  BY <1>1, <1>2, <1>3, QueueKeeps

(* The service dies: it has no player then, and tells who was connected.   *)
LEMMA DieKeeps ==
    ASSUME PlayerInv, Die
    PROVE  PlayerInv'
<1> DEFINE connected == {c \in Client : binding[c] = "connected"}
           all == [c \in Client |-> [op |-> "disconnected", c |-> c]]
           D == {m \in Messages : m.c \in connected \ dead}
           K == {m \in Messages : m.op # "connected"}
           told == Kept(all, D)
           kept == Kept(queue, K)
<1>1. /\ mPlayer' = NULL /\ mClientCb' = NULL /\ created' = FALSE /\ event' = NULL
      /\ dead' = dead \cup connected
      /\ queue' = kept \o told
      /\ UNCHANGED <<mFQRtmp, made, mPlaybackStarted, binding, todo, open, lost>>
  BY Zenon DEF Die, activity
<1>2. TypeOK /\ BoundInv /\ Ordered(todo, mFQRtmp) /\ (~Stuck => Connecting)
  BY DEF PlayerInv
<1>3. all \in Seq(Messages)
  <2>1. \A c \in Client : [op |-> "disconnected", c |-> c] \in Messages
    BY DEF Messages
  <2>2. all \in [1..MaxClients -> Messages]
    BY <2>1 DEF Client
  <2>3. QED
    BY <2>2, NullIsNone
<1> HIDE DEF all
<1>4. told \in Seq(Messages) /\ \A i \in DOMAIN told : told[i] \in D
  BY <1>3, KeptIs
<1>5. /\ kept \in Seq(Messages)
      /\ \A i \in DOMAIN kept : \E j \in DOMAIN queue : kept[i] = queue[j]
  <2>1. queue \in Seq(Messages)
    BY <1>2 DEF TypeOK
  <2> HIDE DEF K
  <2>2. QED
    BY <2>1, KeptIs
<1> HIDE DEF told, kept
<1>6. queue' \in Seq(Messages) /\ queue \in Seq(Messages)
      /\ Len(queue') = Len(kept) + Len(told)
      /\ \A i \in 1..Len(kept) + Len(told) :
            queue'[i] = IF i <= Len(kept) THEN kept[i] ELSE told[i - Len(kept)]
  BY <1>1, <1>2, <1>4, <1>5, ConcatProperties DEF TypeOK
<1>7. \A i \in 1..Len(queue') : queue'[i].op # "prepared" => binding[queue'[i].c] # "none"
  <2> TAKE i \in 1..Len(queue')
  <2>1. Len(kept) \in Nat /\ Len(told) \in Nat
    BY <1>4, <1>5
  <2>2. CASE i <= Len(kept)
    <3>1. queue'[i] = kept[i] /\ i \in 1..Len(kept)
      BY <1>6, <2>1, <2>2
    <3>2. PICK j \in 1..Len(queue) : kept[i] = queue[j]
      BY <1>5, <1>6, <3>1
    <3>3. QED
      BY <1>2, <3>1, <3>2 DEF BoundInv
  <2>3. CASE i > Len(kept)
    <3>1. queue'[i] = told[i - Len(kept)] /\ i - Len(kept) \in 1..Len(told)
      BY <1>6, <2>1, <2>3
    <3>2. queue'[i] \in D
      BY <1>4, <3>1
    <3>3. QED
      BY <3>2
  <2>4. QED
    BY <2>1, <2>2, <2>3
<1>8. TypeOK'
  BY <1>1, <1>2, <1>6 DEF TypeOK
<1>9. BoundInv'
  BY <1>1, <1>2, <1>7 DEF BoundInv
<1>10. Stuck' = Stuck /\ Connecting' = Connecting
  BY <1>1 DEF Stuck, Connecting, Own
<1>11. QED
  BY <1>1, <1>2, <1>8, <1>9, <1>10 DEF PlayerInv

(* The event calls it, or kills the service. *)
LEMMA CallBackKeeps ==
    ASSUME PlayerInv, NEW full \in BOOLEAN, CallBack(full)
    PROVE  PlayerInv'
<1>1. CASE mClientCb = NULL
  BY <1>1, DieKeeps DEF CallBack
<1>2. CASE mClientCb # NULL
  <2> DEFINE m == [op |-> "prepared", c |-> mClientCb]
  <2>1. /\ event' = NULL /\ queue' \in {queue, Append(queue, m)}
        /\ UNCHANGED <<mFQRtmp, made, mPlaybackStarted, binding, dead, todo, mPlayer, mClientCb,
                       created, open, lost>>
    BY <1>2 DEF CallBack, activity
  <2>2. queue \in Seq(Messages) /\ m \in Messages /\ m.op = "prepared"
    BY <1>2 DEF PlayerInv, TypeOK, Messages
  <2> HIDE DEF m
  <2>3. /\ queue' \in Seq(Messages)
        /\ \A i \in 1..Len(queue') : queue'[i] = m \/ \E j \in 1..Len(queue) : queue'[i] = queue[j]
    BY <2>1, <2>2, Queued
  <2>4. \A j \in 1..Len(queue) : queue[j].op # "prepared" => binding[queue[j].c] # "none"
    BY DEF PlayerInv, BoundInv
  <2>5. \A i \in 1..Len(queue') : queue'[i].op # "prepared" => binding[queue'[i].c] # "none"
    BY <2>2, <2>3, <2>4
  <2>6. QED
    BY <2>1, <2>3, <2>5, QueueKeeps
<1>3. QED
  BY <1>1, <1>2
-----------------------------------------------------------------------------
(* Whoever gets a message of its ServiceConnection is bound; and is the    *)
(* activity's own, as long as no close was lost.                           *)
LEMMA MessageIsFor ==
    ASSUME PlayerInv, todo = <<>>, queue # <<>>
    PROVE  /\ Head(queue) \in Messages /\ Tail(queue) \in Seq(Messages)
           /\ \A i \in 1..Len(Tail(queue)) : \E j \in 1..Len(queue) : Tail(queue)[i] = queue[j]
           /\ Head(queue).op # "prepared" => binding[Head(queue).c] # "none"
           /\ Head(queue).op # "prepared" /\ ~Stuck => Head(queue).c = mFQRtmp
<1>1. /\ Head(queue) \in Messages /\ Tail(queue) \in Seq(Messages)
      /\ \E j \in 1..Len(queue) : Head(queue) = queue[j]
      /\ \A i \in 1..Len(Tail(queue)) : \E j \in 1..Len(queue) : Tail(queue)[i] = queue[j]
  BY Taken DEF PlayerInv, TypeOK
<1>2. Head(queue).op # "prepared" => binding[Head(queue).c] # "none"
  BY <1>1 DEF PlayerInv, BoundInv
<1>3. Head(queue).c \in Client
  BY <1>1 DEF Messages
<1>4. binding[Head(queue).c] # "none" => Head(queue).c \in open \cup lost
  BY <1>3, Nothing DEF PlayerInv, BoundInv
<1>5. open \subseteq {mFQRtmp} /\ (~Stuck => lost \subseteq {mFQRtmp})
  BY DEF PlayerInv, TypeOK, Stuck
<1>6. QED
  BY <1>1, <1>2, <1>4, <1>5

(* onServiceConnected is for the activity's own, whose service lives then. *)
LEMMA ConnectedKeeps ==
    ASSUME PlayerInv, OnServiceConnected
    PROVE  PlayerInv'
<1> DEFINE c == Head(queue).c
           s == Steps(<<"create", "register", "setDataSource", "setDisplay", "prepare", "start",
                        "started">>, c)
<1>1. /\ todo = <<>> /\ queue # <<>> /\ Head(queue).op = "connected"
      /\ binding' = [binding EXCEPT ![c] = "connected"] /\ dead' = dead \ {c}
      /\ todo' = s /\ queue' = Tail(queue)
      /\ UNCHANGED <<mFQRtmp, made, mPlaybackStarted, mPlayer, mClientCb, created, event,
                     open, lost>>
  BY DEF OnServiceConnected, activity, service
<1>2. /\ c \in Client /\ queue' \in Seq(Messages)
      /\ \A i \in 1..Len(queue') : \E j \in 1..Len(queue) : queue'[i] = queue[j]
      /\ binding[c] # "none" /\ (~Stuck => c = mFQRtmp)
  BY <1>1, MessageIsFor DEF Messages
<1>3. Ordered(s, mFQRtmp) /\ s # <<>> /\ Head(s).op = "create" /\ Head(s).c = c
  BY <1>2, OfConnected
<1> HIDE DEF s
<1>4. TypeOK /\ BoundInv /\ (~Stuck /\ created => PlayerHeld)
  BY DEF PlayerInv
<1>5. binding' \in [Client -> {"none", "bound", "connected"}]
      /\ \A d \in Client : (binding'[d] = "none") <=> (binding[d] = "none")
  BY <1>1, <1>2, <1>4 DEF TypeOK
<1>6. TypeOK'
  <2>1. todo' \in Seq(Todo)
    BY <1>1, <1>3 DEF Ordered
  <2>2. QED
    BY <1>1, <1>2, <1>4, <1>5, <2>1 DEF TypeOK
<1>7. BoundInv'
  <2>1. \A d \in Client : binding[d] # "none" => d \in open \cup lost
    BY <1>1, <1>4, Nothing DEF BoundInv
  <2>2. \A j \in 1..Len(queue) : queue[j].c \in Client
    <3>1. \A j \in 1..Len(queue) : queue[j] \in Messages
      BY <1>4, ElementOfSeq DEF TypeOK
    <3>2. QED
      BY <3>1 DEF Messages
  <2>3. \A i \in 1..Len(queue') : queue'[i].op # "prepared" => binding'[queue'[i].c] # "none"
    BY <1>2, <1>4, <1>5, <2>2 DEF BoundInv
  <2>4. QED
    BY <1>1, <1>5, <2>1, <2>3 DEF BoundInv
<1>8. Stuck' = Stuck
  BY <1>1 DEF Stuck
<1>9. ~Stuck => Owned'
  BY <1>1, <1>2, <1>5, NullIsNone DEF Owned, Own
<1>10. ~Stuck' => Connecting'
  BY <1>1, <1>2, <1>3, <1>8, <1>9 DEF Connecting, Owned
<1>11. ~Stuck' /\ created' => PlayerHeld'
  <2> SUFFICES ASSUME ~Stuck', created' PROVE PlayerHeld'
    OBVIOUS
  <2>1. Playing
    BY <1>1, <1>4, <1>8 DEF PlayerHeld
  <2>2. Playing'
    BY <1>1, <1>8, <1>9, <2>1 DEF Playing
  <2>3. QED
    BY <1>1, <1>3, <2>2 DEF PlayerHeld
<1>12. QED
  BY <1>1, <1>3, <1>6, <1>7, <1>10, <1>11 DEF PlayerInv

(* onServiceDisconnected leaves who is bound as it is. *)
LEMMA DisconnectedKeeps ==
    ASSUME PlayerInv, OnServiceDisconnected
    PROVE  PlayerInv'
<1> DEFINE c == Head(queue).c
<1>1. /\ todo = <<>> /\ queue # <<>> /\ Head(queue).op = "disconnected"
      /\ binding' = [binding EXCEPT ![c] = "bound"]
      /\ queue' = Tail(queue)
      /\ UNCHANGED <<mFQRtmp, made, mPlaybackStarted, dead, todo, mPlayer, mClientCb, created,
                     event, open, lost>>
  BY DEF OnServiceDisconnected, activity, service
<1>2. /\ c \in Client /\ queue' \in Seq(Messages)
      /\ \A i \in 1..Len(queue') : \E j \in 1..Len(queue) : queue'[i] = queue[j]
      /\ binding[c] # "none"
  BY <1>1, MessageIsFor DEF Messages
<1>3. TypeOK /\ BoundInv /\ (~Stuck => Connecting) /\ (~Stuck /\ created => PlayerHeld)
      /\ Ordered(todo, mFQRtmp)
  BY DEF PlayerInv
<1>4. binding' \in [Client -> {"none", "bound", "connected"}]
      /\ \A d \in Client : (binding'[d] = "none") <=> (binding[d] = "none")
  BY <1>1, <1>2, <1>3 DEF TypeOK
<1>5. TypeOK'
  BY <1>1, <1>2, <1>3, <1>4 DEF TypeOK
<1>6. BoundInv'
  <2>1. \A j \in 1..Len(queue) : queue[j].c \in Client
    <3>1. \A j \in 1..Len(queue) : queue[j] \in Messages
      BY <1>3, ElementOfSeq DEF TypeOK
    <3>2. QED
      BY <3>1 DEF Messages
  <2>2. \A i \in 1..Len(queue') : queue'[i].op # "prepared" => binding'[queue'[i].c] # "none"
    BY <1>2, <1>3, <1>4, <2>1 DEF BoundInv
  <2>3. QED
    BY <1>1, <1>3, <1>4, <2>2 DEF BoundInv
<1>7. Stuck' = Stuck /\ Connecting'
  BY <1>1 DEF Stuck, Connecting
<1>8. Playing => Playing'
  <2>1. mFQRtmp # NULL => mFQRtmp \in Client
    BY <1>3, NullIsNone DEF TypeOK, Client, NULL
  <2>2. QED
    BY <1>1, <1>4, <2>1 DEF Playing, Owned, Own
<1>9. QED
  BY <1>1, <1>3, <1>5, <1>6, <1>7, <1>8 DEF PlayerInv, PlayerHeld

(* ON_PREPARED is for what plays. *)
LEMMA PreparedKeeps ==
    ASSUME PlayerInv, OnPrepared
    PROVE  PlayerInv'
<1> DEFINE s == Steps(<<"start">>, Head(queue).c)
<1>1. /\ todo = <<>> /\ queue # <<>> /\ todo' = s /\ queue' = Tail(queue)
      /\ UNCHANGED <<mFQRtmp, made, mPlaybackStarted, binding, dead, mPlayer, mClientCb, created,
                     event, open, lost>>
  BY DEF OnPrepared, activity, service
<1>2. /\ Head(queue).c \in Client /\ queue' \in Seq(Messages)
      /\ \A i \in 1..Len(queue') : \E j \in 1..Len(queue) : queue'[i] = queue[j]
  BY <1>1, MessageIsFor DEF Messages
<1>3. Ordered(s, mFQRtmp) /\ s # <<>> /\ Head(s).op = "start" /\ UnbindingIn(s) = {}
  BY <1>2, OfPrepared
<1> HIDE DEF s
<1>4. TypeOK /\ BoundInv /\ (~Stuck /\ created => PlayerHeld)
  BY DEF PlayerInv
<1>5. TypeOK'
  <2>1. todo' \in Seq(Todo)
    BY <1>1, <1>3 DEF Ordered
  <2>2. QED
    BY <1>1, <1>2, <1>4, <2>1 DEF TypeOK
<1>6. BoundInv'
  <2>1. \A d \in Client : binding[d] # "none" => d \in open \cup lost
    BY <1>1, <1>4, Nothing DEF BoundInv
  <2>2. \A i \in 1..Len(queue') : queue'[i].op # "prepared" => binding'[queue'[i].c] # "none"
    BY <1>1, <1>2, <1>4 DEF BoundInv
  <2>3. QED
    BY <1>1, <2>1, <2>2 DEF BoundInv
<1>7. Stuck' = Stuck /\ Connecting' /\ (Playing => Playing')
  BY <1>1, <1>3 DEF Stuck, Connecting, Setup, Playing, Owned, Own
<1>8. ~Stuck' /\ created' => PlayerHeld'
  BY <1>1, <1>3, <1>4, <1>7 DEF PlayerHeld
<1>9. QED
  BY <1>1, <1>3, <1>5, <1>6, <1>7, <1>8 DEF PlayerInv
-----------------------------------------------------------------------------
(* The thread makes one call of those left: what it knows of that call.    *)
LEMMA CallOf ==
    ASSUME PlayerInv, todo # <<>>, todo' = Tail(todo), mFQRtmp' = mFQRtmp, lost' = lost
    PROVE  /\ Ordered(todo, mFQRtmp)' /\ Head(todo) \in Todo /\ Head(todo).c \in Client
           /\ Head(todo).op = "process" => Head(todo).c = mFQRtmp
           /\ todo' # <<>> => Follows(Head(todo), Head(todo'))
           /\ todo' = <<>> => Head(todo).op \in Ends
           /\ \A c \in UnbindingIn(todo) :
                 c \in UnbindingIn(todo') \/ (Head(todo).op = "unbind" /\ c = Head(todo).c)
           /\ Stuck' = Stuck
           /\ (Head(todo).op \in Setup => binding' = binding) /\ ~Stuck' =>
                 Connecting'
<1>1. Ordered(todo, mFQRtmp)
  BY DEF PlayerInv
<1>2. /\ Ordered(Tail(todo), mFQRtmp) /\ Head(todo) \in Todo
      /\ Head(todo).op = "process" => Head(todo).c = mFQRtmp
      /\ Tail(todo) # <<>> => Follows(Head(todo), Head(Tail(todo)))
      /\ Tail(todo) = <<>> => Head(todo).op \in Ends
      /\ \A c \in UnbindingIn(todo) :
            c \in UnbindingIn(Tail(todo)) \/ (Head(todo).op = "unbind" /\ c = Head(todo).c)
  BY <1>1, CallMade
<1>3. Head(todo).c \in Client
  BY <1>2 DEF Todo
<1>4. Stuck' = Stuck
  BY DEF Stuck
<1>5. ASSUME Head(todo).op \in Setup => binding' = binding, ~Stuck'
      PROVE  Connecting'
  <2> SUFFICES ASSUME todo' # <<>>, Head(todo').op \in Setup
               PROVE  Head(todo').c = mFQRtmp' /\ Own'
    BY DEF Connecting
  <2>1. Follows(Head(todo), Head(todo'))
    BY <1>2
  <2>2. Head(todo).op \in Setup /\ Head(todo').c = Head(todo).c
    BY <2>1 DEF Follows, Setup
  <2>3. Head(todo).c = mFQRtmp /\ Own
    BY <1>4, <1>5, <2>2 DEF PlayerInv, Connecting
  <2>4. QED
    BY <1>5, <2>2, <2>3 DEF Own
<1>6. QED
  BY <1>2, <1>3, <1>4, <1>5

(* A call to the service changes neither who is bound nor the messages; it *)
(* is enough that the service then holds what its next call is for.        *)
LEMMA ServiceCallKeeps ==
    ASSUME PlayerInv, todo # <<>>, todo' = Tail(todo),
           UNCHANGED <<mFQRtmp, made, binding, dead, queue, event, open, lost>>,
           mPlaybackStarted' \in [Client -> BOOLEAN],
           mPlayer' \in Client \cup {NULL}, mClientCb' \in Client \cup {NULL},
           Head(todo).op # "unbind",
           ~Stuck /\ created' => PlayerHeld'
    PROVE  PlayerInv'
<1>1. /\ Ordered(todo, mFQRtmp)'
      /\ \A c \in UnbindingIn(todo) : c \in UnbindingIn(todo')
      /\ Stuck' = Stuck
      /\ ~Stuck' => Connecting'
  BY CallOf
<1>2. TypeOK /\ BoundInv
  BY DEF PlayerInv
<1>3. TypeOK'
  <2>1. todo' \in Seq(Todo)
    BY <1>1 DEF Ordered
  <2>2. QED
    BY <1>2, <2>1 DEF TypeOK
<1>4. BoundInv'
  BY <1>1, <1>2 DEF BoundInv
<1>5. QED
  BY <1>1, <1>3, <1>4 DEF PlayerInv

(* A call fails only of a service that died: what was to close then is     *)
(* closed, and what was to be set up has no VLCPlayer.                     *)
LEMMA FailedKeeps ==
    ASSUME PlayerInv, CallFails
    PROVE  PlayerInv'
<1>1. /\ todo # <<>> /\ todo' = Tail(todo) /\ Head(todo).c \in dead
      /\ Head(todo).op \notin {"started", "unbind", "process"}
      /\ UNCHANGED <<mFQRtmp, made, mPlaybackStarted, binding, dead, queue, mPlayer, mClientCb,
                     created, event, open, lost>>
  BY DEF CallFails, activity, service
<1>2. /\ todo' # <<>> => Follows(Head(todo), Head(todo'))
      /\ todo' = <<>> => Head(todo).op \in Ends
      /\ Head(todo) \in Todo
  BY <1>1, CallOf
<1>3. ASSUME ~Stuck, created' PROVE PlayerHeld'
  <2>1. PlayerHeld /\ Connecting
    BY <1>1, <1>3 DEF PlayerInv
  <2>2. Head(todo).op \in Calls
    BY <1>1, <1>2 DEF Todo
  <2>3. Head(todo).op = "start" /\ Playing
    BY <1>1, <2>1, <2>2 DEF PlayerHeld, Connecting, Setup, Calls, Playing, Setting, Owned
  <2>4. Playing'
    BY <1>1, <2>3 DEF Playing, Owned, Own
  <2>5. todo' # <<>> => Head(todo').op = "started"
    BY <1>2, <2>3 DEF Follows
  <2>6. QED
    BY <2>4, <2>5 DEF PlayerHeld
<1>4. QED
  <2>1. TypeOK
    BY DEF PlayerInv
  <2>2. QED
    BY <1>1, <1>3, <2>1, ServiceCallKeeps DEF TypeOK

(* The calls to the service. *)
LEMMA CreateKeeps ==
    ASSUME PlayerInv, Create
    PROVE  PlayerInv'
<1>1. /\ todo # <<>> /\ todo' = Tail(todo) /\ Head(todo).op = "create" /\ Head(todo).c \notin dead
      /\ mPlayer' \in {mPlayer, NULL}
      /\ UNCHANGED <<mFQRtmp, made, mPlaybackStarted, binding, dead, queue, mClientCb, event,
                     open, lost>>
  BY DEF Create, Calling, activity
<1>2. /\ todo' # <<>> => Follows(Head(todo), Head(todo'))
      /\ todo' = <<>> => Head(todo).op \in Ends
  BY <1>1, CallOf
<1>3. ASSUME ~Stuck PROVE PlayerHeld'
  <2>1. Owned
    BY <1>1, <1>3 DEF PlayerInv, Connecting, Setup, Owned
  <2>2. todo' # <<>> /\ Head(todo').op = "register"
    BY <1>1, <1>2 DEF Follows, Ends
  <2>3. mPlayer' \in {NULL, mFQRtmp}
    <3>1. created => mPlayer = mFQRtmp
      BY <1>1, <1>3 DEF PlayerInv, PlayerHeld, Playing
    <3>2. ~created => mPlayer' = NULL
      BY DEF Create
    <3>3. QED
      BY <1>1, <3>1, <3>2
  <2>4. Setting'
    BY <1>1, <2>1, <2>3 DEF Setting, Owned, Own
  <2>5. QED
    BY <2>2, <2>4 DEF PlayerHeld
<1>4. QED
  <2>1. TypeOK
    BY DEF PlayerInv
  <2>2. QED
    BY <1>1, <1>3, <2>1, ServiceCallKeeps DEF TypeOK

LEMMA RegisterKeeps ==
    ASSUME PlayerInv, RegisterClientCallback
    PROVE  PlayerInv'
<1>1. /\ todo # <<>> /\ todo' = Tail(todo) /\ Head(todo).op = "register"
      /\ Head(todo).c \notin dead /\ mClientCb' = Head(todo).c
      /\ UNCHANGED <<mFQRtmp, made, mPlaybackStarted, binding, dead, queue, mPlayer, created,
                     event, open, lost>>
  BY DEF RegisterClientCallback, Calling, activity
<1>2. /\ todo' # <<>> => Follows(Head(todo), Head(todo'))
      /\ todo' = <<>> => Head(todo).op \in Ends
      /\ Head(todo).c \in Client
  BY <1>1, CallOf
<1>3. ASSUME ~Stuck, created' PROVE PlayerHeld'
  <2>1. Setting /\ mClientCb' = mFQRtmp
    BY <1>1, <1>3 DEF PlayerInv, Connecting, Setup, PlayerHeld
  <2>2. todo' # <<>> /\ Head(todo').op = "setDataSource"
    BY <1>1, <1>2 DEF Follows, Ends
  <2>3. Setting'
    BY <1>1, <2>1 DEF Setting, Owned, Own
  <2>4. QED
    BY <1>1, <2>1, <2>2, <2>3 DEF PlayerHeld
<1>4. QED
  <2>1. TypeOK
    BY DEF PlayerInv
  <2>2. QED
    BY <1>1, <1>2, <1>3, <2>1, ServiceCallKeeps DEF TypeOK

LEMMA DataSourceKeeps ==
    ASSUME PlayerInv, SetDataSource
    PROVE  PlayerInv'
<1>1. /\ todo # <<>> /\ todo' = Tail(todo) /\ Head(todo).op = "setDataSource"
      /\ mPlayer' \in {Head(todo).c, mPlayer}
      /\ UNCHANGED <<mFQRtmp, made, mPlaybackStarted, binding, dead, queue, mClientCb, created,
                     event, open, lost>>
  BY DEF SetDataSource, Calling, activity
<1>2. /\ todo' # <<>> => Follows(Head(todo), Head(todo'))
      /\ todo' = <<>> => Head(todo).op \in Ends
      /\ Head(todo).c \in Client
  BY <1>1, CallOf
<1>3. ASSUME ~Stuck, created' PROVE PlayerHeld'
  <2>1. Setting /\ mClientCb = mFQRtmp /\ Head(todo).c = mFQRtmp
    BY <1>1, <1>3 DEF PlayerInv, Connecting, Setup, PlayerHeld
  <2>2. todo' # <<>> /\ Head(todo').op = "setDisplay"
    BY <1>1, <1>2 DEF Follows, Ends
  <2>3. Setting' /\ mClientCb' = mFQRtmp'
    <3>1. mPlayer' \in {NULL, mFQRtmp}
      BY <1>1, <2>1 DEF Setting
    <3>2. QED
      BY <1>1, <2>1, <3>1 DEF Setting, Owned, Own
  <2>4. QED
    BY <2>2, <2>3 DEF PlayerHeld
<1>4. QED
  <2>1. TypeOK
    BY DEF PlayerInv
  <2>2. mPlayer' \in Client \cup {NULL}
    BY <1>1, <1>2, <2>1 DEF TypeOK
  <2>3. QED
    BY <1>1, <1>3, <2>1, <2>2, ServiceCallKeeps DEF TypeOK

(* A call that throws leaves everything as it is: the activity is gone.    *)
LEMMA ThrowKeeps ==
    ASSUME PlayerInv,
           UNCHANGED <<mFQRtmp, made, mPlaybackStarted, binding, dead, todo, queue, mPlayer,
                       mClientCb, created, event, open, lost>>
    PROVE  PlayerInv'
<1>1. queue \in Seq(Messages) /\ event \in Client \cup {NULL}
  BY DEF PlayerInv, TypeOK
<1>2. \A i \in 1..Len(queue) : queue[i].op # "prepared" => binding[queue[i].c] # "none"
  BY DEF PlayerInv, BoundInv
<1>3. QED
  BY <1>1, <1>2, QueueKeeps

LEMMA DisplayKeeps ==
    ASSUME PlayerInv, NEW valid \in BOOLEAN, SetDisplay(valid)
    PROVE  PlayerInv'
<1>1. /\ todo # <<>> /\ Head(todo).op = "setDisplay"
      /\ UNCHANGED <<mFQRtmp, made, mPlaybackStarted, binding, dead, queue, mPlayer, mClientCb,
                     created, event, open, lost>>
  BY DEF SetDisplay, Calling, activity, service
<1>2. CASE UNCHANGED todo
  BY <1>1, <1>2, ThrowKeeps
<1>3. CASE todo' = Tail(todo)
  <2>1. todo' # <<>> /\ Head(todo').op = "prepare"
    BY <1>1, <1>3, CallOf DEF Follows, Ends
  <2>2. ASSUME ~Stuck, created' PROVE PlayerHeld'
    <3>1. Setting /\ mClientCb = mFQRtmp
      BY <1>1, <2>2 DEF PlayerInv, PlayerHeld
    <3>2. Setting' /\ mClientCb' = mFQRtmp'
      BY <1>1, <3>1 DEF Setting, Owned, Own
    <3>3. QED
      BY <2>1, <3>2 DEF PlayerHeld
  <2>3. TypeOK
    BY DEF PlayerInv
  <2>4. QED
    BY <1>1, <1>3, <2>2, <2>3, ServiceCallKeeps DEF TypeOK
<1>4. QED
  BY <1>2, <1>3 DEF SetDisplay, Throws, Returns

(* prepare goes on only with a url, which is the activity's own.           *)
LEMMA PrepareKeeps ==
    ASSUME PlayerInv, Prepare
    PROVE  PlayerInv'
<1>1. /\ todo # <<>> /\ Head(todo).op = "prepare"
      /\ UNCHANGED <<mFQRtmp, made, mPlaybackStarted, binding, dead, queue, mPlayer, mClientCb,
                     created, event, open, lost>>
  BY DEF Prepare, Calling, activity, service
<1>2. CASE UNCHANGED todo
  BY <1>1, <1>2, ThrowKeeps
<1>3. CASE todo' = Tail(todo) /\ ~(created /\ mPlayer = NULL)
  <2>1. todo' # <<>> /\ Head(todo').op = "start"
    BY <1>1, <1>3, CallOf DEF Follows, Ends
  <2>2. ASSUME ~Stuck, created' PROVE PlayerHeld'
    <3>1. Setting /\ mClientCb = mFQRtmp
      BY <1>1, <2>2 DEF PlayerInv, PlayerHeld
    <3>2. Playing'
      BY <1>1, <1>3, <2>2, <3>1 DEF Playing, Setting, Owned, Own
    <3>3. QED
      BY <2>1, <3>2 DEF PlayerHeld
  <2>3. TypeOK
    BY DEF PlayerInv
  <2>4. QED
    BY <1>1, <1>3, <2>2, <2>3, ServiceCallKeeps DEF TypeOK
<1>4. QED
  BY <1>2, <1>3 DEF Prepare, Throws, Returns

LEMMA PlayKeeps ==
    ASSUME PlayerInv, Play
    PROVE  PlayerInv'
<1>1. /\ todo # <<>> /\ todo' = Tail(todo) /\ Head(todo).op \in {"start", "stop"}
      /\ UNCHANGED <<mFQRtmp, made, mPlaybackStarted, binding, dead, queue, mPlayer, mClientCb,
                     created, event, open, lost>>
  BY DEF Play, Calling, activity, service
<1>2. /\ todo' # <<>> => Follows(Head(todo), Head(todo'))
      /\ todo' = <<>> => Head(todo).op \in Ends
  BY <1>1, CallOf
<1>3. ASSUME ~Stuck, created' PROVE PlayerHeld'
  <2>1. PlayerHeld
    BY <1>1, <1>3 DEF PlayerInv
  <2>2. CASE Head(todo).op = "stop"
    <3>1. Head(todo).c \notin dead
      BY <1>1, <2>1, <2>2 DEF PlayerHeld
    <3>2. todo' # <<>> /\ Head(todo').op = "release" /\ Head(todo').c = Head(todo).c
      BY <1>2, <2>2 DEF Follows, Ends
    <3>3. QED
      BY <1>1, <3>1, <3>2 DEF PlayerHeld
  <2>3. CASE Head(todo).op = "start"
    <3>1. Playing'
      BY <1>1, <2>1, <2>3 DEF PlayerHeld, Playing, Owned, Own
    <3>2. todo' # <<>> => Head(todo').op = "started"
      BY <1>2, <2>3 DEF Follows
    <3>3. QED
      BY <3>1, <3>2 DEF PlayerHeld
  <2>4. QED
    BY <1>1, <2>2, <2>3
<1>4. QED
  <2>1. TypeOK
    BY DEF PlayerInv
  <2>2. QED
    BY <1>1, <1>3, <2>1, ServiceCallKeeps DEF TypeOK

LEMMA ReleaseKeeps ==
    ASSUME PlayerInv, Release
    PROVE  PlayerInv'
<1>1. /\ todo # <<>> /\ todo' = Tail(todo) /\ Head(todo).op = "release" /\ created' = FALSE
      /\ mPlayer' \in {mPlayer, NULL} /\ mClientCb' \in {mClientCb, NULL}
      /\ UNCHANGED <<mFQRtmp, made, mPlaybackStarted, binding, dead, queue, event, open, lost>>
  BY DEF Release, Calling, activity
<1>2. TypeOK
  BY DEF PlayerInv
<1>3. QED
  BY <1>1, <1>2, ServiceCallKeeps DEF TypeOK

LEMMA StartedKeeps ==
    ASSUME PlayerInv, Started
    PROVE  PlayerInv'
<1>1. /\ todo # <<>> /\ todo' = Tail(todo) /\ Head(todo).op = "started"
      /\ mPlaybackStarted' = [mPlaybackStarted EXCEPT ![Head(todo).c] = TRUE]
      /\ UNCHANGED <<mFQRtmp, made, binding, dead, queue, mPlayer, mClientCb, created, event,
                     open, lost>>
  BY DEF Started, activity, service
<1>2. todo' # <<>> => Follows(Head(todo), Head(todo'))
  BY <1>1, CallOf
<1>3. ASSUME ~Stuck, created' PROVE PlayerHeld'
  <2>1. Playing
    BY <1>1, <1>3 DEF PlayerInv, PlayerHeld
  <2>2. todo' = <<>>
    BY <1>1, <1>2 DEF Follows
  <2>3. Playing'
    BY <1>1, <2>1 DEF Playing, Owned, Own
  <2>4. QED
    BY <2>2, <2>3 DEF PlayerHeld
<1>4. TypeOK
  BY DEF PlayerInv
<1>5. QED
  BY <1>1, <1>3, <1>4, ServiceCallKeeps DEF TypeOK

(* The end of close: the messages of its ServiceConnection go with it.     *)
LEMMA UnbindKeeps ==
    ASSUME PlayerInv, Unbind
    PROVE  PlayerInv'
<1> DEFINE d == Head(todo).c
           K == {m \in Messages : m.c # d \/ m.op = "prepared"}
           kept == Kept(queue, K)
<1>1. /\ todo # <<>> /\ todo' = Tail(todo) /\ Head(todo).op = "unbind"
      /\ binding' = [binding EXCEPT ![d] = "none"]
      /\ queue' = kept
      /\ mPlaybackStarted' = [mPlaybackStarted EXCEPT ![d] = FALSE]
      /\ UNCHANGED <<mFQRtmp, made, dead, mPlayer, mClientCb, created, event, open, lost>>
  BY Zenon DEF Unbind, activity, service
<1>2. TypeOK /\ BoundInv /\ (~Stuck /\ created => PlayerHeld)
  BY DEF PlayerInv
<1>3. /\ Ordered(todo, mFQRtmp)' /\ d \in Client
      /\ \A c \in UnbindingIn(todo) : c \in UnbindingIn(todo') \/ c = d
      /\ Stuck' = Stuck
      /\ ~Stuck' => Connecting'
  BY <1>1, CallOf DEF Setup
<1>4. /\ queue \in Seq(Messages) /\ kept \in Seq(Messages)
      /\ \A i \in DOMAIN kept : kept[i] \in K /\ \E j \in DOMAIN queue : kept[i] = queue[j]
  <2>1. queue \in Seq(Messages)
    BY <1>2 DEF TypeOK
  <2> HIDE DEF K
  <2>2. QED
    BY <2>1, KeptIs
<1> HIDE DEF kept
<1>5. TypeOK'
  <2>1. todo' \in Seq(Todo)
    BY <1>3 DEF Ordered
  <2>2. QED
    BY <1>1, <1>2, <1>4, <2>1 DEF TypeOK
<1>6. BoundInv'
  <2>1. \A c \in Client \ {d} : binding'[c] = binding[c]
    BY <1>1, <1>2 DEF TypeOK
  <2>2. binding'[d] = "none"
    BY <1>1, <1>2, <1>3 DEF TypeOK
  <2>3. ASSUME NEW i \in 1..Len(queue'), queue'[i].op # "prepared"
        PROVE  binding'[queue'[i].c] # "none"
    <3>1. queue'[i] \in K /\ \E j \in 1..Len(queue) : queue'[i] = queue[j]
      BY <1>1, <1>4, <2>3
    <3>2. queue'[i].c \in Client \ {d}
      BY <2>3, <3>1 DEF Messages
    <3>3. binding[queue'[i].c] # "none"
      BY <1>2, <2>3, <3>1 DEF BoundInv
    <3>4. QED
      BY <2>1, <3>2, <3>3
  <2>4. ASSUME NEW c \in Client, binding'[c] # "none"
        PROVE  c \in open' \cup lost' \cup UnbindingIn(todo')
    <3>1. c # d /\ binding[c] # "none"
      BY <2>1, <2>2, <2>4
    <3>2. c \in open \cup lost \cup UnbindingIn(todo)
      BY <1>2, <3>1 DEF BoundInv
    <3>3. QED
      BY <1>1, <1>3, <3>1, <3>2
  <2>5. QED
    BY <2>3, <2>4 DEF BoundInv
<1>7. ~(~Stuck' /\ created')
  BY <1>1, <1>2, <1>3 DEF PlayerHeld
<1>8. QED
  BY <1>3, <1>5, <1>6, <1>7 DEF PlayerInv

(* process binds the activity's own. *)
LEMMA ProcessKeeps ==
    ASSUME PlayerInv, Process
    PROVE  PlayerInv'
<1> DEFINE d == Head(todo).c
<1>1. /\ todo # <<>> /\ todo' = Tail(todo) /\ Head(todo).op = "process"
      /\ binding' = [binding EXCEPT ![d] = "bound"] /\ open' = open \cup {d}
      /\ UNCHANGED <<mFQRtmp, made, mPlaybackStarted, dead, queue, mPlayer, mClientCb, created,
                     event, lost>>
  BY DEF Process, activity, service
<1>2. TypeOK /\ BoundInv /\ (~Stuck /\ created => PlayerHeld)
  BY DEF PlayerInv
<1>3. /\ Ordered(todo, mFQRtmp)' /\ d \in Client /\ d = mFQRtmp
      /\ \A c \in UnbindingIn(todo) : c \in UnbindingIn(todo')
      /\ Stuck' = Stuck
      /\ ~Stuck' => Connecting'
  BY <1>1, CallOf DEF Setup
<1>4. TypeOK'
  <2>1. todo' \in Seq(Todo)
    BY <1>3 DEF Ordered
  <2>2. open' \subseteq {mFQRtmp'} \ {NULL}
    BY <1>1, <1>2, <1>3, NullIsNone DEF TypeOK
  <2>3. QED
    BY <1>1, <1>2, <2>1, <2>2 DEF TypeOK
<1>5. BoundInv'
  <2>1. \A c \in Client : binding'[c] = IF c = d THEN "bound" ELSE binding[c]
    BY <1>1, <1>2 DEF TypeOK
  <2>2. \A j \in 1..Len(queue) : queue[j].c \in Client
    <3>1. \A j \in 1..Len(queue) : queue[j] \in Messages
      BY <1>2, ElementOfSeq DEF TypeOK
    <3>2. QED
      BY <3>1 DEF Messages
  <2>3. QED
    BY <1>1, <1>2, <1>3, <2>1, <2>2 DEF BoundInv
<1>6. ~(~Stuck' /\ created')
  BY <1>1, <1>2, <1>3 DEF PlayerHeld
<1>7. QED
  BY <1>3, <1>4, <1>5, <1>6 DEF PlayerInv
-----------------------------------------------------------------------------
(* The invariant holds at the start, and every step keeps it. *)
LEMMA PlayerStarts == Init => PlayerInv
<1> SUFFICES ASSUME Init PROVE PlayerInv
  OBVIOUS
<1>1. /\ mFQRtmp = NULL /\ made = 0 /\ todo = <<>> /\ queue = <<>> /\ created = FALSE
      /\ open = {} /\ lost = {} /\ binding = [c \in Client |-> "none"]
  BY DEF Init
<1>2. TypeOK
  BY NullIsNone DEF Init, TypeOK, NULL
<1>3. BoundInv
  BY <1>1 DEF BoundInv
<1>4. QED
  BY <1>1, <1>2, <1>3, Nothing DEF PlayerInv, Connecting

LEMMA PlayerSteps == PlayerInv /\ [Next]_vars => PlayerInv'
<1> SUFFICES ASSUME PlayerInv, [Next]_vars PROVE PlayerInv'
  OBVIOUS
<1>1. CASE Call
  BY <1>1, FailedKeeps, CreateKeeps, RegisterKeeps, DataSourceKeeps, DisplayKeeps,
     PrepareKeeps, PlayKeeps, ReleaseKeeps, StartedKeeps, UnbindKeeps, ProcessKeeps DEF Call
<1>2. CASE Message
  BY <1>2, ConnectedKeeps, DisconnectedKeeps, PreparedKeeps DEF Message
<1>3. CASE OnPause \/ ResetFQRtmp \/ \E url \in Urls : HandlePlay(url)
  BY <1>3, ActivityKeeps
<1>4. CASE OnResume \/ VlcEvent
  BY <1>4, EventKeeps
<1>5. CASE ServiceDies
  BY <1>5, DieKeeps DEF ServiceDies
<1>6. CASE \E c \in Client : Connect(c)
  BY <1>6, ConnectKeeps
<1>7. CASE \E full \in BOOLEAN : CallBack(full)
  BY <1>7, CallBackKeeps
<1>8. CASE UNCHANGED vars
  <2>1. /\ UNCHANGED <<mFQRtmp, made, mPlaybackStarted, binding, dead, todo, mPlayer, mClientCb,
                       created, open, lost>>
        /\ queue' = queue /\ event' = event
    BY <1>8 DEF vars
  <2>2. queue \in Seq(Messages) /\ event \in Client \cup {NULL}
    BY DEF PlayerInv, TypeOK
  <2>3. \A i \in 1..Len(queue) : queue[i].op # "prepared" => binding[queue[i].c] # "none"
    BY DEF PlayerInv, BoundInv
  <2>4. QED
    BY <2>1, <2>2, <2>3, QueueKeeps
<1>9. QED
  BY <1>1, <1>2, <1>3, <1>4, <1>5, <1>6, <1>7, <1>8 DEF Next

(* The invariant holds whatever the activity, Android, libvlc and the      *)
(* deaths of the service do between two calls of the thread.               *)
THEOREM PlayerInvariance == Spec => []PlayerInv
<1>1. PlayerInv /\ [Next]_vars => PlayerInv'
  BY PlayerSteps
<1>2. QED
  BY <1>1, PlayerStarts, PTL DEF Spec

(* Whatever url the service's VLCPlayer has when the activity's thread is  *)
(* done with a message, it is that of the FQRtmpPlayer the activity has    *)
(* and has not closed, and its events go to that one, unless a close came  *)
(* before onServiceConnected.                                              *)
THEOREM PlaysForTheOpen == Spec => []PlaysForTheOpenOne
<1>1. PlayerInv => PlaysForTheOpenOne
  <2> SUFFICES ASSUME PlayerInv, todo = <<>>, created, lost = {}
               PROVE  mPlayer \in open /\ mClientCb = mPlayer /\ mFQRtmp = mPlayer
    BY DEF PlaysForTheOpenOne
  <2>1. ~Stuck
    BY DEF Stuck
  <2>2. Playing
    BY <2>1 DEF PlayerInv, PlayerHeld
  <2>3. mFQRtmp \in Client
    BY <2>2, NullIsNone DEF PlayerInv, TypeOK, Playing, Owned, Own, Client, NULL
  <2>4. mFQRtmp \in open
    BY <2>2, <2>3, Nothing DEF PlayerInv, BoundInv, Playing, Owned, Own
  <2>5. QED
    BY <2>2, <2>4 DEF Playing
<1>2. QED
  BY <1>1, PlayerInvariance, PTL

(* FQRtmpPlayer.close: a closed one is bound no more, even if the service  *)
(* died on it, unless that close was lost.                                 *)
THEOREM ClosedUnbound == Spec => []ClosedIsUnbound
<1>1. PlayerInv => ClosedIsUnbound
  BY Nothing DEF PlayerInv, BoundInv, ClosedIsUnbound
<1>2. QED
  BY <1>1, PlayerInvariance, PTL
=============================================================================
