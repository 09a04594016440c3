--------------------------- MODULE TimingWheelProofs ---------------------------
(***************************************************************************)
(* Proofs about TimingWheel.tla, for a wheel of any size, any processes    *)
(* and any last time: the wheel, its bitmap, its overflow map and its memo *)
(* implement one FIFO queue per time (EventQueue.tla), and what they keep  *)
(* beside the lists agrees with them.                                      *)
(***************************************************************************)
EXTENDS TimingWheel, SequenceTheorems, FunctionTheorems, FiniteSetTheorems,
        WellFoundedInduction, TLAPS

-----------------------------------------------------------------------------
(* Division.                                                               *)

LEMMA DivMod ==
  \A n \in Nat, w \in Nat \ {0} :
     n \div w \in Nat /\ n = w * (n \div w) + (n % w) /\ n % w \in 0 .. w - 1
  OBVIOUS

LEMMA ModIs == \A w \in Nat \ {0} : \A k \in Nat, x \in 0 .. w - 1 : (w * k + x) % w = x
  OBVIOUS

LEMMA Product ==
  \A w \in Nat, p, q \in Int : w * p - w * q = w * (p - q) /\ w * (q + 1) = w * q + w
  OBVIOUS

\* Numbers less than w apart with the same rest are the same.
LEMMA SameRest ==
  ASSUME NEW w \in Nat \ {0}, NEW t \in Nat, NEW u \in Nat, t <= u, u < t + w,
         t % w = u % w
  PROVE  t = u
<1> DEFINE q == t \div w
           p == u \div w
<1>1. /\ q \in Nat /\ p \in Nat /\ t = w * q + (t % w) /\ u = w * p + (t % w)
      /\ t % w \in 0 .. w - 1
  BY DivMod
<1>2. w * p - w * q = w * (p - q)
  BY <1>1, Product
<1> HIDE DEF p, q
<1>3. w * (p - q) < w /\ w * (p - q) >= 0
  BY <1>1, <1>2
<1>4. p <= q
  <2> SUFFICES ASSUME p - q >= 1 PROVE FALSE
    BY <1>1
  <2>1. w * (p - q) >= w
    BY <1>1
  <2> QED
    BY <1>1, <1>3, <2>1
<1>5. w * (p - q) <= 0
  BY <1>1, <1>4
<1> QED
  BY <1>1, <1>2, <1>3, <1>5

LEMMA RestOfSum ==
  ASSUME NEW w \in Nat \ {0}, NEW c \in Nat, NEW d \in 0 .. w - 1
  PROVE  (c + d) % w = IF (c % w) + d < w THEN (c % w) + d ELSE (c % w) + d - w
<1> DEFINE q == c \div w
           r == c % w
<1>1. q \in Nat /\ r \in 0 .. w - 1 /\ c = w * q + r
  BY DivMod
<1> HIDE DEF q, r
<1>2. CASE r + d < w
  <2>1. r + d \in 0 .. w - 1 /\ c + d = w * q + (r + d)
    BY <1>1, <1>2
  <2> QED
    BY <1>1, <1>2, <2>1, ModIs DEF r
<1>3. CASE ~ r + d < w
  <2>1. r + d - w \in 0 .. w - 1 /\ c + d = w * (q + 1) + (r + d - w) /\ q + 1 \in Nat
    BY <1>1, <1>3, Product
  <2>2. (c + d) % w = r + d - w
    BY <2>1, ModIs
  <2> QED
    BY <1>3, <2>2 DEF r
<1> QED
  BY <1>2, <1>3 DEF r

\* How far slot s is ahead of the one of time c.
Ahead(c, s) == IF s >= Slot(c) THEN s - Slot(c) ELSE s + WheelSize - Slot(c)

\* A slot stands for one time of the window.
LEMMA SlotsAndTimes ==
  ASSUME NEW c \in Nat
  PROVE  /\ Slot(c) \in Slots
         /\ \A t, u \in Nat :
               (t >= c /\ t < c + WheelSize /\ u >= c /\ u < c + WheelSize)
                  /\ Slot(t) = Slot(u) => t = u
         /\ \A s \in Slots :
               /\ Ahead(c, s) \in 0 .. WheelSize - 1 /\ Slot(c + Ahead(c, s)) = s
               /\ (s + WheelSize - Slot(c)) % WheelSize = Ahead(c, s)
<1>1. WheelSize \in Nat \ {0}
  BY WheelAssumption
<1>2. Slot(c) \in Slots
  BY <1>1, DivMod DEF Slot, Slots
<1>3. ASSUME NEW t \in Nat, NEW u \in Nat, t >= c, t < c + WheelSize,
             u >= c, u < c + WheelSize, Slot(t) = Slot(u)
      PROVE  t = u
  <2>1. t % WheelSize = u % WheelSize /\ u < t + WheelSize /\ t < u + WheelSize
    BY <1>1, <1>3 DEF Slot
  <2>2. CASE t <= u
    BY <1>1, <2>1, <2>2, SameRest
  <2>3. CASE u <= t
    BY <1>1, <2>1, <2>3, SameRest
  <2> QED
    BY <2>2, <2>3
<1>4. ASSUME NEW s \in Slots
      PROVE  /\ Ahead(c, s) \in 0 .. WheelSize - 1 /\ Slot(c + Ahead(c, s)) = s
             /\ (s + WheelSize - Slot(c)) % WheelSize = Ahead(c, s)
  <2> DEFINE d == Ahead(c, s)
  <2>1. d \in 0 .. WheelSize - 1
    BY <1>1, <1>2 DEF Slots, Ahead
  <2>2. Slot(c + d) = s
    <3>1. Slot(c + d) = IF Slot(c) + d < WheelSize THEN Slot(c) + d
                        ELSE Slot(c) + d - WheelSize
      BY <1>1, <2>1, RestOfSum DEF Slot
    <3> QED
      BY <1>1, <1>2, <3>1 DEF Slots, Ahead
  <2>3. (s + WheelSize - Slot(c)) % WheelSize = d
    <3>1. CASE s >= Slot(c)
      <4>1. s + WheelSize - Slot(c) = WheelSize * 1 + d
        BY <1>1, <1>2, <3>1 DEF Slots, Ahead
      <4> QED
        BY <1>1, <2>1, <3>1, <4>1, ModIs
    <3>2. CASE ~ s >= Slot(c)
      <4>1. s + WheelSize - Slot(c) = WheelSize * 0 + d
        BY <1>1, <1>2, <3>2 DEF Slots, Ahead
      <4> QED
        BY <1>1, <2>1, <3>2, <4>1, ModIs
    <3> QED
      BY <3>1, <3>2
  <2> QED
    BY <2>1, <2>2, <2>3
<1> QED
  BY <1>2, <1>3, <1>4

-----------------------------------------------------------------------------
(* Minimum and ranks.                                                      *)

LEMMA MinIs ==
  ASSUME NEW S \in SUBSET Int, NEW m \in S, \A x \in S : m <= x
  PROVE  Min(S) = m
<1>1. \A x \in S : (\A y \in S : x <= y) => x = m
  OBVIOUS
<1> QED
  BY <1>1 DEF Min

LEMMA MinExists ==
  ASSUME NEW S \in SUBSET Nat, S # {}
  PROVE  Min(S) \in S /\ \A x \in S : Min(S) <= x
<1>1. \E m \in S : \A x \in S : ~ (<<x, m>> \in OpToRel(<, Nat))
  BY NatLessThanWellFounded, WFMin
<1>2. PICK m \in S : \A x \in S : ~ (<<x, m>> \in OpToRel(<, Nat))
  BY <1>1
<1>3. ASSUME NEW x \in S PROVE m <= x
  <2>1. x \in Nat /\ m \in Nat
    OBVIOUS
  <2>2. ~ (x < m)
    BY <1>2, <2>1 DEF OpToRel
  <2> QED
    BY <2>1, <2>2
<1> QED
  BY <1>3, MinIs

\* R orders the finite set S strictly and totally.
Ordered(S, R) ==
    /\ IsFiniteSet(S)
    /\ \A x \in S : <<x, x>> \notin R
    /\ \A x, y, z \in S : <<x, y>> \in R /\ <<y, z>> \in R => <<x, z>> \in R
    /\ \A x, y \in S : x # y => <<x, y>> \in R \/ <<y, x>> \in R

\* How many elements of S are before x.
RankIn(S, R, x) == Cardinality({y \in S : <<y, x>> \in R})

\* Elements in a total order have one rank each.
LEMMA Ranked ==
  ASSUME NEW S, NEW R, Ordered(S, R)
  PROVE  /\ \A x \in S : RankIn(S, R, x) \in 0 .. Cardinality(S) - 1
         /\ \A x, y \in S : RankIn(S, R, x) = RankIn(S, R, y) => x = y
         /\ \A n \in 0 .. Cardinality(S) - 1 : \E x \in S : RankIn(S, R, x) = n
<1> USE DEF Ordered
<1> DEFINE Below(x) == {y \in S : <<y, x>> \in R}
           Rank(x) == Cardinality(Below(x))
           n == Cardinality(S)
<1>1. n \in Nat
  BY FS_CardinalityType
<1>2. ASSUME NEW x \in S PROVE Rank(x) \in 0 .. n - 1
  <2>1. Below(x) \in SUBSET (S \ {x})
    OBVIOUS
  <2>2. IsFiniteSet(S \ {x}) /\ Cardinality(S \ {x}) = n - 1
    BY FS_RemoveElement
  <2>3. IsFiniteSet(Below(x)) /\ Rank(x) <= n - 1
    <3> DEFINE B == Below(x)
               C == S \ {x}
    <3>1. IsFiniteSet(C) /\ B \in SUBSET C /\ Cardinality(C) = n - 1
      BY <2>1, <2>2
    <3> HIDE DEF B, C, n
    <3>2. IsFiniteSet(B) /\ Cardinality(B) <= Cardinality(C)
      BY <3>1, FS_Subset
    <3> QED
      BY <3>1, <3>2 DEF B
  <2>4. Rank(x) \in Nat
    BY <2>3, FS_CardinalityType
  <2> QED
    BY <1>1, <2>3, <2>4
<1>3. ASSUME NEW x \in S, NEW y \in S, <<x, y>> \in R PROVE Rank(x) # Rank(y)
  <2>1. Below(x) \in SUBSET Below(y)
    BY <1>3
  <2>2. x \in Below(y) /\ x \notin Below(x)
    BY <1>3
  <2>3. Below(y) \in SUBSET S
    OBVIOUS
  <2>4. IsFiniteSet(Below(y))
    BY <2>3, FS_Subset
  <2>5. Cardinality(Below(y)) = Cardinality(Below(x)) => Below(y) = Below(x)
    BY <2>1, <2>4, FS_Subset
  <2> QED
    BY <2>2, <2>5
<1>4. \A x, y \in S : Rank(x) = Rank(y) => x = y
  <2> HIDE DEF Rank
  <2> QED
    BY <1>3
<1>5. \A k \in 0 .. n - 1 : \E x \in S : Rank(x) = k
  <2> DEFINE T == 0 .. n - 1
             f == [x \in S |-> Rank(x)]
  <2>1. f \in Injection(S, T)
    <3> HIDE DEF Rank
    <3> QED
      BY <1>2, <1>4, Fun_IsInj
  <2>2. IsFiniteSet(T) /\ Cardinality(T) = n
    <3> HIDE DEF n
    <3>1. n - 1 \in Int /\ 0 \in Int
      BY <1>1
    <3>2. IsFiniteSet(T) /\ Cardinality(T) = IF 0 > n - 1 THEN 0 ELSE (n - 1) - 0 + 1
      BY <3>1, FS_Interval
    <3> QED
      BY <1>1, <3>2
  <2>3. f \in Surjection(S, T)
    <3> HIDE DEF f, T
    <3> QED
      BY <2>1, <2>2, FS_Injection
  <2>4. \A k \in T : \E x \in S : f[x] = k
    <3> HIDE DEF f, T
    <3> QED
      BY <2>3, Fun_SurjectionProperties
  <2> QED
    BY <2>4
<1> QED
  BY <1>2, <1>4, <1>5 DEF RankIn

-----------------------------------------------------------------------------
(* The lists of the structure and the queue they stand for.                *)

\* The list of time t, when the wheel is at c.
ListAt(w, o, c, t) == IF t >= c /\ t < c + WheelSize THEN w[Slot(t)] ELSE o[t]
QueueOf(w, o, c) == [t \in Times |-> ListAt(w, o, c, t)]

\* Every list that is not empty is the one of a time; the bitmap is exact.
Shape(w, b, o, c) ==
    /\ w \in [Slots -> Seq(Events)] /\ o \in [Times -> Seq(Events)]
    /\ b = {s \in Slots : w[s] # <<>>}
    /\ \A s \in Slots : w[s] # <<>> =>
          \E t \in Times : t >= c /\ t < c + WheelSize /\ Slot(t) = s
    /\ \A t \in Times : o[t] # <<>> => t >= c + WheelSize

LEMMA TimesAre ==
  /\ Times \in SUBSET Nat /\ \A t \in Times : t <= MaxTime
  /\ WheelSize \in Nat \ {0} /\ MaxTime \in Nat /\ 0 \in Times
  BY WheelAssumption DEF Times

LEMMA SlotIn == \A t \in Times : Slot(t) \in Slots
<1>1. \A t \in Nat : Slot(t) \in Slots
  BY SlotsAndTimes
<1> QED
  BY <1>1, TimesAre

LEMMA QueueTyped ==
  ASSUME NEW w, NEW b, NEW o, NEW c, Shape(w, b, o, c)
  PROVE  QueueOf(w, o, c) \in [Times -> Seq(Events)]
<1>1. \A t \in Times : ListAt(w, o, c, t) \in Seq(Events)
  BY SlotIn DEF Shape, ListAt
<1> QED
  BY <1>1 DEF QueueOf

\* A list of the queue is a list of the structure and, unless it is empty, the
\* other way around.
LEMMA ListsAre ==
  ASSUME NEW w, NEW b, NEW o, NEW c \in Times, Shape(w, b, o, c), NEW l, l # <<>>
  PROVE  /\ (\E t \in Times : QueueOf(w, o, c)[t] = l)
               <=> (\E s \in Slots : w[s] = l) \/ (\E t \in Times : o[t] = l)
<1>1. ASSUME NEW t \in Times, QueueOf(w, o, c)[t] = l
      PROVE  (\E s \in Slots : w[s] = l) \/ (\E u \in Times : o[u] = l)
  BY <1>1, SlotIn DEF QueueOf, ListAt
<1>2. ASSUME NEW s \in Slots, w[s] = l
      PROVE  \E t \in Times : QueueOf(w, o, c)[t] = l
  BY <1>2 DEF QueueOf, ListAt, Shape
<1>3. ASSUME NEW t \in Times, o[t] = l
      PROVE  \E u \in Times : QueueOf(w, o, c)[u] = l
  <2>1. t >= c + WheelSize
    BY <1>3 DEF Shape
  <2>2. ~ t < c + WheelSize
    BY <2>1, TimesAre
  <2> QED
    BY <1>3, <2>2 DEF QueueOf, ListAt
<1> QED
  BY <1>1, <1>2, <1>3

\* The list of one time is replaced.
Replaced(w, b, o, c, t, x, w2, b2, o2) ==
    \/ /\ t < c + WheelSize
       /\ w2 = [w EXCEPT ![Slot(t)] = x]
       /\ b2 = (IF x = <<>> THEN b \ {Slot(t)} ELSE b \cup {Slot(t)})
       /\ o2 = o
    \/ /\ ~ t < c + WheelSize
       /\ w2 = w /\ b2 = b
       /\ o2 = [o EXCEPT ![t] = x]

LEMMA ReplaceOne ==
  ASSUME NEW w, NEW b, NEW o, NEW c \in Times, Shape(w, b, o, c),
         NEW t \in Times, t >= c, NEW x \in Seq(Events), NEW w2, NEW b2, NEW o2,
         Replaced(w, b, o, c, t, x, w2, b2, o2)
  PROVE  /\ Shape(w2, b2, o2, c)
         /\ QueueOf(w2, o2, c) = [QueueOf(w, o, c) EXCEPT ![t] = x]
<1>0. /\ w \in [Slots -> Seq(Events)] /\ o \in [Times -> Seq(Events)]
      /\ b = {s \in Slots : w[s] # <<>>}
      /\ \A s \in Slots : w[s] # <<>> =>
            \E u \in Times : u >= c /\ u < c + WheelSize /\ Slot(u) = s
      /\ \A u \in Times : o[u] # <<>> => u >= c + WheelSize
  BY DEF Shape
<1>1. CASE t < c + WheelSize
  <2>1. /\ w2 = [w EXCEPT ![Slot(t)] = x] /\ o2 = o
        /\ b2 = (IF x = <<>> THEN b \ {Slot(t)} ELSE b \cup {Slot(t)})
    BY <1>1 DEF Replaced
  <2>2. /\ w2 \in [Slots -> Seq(Events)] /\ Slot(t) \in Slots /\ w2[Slot(t)] = x
        /\ \A s \in Slots : s # Slot(t) => w2[s] = w[s]
    BY <1>0, <2>1, SlotIn
  <2>3. b2 = {s \in Slots : w2[s] # <<>>}
    BY <1>0, <2>1, <2>2
  <2>4. Shape(w2, b2, o2, c)
    BY <1>0, <1>1, <2>1, <2>2, <2>3 DEF Shape
  <2>5. ASSUME NEW u \in Times
        PROVE  ListAt(w2, o2, c, u) = IF u = t THEN x ELSE ListAt(w, o, c, u)
    <3>1. CASE u = t
      BY <1>1, <2>2, <3>1 DEF ListAt
    <3>2. CASE u # t
      <4>1. CASE u >= c /\ u < c + WheelSize
        <5>1. Slot(u) # Slot(t)
          BY <1>1, <3>2, <4>1, SlotsAndTimes, TimesAre
        <5> QED
          BY <2>2, <3>2, <4>1, <5>1, SlotIn DEF ListAt
      <4>2. CASE ~ (u >= c /\ u < c + WheelSize)
        BY <2>1, <3>2, <4>2 DEF ListAt
      <4> QED
        BY <4>1, <4>2
    <3> QED
      BY <3>1, <3>2
  <2> QED
    BY <2>4, <2>5 DEF QueueOf
<1>2. CASE ~ t < c + WheelSize
  <2>1. w2 = w /\ b2 = b /\ o2 = [o EXCEPT ![t] = x]
    BY <1>2 DEF Replaced
  <2>2. /\ o2 \in [Times -> Seq(Events)] /\ o2[t] = x
        /\ \A u \in Times : u # t => o2[u] = o[u]
    BY <1>0, <2>1
  <2>3. t >= c + WheelSize
    BY <1>2, TimesAre
  <2>4. Shape(w2, b2, o2, c)
    BY <1>0, <2>1, <2>2, <2>3 DEF Shape
  <2>5. \A u \in Times : ListAt(w2, o2, c, u) = IF u = t THEN x ELSE ListAt(w, o, c, u)
    BY <1>2, <2>1, <2>2 DEF ListAt
  <2> QED
    BY <2>4, <2>5 DEF QueueOf
<1> QED
  BY <1>1, <1>2
\* move_overflow_into_wheel(time): the lists move, and the queue stays as it was.
LEMMA WindowMoves ==
  ASSUME currentTime \in Times, time \in Times, currentTime <= time,
         Shape(wheel, bitmap, overflow, currentTime),
         \A t \in Times : t < time => QueueOf(wheel, overflow, currentTime)[t] = <<>>
  PROVE  /\ Shape(MovedWheel(time), MovedBitmap(time), MovedOverflow(time), time)
         /\ QueueOf(MovedWheel(time), MovedOverflow(time), time)
               = QueueOf(wheel, overflow, currentTime)
<1> DEFINE M == Movable(time)
           mw == MovedWheel(time)
           mb == MovedBitmap(time)
           mo == MovedOverflow(time)
<1>1. /\ wheel \in [Slots -> Seq(Events)] /\ overflow \in [Times -> Seq(Events)]
      /\ bitmap = {s \in Slots : wheel[s] # <<>>}
      /\ \A s \in Slots : wheel[s] # <<>> =>
            \E t \in Times : t >= currentTime /\ t < currentTime + WheelSize /\ Slot(t) = s
      /\ \A t \in Times : overflow[t] # <<>> => t >= currentTime + WheelSize
      /\ currentTime \in Nat /\ time \in Nat /\ WheelSize \in Nat \ {0}
  BY TimesAre DEF Shape
<1>2. \A t \in Times : t < time => ListAt(wheel, overflow, currentTime, t) = <<>>
  BY DEF QueueOf
<1>3. ASSUME NEW u \in M
      PROVE  /\ u \in Times /\ overflow[u] # <<>> /\ u >= time /\ u < time + WheelSize
             /\ u >= currentTime + WheelSize
  <2>1. u \in Times /\ overflow[u] # <<>> /\ u < time + WheelSize
    BY DEF Movable, OverflowTimes
  <2>2. u >= currentTime + WheelSize /\ u \in Nat
    BY <1>1, <2>1, TimesAre
  <2>3. ListAt(wheel, overflow, currentTime, u) = overflow[u]
    BY <1>1, <2>2 DEF ListAt
  <2>4. ~ u < time
    BY <1>2, <2>1, <2>3
  <2> QED
    BY <1>1, <2>1, <2>2, <2>4
\* The time of a slot in use is in the new window too.
<1>4. ASSUME NEW s \in Slots, wheel[s] # <<>>
      PROVE  \E t \in Times : /\ t >= time /\ t < time + WheelSize /\ Slot(t) = s
                              /\ t >= currentTime /\ t < currentTime + WheelSize
  <2>1. PICK t \in Times : t >= currentTime /\ t < currentTime + WheelSize /\ Slot(t) = s
    BY <1>1, <1>4
  <2>2. ListAt(wheel, overflow, currentTime, t) # <<>>
    BY <1>4, <2>1 DEF ListAt
  <2>3. ~ t < time /\ t \in Nat
    BY <1>2, <2>2, TimesAre
  <2> QED
    BY <1>1, <2>1, <2>3
<1>5. \A u, t \in Times :
         (u >= time /\ u < time + WheelSize /\ t >= time /\ t < time + WheelSize)
            /\ Slot(u) = Slot(t) => u = t
  BY <1>1, SlotsAndTimes, TimesAre
<1>6. ASSUME NEW u \in M PROVE Slot(u) \in Slots /\ wheel[Slot(u)] = <<>>
  <2>1. Slot(u) \in Slots
    BY <1>3, SlotIn
  <2>2. ASSUME wheel[Slot(u)] # <<>> PROVE FALSE
    <3>1. PICK t \in Times : /\ t >= time /\ t < time + WheelSize /\ Slot(t) = Slot(u)
                             /\ t >= currentTime /\ t < currentTime + WheelSize
      BY <1>4, <2>1, <2>2
    <3>2. t = u
      BY <1>3, <1>5, <3>1
    <3> QED
      BY <1>1, <1>3, <3>1, <3>2, TimesAre
  <2> QED
    BY <2>1, <2>2
<1>7. ASSUME NEW u \in M PROVE mw[Slot(u)] = overflow[u]
  <2>1. {v \in M : Slot(v) = Slot(u)} = {u}
    BY <1>3, <1>5
  <2>2. Min({u}) = u
    <3>1. u \in Nat
      BY <1>3, TimesAre
    <3>2. {u} \in SUBSET Int /\ u \in {u} /\ \A x \in {u} : u <= x
      BY <3>1
    <3> QED
      BY <3>2, MinIs
  <2>3. mw[Slot(u)] = wheel[Slot(u)] \o overflow[u]
    BY <1>6, <2>1, <2>2 DEF MovedWheel
  <2>4. overflow[u] \in Seq(Events) /\ wheel[Slot(u)] = <<>>
    BY <1>1, <1>3, <1>6
  <2>5. \A x \in Seq(Events) : <<>> \o x = x
    OBVIOUS
  <2> QED
    BY <2>3, <2>4, <2>5
<1>8. ASSUME NEW s \in Slots, \A u \in M : Slot(u) # s PROVE mw[s] = wheel[s]
  BY <1>8 DEF MovedWheel
<1>9. mo = [u \in Times |-> IF u \in M THEN <<>> ELSE overflow[u]] /\ mb = bitmap \cup {Slot(u) : u \in M}
  BY DEF MovedOverflow, MovedBitmap
<1>10. mw = [s \in Slots |-> mw[s]]
  BY DEF MovedWheel
<1> HIDE DEF mw, mb, mo, M
<1>11. mw \in [Slots -> Seq(Events)]
  <2>1. ASSUME NEW s \in Slots PROVE mw[s] \in Seq(Events)
    <3>1. CASE \A u \in M : Slot(u) # s
      BY <1>1, <1>8, <3>1
    <3>2. CASE \E u \in M : Slot(u) = s
      <4>1. PICK u \in M : Slot(u) = s
        BY <3>2
      <4>2. mw[s] = overflow[u]
        BY <1>7, <4>1
      <4>3. overflow[u] \in Seq(Events)
        BY <1>1, <1>3
      <4> QED
        BY <4>2, <4>3
    <3> QED
      BY <3>1, <3>2
  <2> QED
    BY <1>10, <2>1
<1>12. mo \in [Times -> Seq(Events)]
  BY <1>1, <1>9
<1>13. mb = {s \in Slots : mw[s] # <<>>}
  <2>1. ASSUME NEW s \in Slots PROVE s \in mb <=> mw[s] # <<>>
    <3>1. CASE \A u \in M : Slot(u) # s
      BY <1>1, <1>8, <1>9, <3>1
    <3>2. CASE \E u \in M : Slot(u) = s
      BY <1>3, <1>7, <1>9, <3>2
    <3> QED
      BY <3>1, <3>2
  <2>2. mb \in SUBSET Slots
    BY <1>1, <1>6, <1>9
  <2> QED
    BY <2>1, <2>2
<1>14. ASSUME NEW s \in Slots, mw[s] # <<>>
       PROVE  \E t \in Times : t >= time /\ t < time + WheelSize /\ Slot(t) = s
  <2>1. CASE \A u \in M : Slot(u) # s
    BY <1>4, <1>8, <1>14, <2>1
  <2>2. CASE \E u \in M : Slot(u) = s
    BY <1>3, <2>2
  <2> QED
    BY <2>1, <2>2
<1>15. ASSUME NEW t \in Times, mo[t] # <<>> PROVE t >= time + WheelSize
  <2>1. t \notin M /\ overflow[t] # <<>>
    BY <1>9, <1>15
  <2> QED
    BY <1>1, <2>1, TimesAre DEF M, Movable, OverflowTimes
<1>16. Shape(mw, mb, mo, time)
  BY <1>11, <1>12, <1>13, <1>14, <1>15 DEF Shape
<1>17. ASSUME NEW t \in Times
       PROVE  ListAt(mw, mo, time, t) = ListAt(wheel, overflow, currentTime, t)
  <2>1. CASE t < time
    <3>1. ListAt(mw, mo, time, t) = mo[t]
      BY <1>1, <2>1, TimesAre DEF ListAt
    <3>2. ~ t >= time + WheelSize
      BY <1>1, <2>1, TimesAre
    <3> QED
      BY <1>2, <1>15, <2>1, <3>1, <3>2
  <2>2. CASE t >= time /\ t < time + WheelSize
    <3>1. ListAt(mw, mo, time, t) = mw[Slot(t)] /\ Slot(t) \in Slots
      BY <2>2, SlotIn DEF ListAt
    <3>2. CASE t \in M
      <4>1. ~ t < currentTime + WheelSize
        BY <1>1, <1>3, <3>2, TimesAre
      <4> QED
        BY <1>7, <3>1, <3>2, <4>1 DEF ListAt
    <3>3. CASE t \notin M
      <4>1. \A u \in M : Slot(u) # Slot(t)
        BY <1>3, <1>5, <2>2, <3>3
      <4>2. mw[Slot(t)] = wheel[Slot(t)]
        BY <1>8, <3>1, <4>1
      <4>3. CASE t < currentTime + WheelSize
        <5>1. t >= currentTime
          BY <1>1, <2>2, TimesAre
        <5> QED
          BY <3>1, <4>2, <4>3, <5>1 DEF ListAt
      <4>4. CASE ~ t < currentTime + WheelSize
        <5>1. overflow[t] = <<>>
          BY <2>2, <3>3 DEF M, Movable, OverflowTimes
        <5>2. ASSUME wheel[Slot(t)] # <<>> PROVE FALSE
          <6>1. PICK u \in Times : /\ u >= time /\ u < time + WheelSize /\ Slot(u) = Slot(t)
                                   /\ u >= currentTime /\ u < currentTime + WheelSize
            BY <1>4, <3>1, <5>2
          <6>2. u = t
            BY <1>5, <2>2, <6>1
          <6> QED
            BY <4>4, <6>1, <6>2
        <5> QED
          BY <3>1, <4>2, <4>4, <5>1, <5>2 DEF ListAt
      <4> QED
        BY <4>3, <4>4
    <3> QED
      BY <3>2, <3>3
  <2>3. CASE t >= time + WheelSize
    <3>1. ListAt(mw, mo, time, t) = mo[t] /\ t \notin M
      BY <1>1, <1>3, <2>3, TimesAre DEF ListAt
    <3>2. ~ t < currentTime + WheelSize
      BY <1>1, <2>3, TimesAre
    <3> QED
      BY <1>9, <3>1, <3>2 DEF ListAt
  <2> QED
    BY <1>1, <2>1, <2>2, <2>3, TimesAre
<1>18. QueueOf(mw, mo, time) = QueueOf(wheel, overflow, currentTime)
  BY <1>17 DEF QueueOf
<1> QED
  BY <1>16, <1>18 DEF mw, mb, mo

-----------------------------------------------------------------------------
(* The inductive invariant.                                                *)

Q == QueueOf(wheel, overflow, currentTime)

Busy(q) == {t \in Times : q[t] # <<>>}
First(q) == MinOr(Busy(q), NoTime)

\* The processes with an entry in list l, or in the queue q.
PidsOf(l) == {l[i].pid : i \in DOMAIN l}
In(q, p) == \E t \in Times : p \in PidsOf(q[t])

\* No process has two entries, queued or taken.
Once(l) == \A i, j \in DOMAIN l : l[i].pid = l[j].pid => i = j
Single(q, b) ==
    /\ Once(b) /\ \A t \in Times : Once(q[t])
    /\ \A t, u \in Times : t # u => PidsOf(q[t]) \cap PidsOf(q[u]) = {}
    /\ \A t \in Times : PidsOf(q[t]) \cap PidsOf(b) = {}

Counted(q, counts) == \A p \in Pids : counts[p] = IF In(q, p) THEN 1 ELSE 0

IInv ==
    /\ TypeOK
    /\ currentTime <= time
    /\ Shape(wheel, bitmap, overflow, currentTime)
    /\ occupiedWords = NonZeroWords(bitmap)
    /\ \A t \in Times : t < time => Q[t] = <<>>
    /\ nextCache \in {Unknown, First(Q)}
    /\ Single(Q, batch)
    /\ Counted(Q, pidCounts)

-----------------------------------------------------------------------------
(* The next time.                                                          *)

LEMMA IInvParts ==
  ASSUME IInv
  PROVE  /\ time \in Times /\ currentTime \in Times /\ currentTime <= time
         /\ time \in Nat /\ currentTime \in Nat
         /\ bitmap \in SUBSET Slots /\ Q \in [Times -> Seq(Events)]
         /\ Shape(wheel, bitmap, overflow, currentTime)
         /\ batch \in Seq(Events)
  BY TimesAre, QueueTyped DEF IInv, TypeOK, Q

\* The time of an occupied slot, and its list.
LEMMA TimeOfIs ==
  ASSUME IInv, NEW s \in bitmap
  PROVE  /\ TimeOf(s) \in Times /\ TimeOf(s) = currentTime + Ahead(currentTime, s)
         /\ TimeOf(s) >= currentTime /\ TimeOf(s) < currentTime + WheelSize
         /\ Slot(TimeOf(s)) = s
         /\ Q[TimeOf(s)] = wheel[s] /\ wheel[s] # <<>>
<1> DEFINE c == currentTime
           d == Ahead(c, s)
<1>1. /\ c \in Nat /\ s \in Slots /\ WheelSize \in Nat \ {0}
  BY IInvParts, TimesAre
<1>2. wheel[s] # <<>> /\ \E t \in Times : t >= c /\ t < c + WheelSize /\ Slot(t) = s
  BY IInvParts DEF Shape
<1>3. d \in 0 .. WheelSize - 1 /\ Slot(c + d) = s /\ TimeOf(s) = c + d
  BY <1>1, SlotsAndTimes DEF TimeOf
<1> HIDE DEF d
<1>4. PICK t \in Times : t >= c /\ t < c + WheelSize /\ Slot(t) = s
  BY <1>2
<1>5. c + d >= c /\ c + d < c + WheelSize /\ c + d \in Nat /\ t \in Nat
  BY <1>1, <1>3, TimesAre
<1>6. t = c + d
  BY <1>1, <1>3, <1>4, <1>5, SlotsAndTimes
<1> QED
  BY <1>2, <1>3, <1>4, <1>6 DEF d, Q, QueueOf, ListAt

\* The bitmap and the overflow map name the times at which something waits.
LEMMA BusyIs ==
  ASSUME IInv
  PROVE  Busy(Q) = {TimeOf(s) : s \in bitmap} \cup OverflowTimes
<1> DEFINE c == currentTime
<1>1. /\ c \in Nat /\ WheelSize \in Nat \ {0}
      /\ \A t \in Times : overflow[t] # <<>> => t >= c + WheelSize
      /\ bitmap = {s \in Slots : wheel[s] # <<>>}
  BY IInvParts, TimesAre DEF Shape
<1>2. ASSUME NEW t \in Busy(Q) PROVE t \in {TimeOf(s) : s \in bitmap} \cup OverflowTimes
  <2>1. t \in Times /\ t \in Nat /\ Q[t] # <<>>
    BY TimesAre DEF Busy
  <2>2. CASE t >= c /\ t < c + WheelSize
    <3>1. wheel[Slot(t)] # <<>> /\ Slot(t) \in bitmap
      BY <1>1, <2>1, <2>2, SlotIn DEF Q, QueueOf, ListAt
    <3>2. TimeOf(Slot(t)) = t
      BY <1>1, <2>1, <2>2, <3>1, TimeOfIs, SlotsAndTimes, TimesAre
    <3> QED
      BY <3>1, <3>2
  <2>3. CASE ~ (t >= c /\ t < c + WheelSize)
    BY <2>1, <2>3 DEF Q, QueueOf, ListAt, OverflowTimes
  <2> QED
    BY <2>2, <2>3
<1>3. ASSUME NEW s \in bitmap PROVE TimeOf(s) \in Busy(Q)
  BY TimeOfIs DEF Busy
<1>4. ASSUME NEW t \in OverflowTimes PROVE t \in Busy(Q)
  <2>1. t \in Times /\ overflow[t] # <<>> /\ t >= c + WheelSize /\ t \in Nat
    BY <1>1, TimesAre DEF OverflowTimes
  <2>2. ~ t < c + WheelSize
    BY <1>1, <2>1
  <2> QED
    BY <2>1, <2>2 DEF Busy, Q, QueueOf, ListAt
<1> QED
  BY <1>2, <1>3, <1>4

LEMMA WordsAre ==
  /\ Words \in Nat \ {0}
  /\ \A s \in Slots : WordOf(s) \in 0 .. Words - 1
  /\ \A s, t \in Slots : WordOf(s) < WordOf(t) => s < t
<1> DEFINE w == WordBits
<1>1. w \in Nat \ {0} /\ WheelSize \in Nat \ {0} /\ WheelSize % w = 0
  BY WheelAssumption
<1>2. Words \in Nat /\ WheelSize = w * Words
  BY <1>1, DivMod DEF Words
<1>3. Words # 0
  BY <1>1, <1>2
<1>4. \A s \in Nat : WordOf(s) \in Nat /\ w * WordOf(s) <= s /\ s < w * WordOf(s) + w
  <2> TAKE s \in Nat
  <2>1. s \div w \in Nat /\ s = w * (s \div w) + (s % w) /\ s % w \in 0 .. w - 1
    BY <1>1, DivMod
  <2>2. w * (s \div w) \in Nat
    BY <1>1, <2>1
  <2> QED
    BY <1>1, <2>1, <2>2 DEF WordOf
<1>5. \A p, q \in Nat : p < q => w * p + w <= w * q
  <2> TAKE p \in Nat, q \in Nat
  <2> HAVE p < q
  <2>1. q - (p + 1) \in Nat /\ p + 1 \in Nat
    OBVIOUS
  <2>2. w * q - w * (p + 1) = w * (q - (p + 1)) /\ w * (p + 1) = w * p + w
    BY <1>1, <2>1, Product
  <2>3. w * (q - (p + 1)) >= 0 /\ w * q \in Int /\ w * p \in Int
    BY <1>1, <2>1
  <2> QED
    BY <1>1, <2>2, <2>3
<1>6. ASSUME NEW s \in Slots PROVE WordOf(s) \in 0 .. Words - 1
  <2>1. s \in Nat /\ s < WheelSize
    BY <1>1 DEF Slots
  <2>2. ASSUME ~ WordOf(s) < Words PROVE FALSE
    <3>1. Words <= WordOf(s)
      BY <1>2, <1>4, <2>1, <2>2
    <3>2. Words = WordOf(s) \/ w * Words + w <= w * WordOf(s)
      BY <1>2, <1>4, <1>5, <2>1, <3>1
    <3>3. w * WordOf(s) \in Int
      BY <1>1, <1>4, <2>1
    <3>4. w * WordOf(s) <= s /\ s \in Nat /\ s < w * Words /\ w * Words \in Int
      BY <1>1, <1>2, <1>4, <2>1
    <3>5. CASE Words = WordOf(s)
      <4>1. w * Words <= s
        BY <3>4, <3>5
      <4> QED
        BY <3>4, <4>1
    <3>6. CASE w * Words + w <= w * WordOf(s)
      <4> DEFINE x == w * Words
                 y == w * WordOf(s)
      <4>1. x \in Int /\ y \in Int /\ x + w <= y /\ y <= s /\ s < x
        BY <3>3, <3>4, <3>6
      <4> HIDE DEF x, y
      <4> QED
        BY <1>1, <3>4, <4>1
    <3> QED
      BY <3>2, <3>5, <3>6
  <2> QED
    BY <1>2, <1>4, <2>1, <2>2
<1>7. ASSUME NEW s \in Slots, NEW t \in Slots, WordOf(s) < WordOf(t) PROVE s < t
  <2>1. s \in Nat /\ t \in Nat
    BY <1>1 DEF Slots
  <2>2. w * WordOf(s) + w <= w * WordOf(t)
    BY <1>4, <1>5, <1>7, <2>1
  <2>3. w * WordOf(s) \in Int /\ w * WordOf(t) \in Int
    BY <1>1, <1>4, <2>1
  <2> QED
    BY <1>1, <1>4, <2>1, <2>2, <2>3
<1> QED
  BY <1>2, <1>3, <1>6, <1>7

\* The word of a slot, counted from the current word in circular order.
Turn(s) == IF WordOf(s) >= WordOf(Slot(currentTime))
           THEN WordOf(s) - WordOf(Slot(currentTime))
           ELSE WordOf(s) + Words - WordOf(Slot(currentTime))

LEMMA TurnIs ==
  ASSUME IInv, NEW s \in Slots, NEW k \in 0 .. Words - 1
  PROVE  /\ Turn(s) \in 0 .. Words - 1
         /\ WordOf(s) = (WordOf(Slot(currentTime)) + k) % Words <=> Turn(s) = k
<1> DEFINE v == WordOf(Slot(currentTime))
           x == WordOf(s)
<1>1. Words \in Nat \ {0} /\ v \in 0 .. Words - 1 /\ x \in 0 .. Words - 1
  BY WordsAre, SlotIn, IInvParts
<1> DEFINE n == Words
<1>2. Turn(s) = IF x >= v THEN x - v ELSE x + n - v
  BY DEF Turn
<1>3. n \in Nat \ {0} /\ v \in Nat /\ k \in 0 .. n - 1 /\ v \in 0 .. n - 1 /\ x \in 0 .. n - 1
  BY <1>1
<1> HIDE DEF v, x, n
<1>4. v % n = v
  <2>1. n * 0 + v = v
    BY <1>3
  <2> QED
    BY <1>3, <2>1, ModIs
<1>5. (v + k) % n = IF v + k < n THEN v + k ELSE v + k - n
  BY <1>3, <1>4, RestOfSum
<1>6. Turn(s) \in 0 .. n - 1
  BY <1>2, <1>3
<1>7. x = (v + k) % n <=> Turn(s) = k
  BY <1>2, <1>3, <1>5
<1> QED
  BY <1>6, <1>7 DEF n, v, x


\* The slots of the k-th word from the current one.
WordAt(k) == {s \in bitmap : Turn(s) = k}

LEMMA ScannedWords ==
  ASSUME IInv, NEW k \in 0 .. Words - 1
  PROVE  {s \in bitmap : WordOf(s) = (WordOf(Slot(currentTime)) + k) % Words} = WordAt(k)
<1>1. bitmap \in SUBSET Slots
  BY IInvParts
<1>2. \A s \in bitmap : WordOf(s) = (WordOf(Slot(currentTime)) + k) % Words <=> Turn(s) = k
  BY <1>1, TurnIs
<1> QED
  BY <1>2 DEF WordAt

\* What the three phases of the scan find.
FirstBits == {s \in WordAt(0) : s >= Slot(currentTime)}
LaterWords == {k \in 1 .. Words - 1 : WordAt(k) # {}}
Found == IF FirstBits # {} THEN FirstBits
         ELSE IF LaterWords # {} THEN WordAt(Min(LaterWords))
         ELSE LowBits(WordAt(0), FirstBits)

LEMMA ScanIs ==
  ASSUME IInv
  PROVE  NextTimeScan = IF Found # {} THEN currentTime + Ahead(currentTime, Min(Found))
                        ELSE MinOr(OverflowTimes, NoTime)
<1> DEFINE start == Slot(currentTime)
           word(k) == {s \in bitmap : WordOf(s) = (WordOf(start) + k) % Words}
           first == {s \in word(0) : s >= start}
           later == {k \in 1 .. Words - 1 : word(k) # {}}
           found == IF first # {} THEN first
                    ELSE IF later # {} THEN word(Min(later))
                    ELSE LowBits(word(0), first)
<1>1. Words \in Nat \ {0}
  BY WordsAre
<1>2. \A k \in 0 .. Words - 1 : word(k) = WordAt(k)
  BY ScannedWords
<1> HIDE DEF word
<1>3. word(0) = WordAt(0) /\ first = FirstBits
  BY <1>1, <1>2 DEF FirstBits
<1>4. later = LaterWords
  BY <1>1, <1>2 DEF LaterWords
<1>5. later # {} => Min(later) \in 0 .. Words - 1
  <2>1. later \in SUBSET Nat /\ later \in SUBSET (0 .. Words - 1)
    BY <1>1
  <2> HIDE DEF later
  <2> QED
    BY <2>1, MinExists
<1>6. later # {} => word(Min(later)) = WordAt(Min(LaterWords))
  BY <1>2, <1>4, <1>5
<1>7. found = Found
  BY <1>3, <1>4, <1>6 DEF Found
<1>8. NextTimeScan = IF found # {} THEN currentTime + Ahead(currentTime, Min(found))
                     ELSE MinOr(OverflowTimes, NoTime)
  BY DEF NextTimeScan, Ahead, word
<1> QED
  BY <1>7, <1>8

LEMMA FoundInBitmap == Found \in SUBSET bitmap
  BY DEF Found, FirstBits, LowBits, WordAt

\* The three phases find the occupied slot least ahead of the clock.
LEMMA FoundIsNearest ==
  ASSUME IInv, bitmap # {}
  PROVE  /\ Found # {} /\ Min(Found) \in bitmap
         /\ \A s \in bitmap : Ahead(currentTime, Min(Found)) <= Ahead(currentTime, s)
<1> DEFINE start == Slot(currentTime)
           v == WordOf(start)
           n == Words
           W == WheelSize
<1>1. /\ n \in Nat \ {0} /\ W \in Nat \ {0} /\ start \in Slots /\ v \in 0 .. n - 1
      /\ bitmap \in SUBSET Slots
  BY WordsAre, TimesAre, SlotIn, IInvParts
<1>2. \A s \in bitmap : s \in 0 .. W - 1 /\ WordOf(s) \in 0 .. n - 1 /\ s \in Slots
  BY <1>1, WordsAre DEF Slots
<1>3. start \in 0 .. W - 1
  BY <1>1 DEF Slots
<1>4. \A s \in bitmap : Ahead(currentTime, s) = IF s >= start THEN s - start ELSE s + W - start
  BY DEF Ahead
<1>5. \A s \in bitmap : /\ Turn(s) \in 0 .. n - 1
                        /\ Turn(s) = IF WordOf(s) >= v THEN WordOf(s) - v
                                     ELSE WordOf(s) + n - v
  BY <1>1, TurnIs DEF Turn
<1>6. \A s, t \in bitmap : WordOf(s) < WordOf(t) => s < t
  BY <1>2, WordsAre
<1>7. \A s \in bitmap : /\ WordOf(s) < v => s < start
                        /\ v < WordOf(s) => start < s
  BY <1>1, <1>2, WordsAre
<1>8. \A S \in SUBSET bitmap : S # {} => Min(S) \in S /\ \A s \in S : Min(S) <= s
  <2>1. bitmap \in SUBSET Nat
    BY <1>2
  <2> QED
    BY <2>1, MinExists
<1> HIDE DEF start, v, n, W
\* The rest of the current word.
<1>9. CASE FirstBits # {}
  <2>1. Found = FirstBits /\ FirstBits \in SUBSET bitmap
    BY <1>9 DEF Found, FirstBits, WordAt
  <2> DEFINE m == Min(Found)
  <2>2. m \in bitmap /\ Turn(m) = 0 /\ m >= start /\ \A s \in FirstBits : m <= s
    BY <1>8, <1>9, <2>1 DEF FirstBits, WordAt, start
  <2> HIDE DEF m
  <2>3. ASSUME NEW s \in bitmap PROVE Ahead(currentTime, m) <= Ahead(currentTime, s)
    <3>1. CASE s < start
      BY <1>1, <1>2, <1>3, <1>4, <2>2, <3>1
    <3>2. CASE s >= start
      <4>1. WordOf(m) = v /\ WordOf(s) >= v
        BY <1>1, <1>2, <1>3, <1>5, <1>7, <2>2, <3>2
      <4>2. m <= s
        <5>1. CASE WordOf(s) = v
          <6>1. s \in FirstBits
            BY <1>1, <1>2, <1>5, <3>2, <5>1 DEF FirstBits, WordAt, start
          <6> QED
            BY <2>2, <6>1
        <5>2. CASE WordOf(s) > v
          BY <1>2, <1>6, <2>2, <4>1, <5>2
        <5> QED
          BY <1>1, <1>2, <4>1, <5>1, <5>2
      <4> QED
        BY <1>2, <1>3, <1>4, <2>2, <3>2, <4>2
    <3> QED
      BY <1>2, <1>3, <3>1, <3>2
  <2> QED
    BY <1>9, <2>1, <2>2, <2>3 DEF m
\* The words that follow.
<1>10. CASE FirstBits = {} /\ LaterWords # {}
  <2> DEFINE k == Min(LaterWords)
             m == Min(Found)
  <2>1. k \in LaterWords /\ \A j \in LaterWords : k <= j
    <3>1. LaterWords \in SUBSET Nat
      BY <1>1 DEF LaterWords, n
    <3> QED
      BY <1>10, <3>1, MinExists
  <2>2. k \in 1 .. n - 1 /\ WordAt(k) # {} /\ Found = WordAt(k) /\ WordAt(k) \in SUBSET bitmap
    BY <1>10, <2>1 DEF LaterWords, Found, n, WordAt
  <2>3. m \in bitmap /\ Turn(m) = k /\ \A s \in WordAt(k) : m <= s
    BY <1>8, <2>2 DEF WordAt
  <2> HIDE DEF k, m
  \* Nothing lies in the words between.
  <2>4. \A s \in bitmap : \/ Turn(s) = 0 /\ s < start
                          \/ Turn(s) >= k
    <3> TAKE s \in bitmap
    <3>1. CASE Turn(s) = 0
      <4>1. s \notin FirstBits
        BY <1>10
      <4> QED
        BY <1>2, <1>3, <3>1, <4>1 DEF FirstBits, WordAt, start
    <3>2. CASE Turn(s) # 0
      <4>1. Turn(s) \in LaterWords
        BY <1>1, <1>5, <3>2 DEF LaterWords, WordAt, n
      <4> QED
        BY <2>1, <2>2, <1>5, <4>1
    <3> QED
      BY <3>1, <3>2
  <2>5. ASSUME NEW s \in bitmap, WordOf(m) <= WordOf(s), Turn(s) >= k
        PROVE  m <= s
    <3>1. CASE WordOf(s) = WordOf(m)
      <4>1. Turn(s) = k
        BY <2>3, <3>1 DEF Turn
      <4>2. s \in WordAt(k)
        BY <4>1 DEF WordAt
      <4> QED
        BY <2>3, <4>2
    <3>2. CASE WordOf(m) < WordOf(s)
      BY <1>2, <1>6, <2>3, <3>2
    <3> QED
      BY <1>2, <2>3, <2>5, <3>1, <3>2
  <2>6. ASSUME NEW s \in bitmap PROVE Ahead(currentTime, m) <= Ahead(currentTime, s)
    <3>1. CASE WordOf(m) >= v
      <4>1. WordOf(m) = v + k /\ m > start
        BY <1>1, <1>2, <1>3, <1>5, <1>7, <2>2, <2>3, <3>1
      <4>2. CASE s < start
        BY <1>1, <1>2, <1>3, <1>4, <2>3, <4>1, <4>2
      <4>3. CASE s >= start
        <5>1. Turn(s) >= k
          BY <1>2, <1>3, <2>4, <4>3
        <5>2. WordOf(s) >= v
          BY <1>1, <1>2, <1>3, <1>7, <4>3
        <5>3. WordOf(m) <= WordOf(s)
          BY <1>1, <1>2, <1>5, <2>2, <4>1, <5>1, <5>2
        <5>4. m <= s
          BY <2>5, <5>1, <5>3
        <5> QED
          BY <1>2, <1>3, <1>4, <2>3, <4>1, <4>3, <5>4
      <4> QED
        BY <1>2, <1>3, <4>2, <4>3
    <3>2. CASE WordOf(m) < v
      <4>1. WordOf(m) = v + k - n /\ m < start
        BY <1>1, <1>2, <1>5, <1>7, <2>2, <2>3, <3>2
      <4>2. s < start
        <5> SUFFICES ASSUME s >= start PROVE FALSE
          BY <1>2, <1>3
        <5>1. Turn(s) >= k /\ WordOf(s) >= v
          BY <1>1, <1>2, <1>3, <1>7, <2>4
        <5>2. WordOf(s) - v >= k
          BY <1>5, <5>1
        <5> QED
          BY <1>1, <1>2, <2>2, <2>3, <4>1, <5>2
      <4>3. m <= s
        <5>1. CASE Turn(s) >= k
          <6>1. WordOf(m) <= WordOf(s)
            BY <1>1, <1>2, <1>5, <2>2, <2>3, <4>1, <5>1
          <6> QED
            BY <2>5, <5>1, <6>1
        <5>2. CASE Turn(s) = 0
          <6>1. WordOf(s) = v
            BY <1>1, <1>2, <1>5, <5>2
          <6> QED
            BY <1>1, <1>2, <1>6, <2>3, <3>2, <6>1
        <5> QED
          BY <2>4, <5>1, <5>2
      <4> QED
        BY <1>1, <1>2, <1>3, <1>4, <2>3, <4>1, <4>2, <4>3
    <3> QED
      BY <1>1, <1>2, <2>3, <3>1, <3>2
  <2> QED
    BY <2>2, <2>3, <2>6 DEF m
\* The low bits of the current word.
<1>11. CASE FirstBits = {} /\ LaterWords = {}
  <2> DEFINE m == Min(Found)
  <2>1. \A s \in bitmap : Turn(s) = 0 /\ s < start
    <3> TAKE s \in bitmap
    <3>1. Turn(s) = 0
      <4> SUFFICES ASSUME Turn(s) # 0 PROVE FALSE
        OBVIOUS
      <4>1. Turn(s) \in LaterWords
        BY <1>1, <1>5 DEF LaterWords, WordAt, n
      <4> QED
        BY <1>11, <4>1
    <3>2. s \notin FirstBits
      BY <1>11
    <3> QED
      BY <1>2, <1>3, <3>1, <3>2 DEF FirstBits, WordAt, start
  <2>2. Found = bitmap
    BY <1>11, <2>1 DEF Found, LowBits, WordAt
  <2>3. m \in bitmap /\ \A s \in bitmap : m <= s
    BY <1>8, <2>2
  <2> HIDE DEF m
  <2>4. ASSUME NEW s \in bitmap PROVE Ahead(currentTime, m) <= Ahead(currentTime, s)
    BY <1>1, <1>2, <1>3, <1>4, <2>1, <2>3
  <2> QED
    BY <2>2, <2>3, <2>4 DEF m
<1> QED
  BY <1>9, <1>10, <1>11

(***************************************************************************)
(* The scan names the first time at which something waits.                 *)
(***************************************************************************)
LEMMA ScanFinds ==
  ASSUME IInv
  PROVE  NextTimeScan = First(Q)
<1> DEFINE c == currentTime
<1>1. /\ c \in Nat /\ WheelSize \in Nat \ {0} /\ Times \in SUBSET Nat
      /\ \A t \in OverflowTimes : t \in Nat /\ t >= c + WheelSize
  BY IInvParts, TimesAre DEF Shape, OverflowTimes
<1>2. CASE bitmap = {}
  <2>1. Found = {} /\ Busy(Q) = OverflowTimes
    BY <1>2, FoundInBitmap, BusyIs
  <2> QED
    BY <2>1, ScanIs DEF First
<1>3. CASE bitmap # {}
  <2> DEFINE m == Min(Found)
             x == c + Ahead(c, m)
  <2>1. /\ Found # {} /\ m \in bitmap
        /\ \A s \in bitmap : Ahead(c, m) <= Ahead(c, s)
    BY <1>3, FoundIsNearest
  <2> HIDE DEF m
  <2>2. NextTimeScan = x
    BY <2>1, ScanIs DEF m
  <2>3. \A s \in bitmap : /\ TimeOf(s) \in Times /\ TimeOf(s) = c + Ahead(c, s)
                          /\ TimeOf(s) < c + WheelSize
    BY TimeOfIs
  <2>4. \A s \in bitmap : Ahead(c, s) \in 0 .. WheelSize - 1
    BY <1>1, IInvParts, SlotsAndTimes
  <2>5. x = TimeOf(m) /\ x \in Nat /\ x < c + WheelSize
    BY <1>1, <2>1, <2>3
  <2>6. x \in Busy(Q)
    BY <2>1, <2>5, BusyIs
  <2>7. ASSUME NEW t \in Busy(Q) PROVE x <= t
    <3>1. CASE t \in OverflowTimes
      BY <1>1, <2>5, <3>1
    <3>2. ASSUME NEW s \in bitmap, t = TimeOf(s) PROVE x <= t
      BY <1>1, <2>1, <2>3, <2>4, <3>2
    <3> QED
      BY <3>1, <3>2, BusyIs
  <2>8. Busy(Q) \in SUBSET Int
    <3>1. \A t \in Busy(Q) : t \in Int
      BY <1>1 DEF Busy
    <3> QED
      BY <3>1
  <2> HIDE DEF x
  <2>9. Min(Busy(Q)) = x
    BY <2>6, <2>7, <2>8, MinIs
  <2> QED
    BY <2>2, <2>6, <2>9 DEF First, MinOr
<1> QED
  BY <1>2, <1>3

\* The first time at which something waits is not in the past.
LEMMA FirstIs ==
  ASSUME NEW q
  PROVE  /\ First(q) \in Times \cup {NoTime}
         /\ First(q) \in Nat
         /\ \A t \in Times : t < First(q) => q[t] = <<>>
         /\ First(q) \in Times => q[First(q)] # <<>>
<1>1. /\ Busy(q) \in SUBSET Times /\ Times \in SUBSET Nat /\ NoTime \in Nat
      /\ Busy(q) \in SUBSET Nat
  <2>1. Times \in SUBSET Nat /\ NoTime \in Nat
    BY TimesAre DEF NoTime
  <2>2. Busy(q) \in SUBSET Times
    BY DEF Busy
  <2>3. \A S \in SUBSET Times : S \in SUBSET Nat
    BY <2>1
  <2> QED
    BY <2>1, <2>2, <2>3
<1>2. CASE Busy(q) = {}
  <2>1. First(q) = NoTime /\ NoTime \notin Times
    BY <1>2, TimesAre DEF First, MinOr, NoTime, Times
  <2> QED
    BY <1>1, <1>2, <2>1 DEF Busy
<1>3. CASE Busy(q) # {}
  <2>1. First(q) \in Busy(q) /\ \A t \in Busy(q) : First(q) <= t
    BY <1>1, <1>3, MinExists DEF First, MinOr
  <2> QED
    BY <1>1, <2>1 DEF Busy
<1> QED
  BY <1>2, <1>3

LEMMA NextTimeIs ==
  ASSUME IInv
  PROVE  NextTime = First(Q) /\ NextTime >= time
<1>1. First(Q) \in Nat /\ \A t \in Times : t < time => Q[t] = <<>>
  BY FirstIs DEF IInv
<1>2. First(Q) >= time
  <2> SUFFICES ASSUME ~ First(Q) >= time PROVE FALSE
    OBVIOUS
  <2>1. First(Q) < time /\ time \in Nat /\ time <= MaxTime
    BY <1>1, IInvParts, TimesAre
  <2>2. First(Q) \in Times
    BY <1>1, <2>1, TimesAre DEF Times
  <2> QED
    BY <1>1, <2>1, <2>2, FirstIs
<1>3. NextTime = First(Q)
  BY ScanFinds DEF NextTime, CacheUsable, IInv
<1> QED
  BY <1>2, <1>3

LEMMA NextTimeAfterIs ==
  ASSUME IInv, NEW t \in Times, t <= NextTimeAfter(time),
         NEW u \in Times, u > time, u < t
  PROVE  Q[u] = <<>>
<1> DEFINE S == {v \in {TimeOf(s) : s \in bitmap} \cup OverflowTimes : v > time}
<1>1. S = {v \in Busy(Q) : v > time}
  BY BusyIs
<1>2. NextTimeAfter(time) = MinOr(S, NoTime)
  BY DEF NextTimeAfter
<1>3. S \in SUBSET Nat
  <2>1. \A v \in S : v \in Nat
    BY <1>1, TimesAre DEF Busy
  <2> QED
    BY <2>1
<1> HIDE DEF S
<1>4. SUFFICES ASSUME Q[u] # <<>> PROVE FALSE
  OBVIOUS
<1>5. u \in S
  BY <1>1, <1>4 DEF Busy
<1>6. NextTimeAfter(time) <= u /\ NextTimeAfter(time) \in Nat
  <2>1. S # {} /\ Min(S) \in S /\ \A x \in S : Min(S) <= x
    BY <1>3, <1>5, MinExists
  <2>2. NextTimeAfter(time) = Min(S)
    BY <1>2, <2>1 DEF MinOr
  <2> QED
    BY <1>3, <1>5, <2>1, <2>2
<1>7. t \in Nat /\ u \in Nat
  BY TimesAre
<1> QED
  BY <1>6, <1>7

\* An entry of p is in a list of the structure when one is in the queue.
LEMMA PendingIs ==
  ASSUME IInv, NEW p
  PROVE  Pending(p) <=> In(Q, p)
<1>1. \A l : l # <<>> =>
         ((\E t \in Times : Q[t] = l)
            <=> (\E s \in Slots : wheel[s] = l) \/ (\E t \in Times : overflow[t] = l))
  <2> SUFFICES ASSUME NEW l, l # <<>>
               PROVE  (\E t \in Times : Q[t] = l)
                         <=> (\E s \in Slots : wheel[s] = l)
                             \/ (\E t \in Times : overflow[t] = l)
    OBVIOUS
  <2>1. currentTime \in Times /\ Shape(wheel, bitmap, overflow, currentTime)
    BY IInvParts
  <2>2. (\E t \in Times : QueueOf(wheel, overflow, currentTime)[t] = l)
           <=> (\E s \in Slots : wheel[s] = l) \/ (\E t \in Times : overflow[t] = l)
    BY <2>1, ListsAre
  <2> QED
    BY <2>2 DEF Q
<1>2. ASSUME In(Q, p) PROVE Pending(p)
  <2>1. PICK t \in Times : \E i \in DOMAIN Q[t] : Q[t][i].pid = p
    BY <1>2 DEF In, PidsOf
  <2> DEFINE l == Q[t]
  <2>2. l # <<>> /\ (\E u \in Times : Q[u] = l) /\ \E i \in DOMAIN l : l[i].pid = p
    BY <2>1
  <2> HIDE DEF l
  <2>3. l \in AllLists
    BY <1>1, <2>2 DEF AllLists
  <2> QED
    BY <2>2, <2>3 DEF Pending
<1>3. ASSUME Pending(p) PROVE In(Q, p)
  <2>1. PICK l \in AllLists : \E i \in DOMAIN l : l[i].pid = p
    BY <1>3 DEF Pending
  <2>2. l # <<>>
    BY <2>1
  <2>3. \E t \in Times : Q[t] = l
    BY <1>1, <2>1, <2>2 DEF AllLists
  <2> QED
    BY <2>1, <2>3 DEF In, PidsOf
<1> QED
  BY <1>2, <1>3

LEMMA WordsInUse ==
  ASSUME NEW b \in SUBSET Slots
  PROVE  NonZeroWords(b) \in 0 .. Words /\ (NonZeroWords(b) = 0 <=> b = {})
<1> DEFINE W == {WordOf(s) : s \in b}
           D == 0 .. Words - 1
<1>1. Words \in Nat \ {0} /\ W \in SUBSET D
  BY WordsAre
<1>2. IsFiniteSet(D) /\ Cardinality(D) = Words
  <2>1. 0 \in Int /\ Words - 1 \in Int
    BY <1>1
  <2>2. IsFiniteSet(D) /\ Cardinality(D) = IF 0 > Words - 1 THEN 0 ELSE (Words - 1) - 0 + 1
    BY <2>1, FS_Interval
  <2> QED
    BY <1>1, <2>2
<1>3. W = {} <=> b = {}
  OBVIOUS
<1>4. NonZeroWords(b) = Cardinality(W)
  BY DEF NonZeroWords
<1> HIDE DEF W, D
<1>5. IsFiniteSet(W) /\ Cardinality(W) <= Words /\ Cardinality(W) \in Nat
  BY <1>1, <1>2, FS_Subset, FS_CardinalityType
<1>6. Cardinality(W) = 0 <=> W = {}
  BY <1>5, FS_EmptySet
<1> QED
  BY <1>1, <1>3, <1>4, <1>5, <1>6

LEMMA QueueIs == [t \in Times |-> QueueAt(t)] = Q
  BY DEF QueueAt, Q, QueueOf, ListAt, InWheel

LEMMA TheIndexesAgree ==
  ASSUME IInv
  PROVE  IndexesAgree
<1>1. \A t \in Times : QueueAt(t) = Q[t]
  BY DEF QueueAt, Q, QueueOf, ListAt, InWheel
<1>2. {t \in Times : QueueAt(t) # <<>>} = Busy(Q)
  BY <1>1 DEF Busy
<1>3. NextTimeExact
  BY <1>2, NextTimeIs DEF NextTimeExact, First
<1>4. IsEmpty <=> Busy(Q) = {}
  <2>1. occupiedWords = 0 <=> bitmap = {}
    BY WordsInUse, IInvParts DEF IInv
  <2> QED
    BY <2>1, BusyIs DEF IsEmpty
<1>5. Busy(Q) = {} <=> \A p \in Pids : ~ In(Q, p)
  <2>1. ASSUME Busy(Q) # {} PROVE \E p \in Pids : In(Q, p)
    <3>1. PICK t \in Times : Q[t] # <<>>
      BY <2>1 DEF Busy
    <3> DEFINE l == Q[t]
    <3>2. l \in Seq(Events) /\ l # <<>>
      BY <3>1, IInvParts
    <3> HIDE DEF l
    <3>3. 1 \in DOMAIN l /\ l[1] \in Events
      BY <3>2
    <3>4. l[1].pid \in Pids
      BY <3>3 DEF Events
    <3>5. In(Q, l[1].pid)
      BY <3>3 DEF In, PidsOf, l
    <3> QED
      BY <3>4, <3>5
  <2>2. ASSUME Busy(Q) = {}, NEW p, In(Q, p) PROVE FALSE
    BY <2>2 DEF Busy, In, PidsOf
  <2> QED
    BY <2>1, <2>2
<1>6. IsEmptyExact
  BY <1>4, <1>5, PendingIs DEF IsEmptyExact
<1>7. HasPidExact
  <2>1. \A p \in Pids : pidCounts[p] > 0 <=> In(Q, p)
    BY DEF IInv, Counted
  <2> QED
    BY <2>1, PendingIs DEF HasPidExact, HasPidSound, HasPidComplete, HasPid
<1> QED
  BY <1>3, <1>6, <1>7 DEF IndexesAgree, IInv

-----------------------------------------------------------------------------
(* Lists from which entries are taken out, and sorted lists.               *)

\* The element of S that has j - 1 before it in the order R.
Nth(S, R, j) == CHOOSE x \in S : RankIn(S, R, x) = j - 1

LEMMA NthIs ==
  ASSUME NEW S, NEW R, Ordered(S, R)
  PROVE  /\ Cardinality(S) \in Nat
         /\ \A j \in 1 .. Cardinality(S) : Nth(S, R, j) \in S
         /\ \A j, k \in 1 .. Cardinality(S) : Nth(S, R, j) = Nth(S, R, k) => j = k
         /\ \A x \in S : \E j \in 1 .. Cardinality(S) : Nth(S, R, j) = x
         /\ \A x \in S, j \in Int : RankIn(S, R, x) = j - 1 => Nth(S, R, j) = x
<1> DEFINE Rank(x) == RankIn(S, R, x)
           n == Cardinality(S)
<1>1. IsFiniteSet(S) /\ n \in Nat
  BY FS_CardinalityType DEF Ordered
<1>2. /\ \A x \in S : Rank(x) \in 0 .. n - 1
      /\ \A x, y \in S : Rank(x) = Rank(y) => x = y
      /\ \A k \in 0 .. n - 1 : \E x \in S : Rank(x) = k
  BY Ranked
<1>3. \A j : Nth(S, R, j) = CHOOSE x \in S : Rank(x) = j - 1
  BY DEF Nth
<1> HIDE DEF Rank, n
<1>4. ASSUME NEW j \in 1 .. n PROVE Nth(S, R, j) \in S /\ Rank(Nth(S, R, j)) = j - 1
  <2>1. j - 1 \in 0 .. n - 1
    BY <1>1
  <2>2. \E x \in S : Rank(x) = j - 1
    BY <1>2, <2>1
  <2> QED
    BY <1>3, <2>2
<1>5. ASSUME NEW x \in S, NEW j \in Int, Rank(x) = j - 1 PROVE Nth(S, R, j) = x
  <2>1. Nth(S, R, j) \in S /\ Rank(Nth(S, R, j)) = j - 1
    BY <1>3, <1>5
  <2> QED
    BY <1>2, <1>5, <2>1
<1>6. ASSUME NEW x \in S PROVE \E j \in 1 .. n : Nth(S, R, j) = x
  <2> DEFINE j == Rank(x) + 1
  <2>1. j \in 1 .. n /\ Rank(x) = j - 1
    BY <1>1, <1>2
  <2> HIDE DEF j
  <2> QED
    BY <1>5, <2>1
<1>7. ASSUME NEW j \in 1 .. n, NEW k \in 1 .. n, Nth(S, R, j) = Nth(S, R, k) PROVE j = k
  <2>1. j - 1 = k - 1
    BY <1>4, <1>7
  <2> QED
    BY <1>1, <2>1
<1> QED
  BY <1>1, <1>4, <1>5, <1>6, <1>7 DEF n, Rank

\* The order of the positions of a list.
Less == {x \in Nat \X Nat : x[1] < x[2]}
KeptIn(p, s) == {i \in DOMAIN s : s[i].pid # p}

LEMMA Positions ==
  ASSUME NEW s \in Seq(Events), NEW K \in SUBSET (DOMAIN s)
  PROVE  /\ Ordered(K, Less) /\ Cardinality(K) <= Len(s)
         /\ \A x \in K : {y \in K : <<y, x>> \in Less} = {y \in K : y < x}
<1>1. DOMAIN s = 1 .. Len(s) /\ Len(s) \in Nat
  OBVIOUS
<1>2. IsFiniteSet(1 .. Len(s)) /\ Cardinality(1 .. Len(s)) = Len(s)
  <2>1. IsFiniteSet(1 .. Len(s))
        /\ Cardinality(1 .. Len(s)) = IF 1 > Len(s) THEN 0 ELSE Len(s) - 1 + 1
    BY <1>1, FS_Interval
  <2> QED
    BY <1>1, <2>1
<1>3. IsFiniteSet(K) /\ Cardinality(K) <= Len(s)
  BY <1>1, <1>2, FS_Subset
<1>4. \A x, y \in K : <<x, y>> \in Less <=> x < y
  BY <1>1 DEF Less
<1>5. K \in SUBSET Nat
  BY <1>1
<1>6. \A x, y, z \in K : /\ ~ x < x
                         /\ (x < y /\ y < z) => x < z
                         /\ x # y => x < y \/ y < x
  BY <1>5
<1> QED
  BY <1>3, <1>4, <1>6 DEF Ordered

LEMMA OthersAre ==
  ASSUME NEW s \in Seq(Events), NEW p
  PROVE  OfOthers(p, s) = [j \in 1 .. Cardinality(KeptIn(p, s))
                             |-> s[Nth(KeptIn(p, s), Less, j)]]
<1> DEFINE K == KeptIn(p, s)
           At(j) == CHOOSE i \in K : Cardinality({k \in K : k < i}) = j - 1
<1>1. K \in SUBSET (DOMAIN s)
  BY DEF KeptIn
<1>2. OfOthers(p, s) = [j \in 1 .. Cardinality(K) |-> s[At(j)]]
  BY DEF OfOthers, KeptIn
<1> HIDE DEF K
<1>3. \A j : At(j) = Nth(K, Less, j)
  <2> TAKE j
  <2>1. \A i \in K : (Cardinality({k \in K : k < i}) = j - 1
                      <=> RankIn(K, Less, i) = j - 1)
    BY <1>1, Positions DEF RankIn
  <2> QED
    BY <2>1 DEF Nth
<1> HIDE DEF At
<1> QED
  BY <1>2, <1>3 DEF K

(***************************************************************************)
(* The entries of the other processes, each once.                          *)
(***************************************************************************)
LEMMA OthersKept ==
  ASSUME NEW s \in Seq(Events), NEW p
  PROVE  /\ OfOthers(p, s) \in Seq(Events)
         /\ \E f \in [DOMAIN OfOthers(p, s) -> DOMAIN s] :
               /\ \A j, k \in DOMAIN OfOthers(p, s) : f[j] = f[k] => j = k
               /\ \A j \in DOMAIN OfOthers(p, s) :
                     OfOthers(p, s)[j] = s[f[j]] /\ s[f[j]].pid # p
               /\ \A i \in DOMAIN s : s[i].pid # p =>
                     \E j \in DOMAIN OfOthers(p, s) : f[j] = i
<1> DEFINE K == KeptIn(p, s)
           n == Cardinality(K)
           O == OfOthers(p, s)
           f == [j \in 1 .. n |-> Nth(K, Less, j)]
<1>1. K \in SUBSET (DOMAIN s) /\ \A i \in DOMAIN s : i \in K <=> s[i].pid # p
  BY DEF KeptIn
<1>2. O = [j \in 1 .. n |-> s[Nth(K, Less, j)]]
  BY OthersAre
<1> HIDE DEF K, O
<1>3. Ordered(K, Less)
  BY <1>1, Positions
<1>4. /\ n \in Nat
      /\ \A j \in 1 .. n : Nth(K, Less, j) \in K
      /\ \A j, k \in 1 .. n : Nth(K, Less, j) = Nth(K, Less, k) => j = k
      /\ \A x \in K : \E j \in 1 .. n : Nth(K, Less, j) = x
  BY <1>3, NthIs
<1> HIDE DEF n
<1>5. O \in Seq(Events)
  <2>1. \A j \in 1 .. n : s[Nth(K, Less, j)] \in Events
    BY <1>1, <1>4
  <2> QED
    BY <1>2, <1>4, <2>1
<1>6. DOMAIN O = 1 .. n
  BY <1>2
<1>7. f \in [1 .. n -> DOMAIN s]
  BY <1>1, <1>4
<1>8. \A j \in 1 .. n : O[j] = s[f[j]] /\ f[j] \in K /\ f[j] = Nth(K, Less, j)
  BY <1>2, <1>4
<1> HIDE DEF f
<1>9. \E g \in [DOMAIN O -> DOMAIN s] :
         /\ \A j, k \in DOMAIN O : g[j] = g[k] => j = k
         /\ \A j \in DOMAIN O : O[j] = s[g[j]] /\ s[g[j]].pid # p
         /\ \A i \in DOMAIN s : s[i].pid # p => \E j \in DOMAIN O : g[j] = i
  <2>1. \A j, k \in 1 .. n : f[j] = f[k] => j = k
    BY <1>4, <1>8
  <2>2. \A j \in 1 .. n : O[j] = s[f[j]] /\ s[f[j]].pid # p
    BY <1>1, <1>8
  <2>3. \A i \in DOMAIN s : s[i].pid # p => \E j \in 1 .. n : f[j] = i
    BY <1>1, <1>4, <1>8
  <2>4. f \in [DOMAIN O -> DOMAIN s]
    BY <1>6, <1>7
  <2> WITNESS f \in [DOMAIN O -> DOMAIN s]
  <2> QED
    BY <1>6, <2>1, <2>2, <2>3
<1> QED
  BY <1>5, <1>9 DEF O

\* Numbers of a set below k, when the set is an interval from 1.
LEMMA BelowIs ==
  ASSUME NEW k \in Nat \ {0}
  PROVE  IsFiniteSet(1 .. k - 1) /\ Cardinality(1 .. k - 1) = k - 1
<1>1. IsFiniteSet(1 .. k - 1)
      /\ Cardinality(1 .. k - 1) = IF 1 > k - 1 THEN 0 ELSE (k - 1) - 1 + 1
  BY FS_Interval
<1> QED
  BY <1>1

\* A list without an entry of p stays as it is.
LEMMA NoneTakenOut ==
  ASSUME NEW s \in Seq(Events), NEW p, \A i \in DOMAIN s : s[i].pid # p
  PROVE  OfOthers(p, s) = s
<1> DEFINE K == KeptIn(p, s)
<1>1. K = 1 .. Len(s) /\ Len(s) \in Nat /\ DOMAIN s = 1 .. Len(s)
  BY DEF KeptIn
<1>2. OfOthers(p, s) = [j \in 1 .. Cardinality(K) |-> s[Nth(K, Less, j)]]
  BY OthersAre
<1> HIDE DEF K
<1>3. Cardinality(K) = Len(s)
  <2>1. Len(s) + 1 \in Nat \ {0} /\ (Len(s) + 1) - 1 = Len(s)
    BY <1>1
  <2> QED
    BY <1>1, <2>1, BelowIs
<1>4. ASSUME NEW j \in 1 .. Len(s) PROVE Nth(K, Less, j) = j
  <2>1. j \in K /\ {y \in K : <<y, j>> \in Less} = {y \in K : y < j}
    <3>1. j \in K /\ K \in SUBSET (DOMAIN s)
      BY <1>1
    <3> QED
      BY <3>1, Positions, Zenon
  <2>2. {y \in K : y < j} = 1 .. j - 1
    BY <1>1
  <2>3. RankIn(K, Less, j) = j - 1
    <3>1. {y \in K : <<y, j>> \in Less} = 1 .. j - 1
      BY <2>1, <2>2
    <3>2. j \in Nat \ {0}
      BY <1>1
    <3> QED
      BY <3>1, <3>2, BelowIs DEF RankIn
  <2>4. Ordered(K, Less)
    BY <1>1, Positions
  <2> QED
    BY <2>1, <2>3, <2>4, NthIs
<1> QED
  BY <1>1, <1>2, <1>3, <1>4

\* A list that loses its one entry of p.
LEMMA OneTakenOut ==
  ASSUME NEW s \in Seq(Events), NEW p, NEW i \in DOMAIN s, s[i].pid = p,
         \A k \in DOMAIN s : k # i => s[k].pid # p
  PROVE  OfOthers(p, s) = RemoveAt(s, i)
<1> DEFINE K == KeptIn(p, s)
           n == Len(s)
<1>1. n \in Nat /\ DOMAIN s = 1 .. n /\ i \in 1 .. n
  OBVIOUS
<1>2. K = (1 .. n) \ {i} /\ K \in SUBSET (DOMAIN s)
  BY DEF KeptIn
<1>3. OfOthers(p, s) = [j \in 1 .. Cardinality(K) |-> s[Nth(K, Less, j)]]
  BY OthersAre
<1> HIDE DEF K, n
<1>4. \A m \in Nat : i \in 1 .. m => Cardinality((1 .. m) \ {i}) = m - 1
  <2> TAKE m \in Nat
  <2> HAVE i \in 1 .. m
  <2>1. m + 1 \in Nat \ {0} /\ (m + 1) - 1 = m
    OBVIOUS
  <2>2. IsFiniteSet(1 .. m) /\ Cardinality(1 .. m) = m
    BY <2>1, BelowIs
  <2> QED
    BY <2>2, FS_RemoveElement
<1>5. Cardinality(K) = n - 1
  BY <1>1, <1>2, <1>4
<1>6. ASSUME NEW j \in 1 .. n - 1
      PROVE  Nth(K, Less, j) = IF j < i THEN j ELSE j + 1
  <2>1. Ordered(K, Less)
    BY <1>2, Positions
  <2> DEFINE x == IF j < i THEN j ELSE j + 1
  <2>2. x \in K /\ j \in Int
    BY <1>1, <1>2
  <2>3. RankIn(K, Less, x) = j - 1
    <3>1. RankIn(K, Less, x) = Cardinality({y \in K : y < x})
      <4>1. {y \in K : <<y, x>> \in Less} = {y \in K : y < x}
        <5> HIDE DEF x
        <5> QED
          BY <1>2, <2>2, Positions
      <4> QED
        BY <4>1 DEF RankIn
    <3>2. CASE j < i
      <4>1. {y \in K : y < x} = 1 .. j - 1 /\ j \in Nat \ {0}
        BY <1>1, <1>2, <3>2
      <4> QED
        BY <3>1, <4>1, BelowIs
    <3>3. CASE ~ j < i
      <4>1. {y \in K : y < x} = (1 .. j) \ {i} /\ j \in Nat /\ i \in 1 .. j
        BY <1>1, <1>2, <3>3
      <4> QED
        BY <1>4, <3>1, <4>1
    <3> QED
      BY <3>2, <3>3
  <2> HIDE DEF x
  <2>4. Nth(K, Less, j) = x
    BY <2>1, <2>2, <2>3, NthIs
  <2> QED
    BY <2>4 DEF x
<1>7. OfOthers(p, s) = [j \in 1 .. n - 1 |-> IF j < i THEN s[j] ELSE s[j + 1]]
  BY <1>3, <1>5, <1>6
<1>8. RemoveAt(s, i) = [j \in 1 .. n - 1 |-> IF j < i THEN s[j] ELSE s[j + 1]]
  <2> DEFINE a == SubSeq(s, 1, i - 1)
             b == SubSeq(s, i + 1, n)
  <2>1. /\ a \in Seq(Events) /\ Len(a) = i - 1
        /\ \A j \in 1 .. i - 1 : a[j] = s[j]
    BY <1>1 DEF n
  <2>2. /\ b \in Seq(Events) /\ Len(b) = n - i
        /\ \A j \in 1 .. n - i : b[j] = s[j + i]
    BY <1>1 DEF n
  <2> HIDE DEF a, b
  <2>3. /\ DOMAIN (a \o b) = 1 .. n - 1 /\ a \o b \in Seq(Events)
        /\ \A j \in 1 .. n - 1 : (a \o b)[j] = IF j < i THEN a[j] ELSE b[j - (i - 1)]
    <3>1. /\ a \o b \in Seq(Events) /\ DOMAIN (a \o b) = 1 .. Len(a) + Len(b)
          /\ \A j \in 1 .. Len(a) + Len(b) :
                (a \o b)[j] = IF j <= Len(a) THEN a[j] ELSE b[j - Len(a)]
      <4>1. \A u, v \in Seq(Events) :
               /\ u \o v \in Seq(Events) /\ DOMAIN (u \o v) = 1 .. Len(u) + Len(v)
               /\ \A j \in 1 .. Len(u) + Len(v) :
                     (u \o v)[j] = IF j <= Len(u) THEN u[j] ELSE v[j - Len(u)]
        OBVIOUS
      <4> QED
        BY <2>1, <2>2, <4>1, Zenon
    <3>2. Len(a) + Len(b) = n - 1
      BY <1>1, <2>1, <2>2
    <3>3. \A j \in 1 .. n - 1 : j <= i - 1 <=> j < i
      BY <1>1
    <3> QED
      BY <2>1, <3>1, <3>2, <3>3
  <2>4. \A j \in 1 .. n - 1 : /\ j < i => j \in 1 .. i - 1
                             /\ (~ j < i => /\ j - (i - 1) \in 1 .. n - i
                                            /\ (j - (i - 1)) + i = j + 1)
    BY <1>1
  <2>5. \A j \in 1 .. n - 1 : (a \o b)[j] = IF j < i THEN s[j] ELSE s[j + 1]
    BY <2>1, <2>2, <2>3, <2>4
  <2>6. a \o b = [j \in 1 .. n - 1 |-> IF j < i THEN s[j] ELSE s[j + 1]]
    <3>1. \A c \in Seq(Events) : c = [j \in DOMAIN c |-> c[j]]
      OBVIOUS
    <3>2. a \o b = [j \in 1 .. n - 1 |-> (a \o b)[j]]
      BY <2>3, <3>1
    <3> QED
      BY <2>5, <3>2
  <2> QED
    BY <2>6 DEF RemoveAt, a, b, n
<1> QED
  BY <1>7, <1>8

-----------------------------------------------------------------------------
(* The processes of a list.                                                *)

LEMMA NoPids == PidsOf(<<>>) = {} /\ Once(<<>>)
  BY DEF PidsOf, Once

LEMMA OnePid ==
  ASSUME NEW e \in Events
  PROVE  PidsOf(<<e>>) = {e.pid} /\ Once(<<e>>) /\ <<e>> \in Seq(Events)
  BY DEF PidsOf, Once

LEMMA PidsJoin ==
  ASSUME NEW a \in Seq(Events), NEW b \in Seq(Events)
  PROVE  /\ PidsOf(a \o b) = PidsOf(a) \cup PidsOf(b) /\ a \o b \in Seq(Events)
         /\ Once(a) /\ Once(b) /\ PidsOf(a) \cap PidsOf(b) = {} => Once(a \o b)
<1>1. /\ a \o b \in Seq(Events) /\ DOMAIN (a \o b) = 1 .. Len(a) + Len(b)
      /\ Len(a) \in Nat /\ Len(b) \in Nat
      /\ DOMAIN a = 1 .. Len(a) /\ DOMAIN b = 1 .. Len(b)
      /\ \A i \in 1 .. Len(a) : (a \o b)[i] = a[i] /\ i \in 1 .. Len(a) + Len(b)
      /\ \A i \in 1 .. Len(b) : /\ (a \o b)[i + Len(a)] = b[i]
                                /\ i + Len(a) \in 1 .. Len(a) + Len(b)
  OBVIOUS
<1> DEFINE c == a \o b
           m == Len(a)
           n == Len(b)
<1>2. \A k \in 1 .. m + n : \/ k \in 1 .. m
                            \/ k - m \in 1 .. n /\ c[k] = b[k - m]
  <2> TAKE k \in 1 .. m + n
  <2>1. k \in 1 .. m \/ (k - m \in 1 .. n /\ (k - m) + m = k)
    BY <1>1
  <2> HIDE DEF c, m, n
  <2> QED
    BY <1>1, <2>1 DEF c, m, n
<1>3. PidsOf(c) = PidsOf(a) \cup PidsOf(b)
  <2>1. PidsOf(c) \in SUBSET (PidsOf(a) \cup PidsOf(b))
    <3>1. \A k \in DOMAIN c : c[k].pid \in PidsOf(a) \cup PidsOf(b)
      BY <1>1, <1>2 DEF PidsOf
    <3> HIDE DEF c
    <3> QED
      BY <3>1 DEF PidsOf
  <2>2. PidsOf(a) \in SUBSET PidsOf(c)
    <3>1. \A k \in DOMAIN a : k \in DOMAIN c /\ c[k].pid = a[k].pid
      BY <1>1
    <3> HIDE DEF c
    <3> QED
      BY <3>1 DEF PidsOf
  <2>3. PidsOf(b) \in SUBSET PidsOf(c)
    <3>1. \A k \in DOMAIN b : k + m \in DOMAIN c /\ c[k + m].pid = b[k].pid
      BY <1>1
    <3> HIDE DEF c
    <3> QED
      BY <3>1 DEF PidsOf
  <2> QED
    BY <2>1, <2>2, <2>3
<1>4. ASSUME Once(a), Once(b), PidsOf(a) \cap PidsOf(b) = {} PROVE Once(c)
  <2> SUFFICES ASSUME NEW i \in DOMAIN c, NEW j \in DOMAIN c, c[i].pid = c[j].pid
               PROVE  i = j
    BY DEF Once
  <2>1. i \in 1 .. m + n /\ j \in 1 .. m + n
    BY <1>1
  <2>2. CASE i \in 1 .. m /\ j \in 1 .. m
    BY <1>1, <1>4, <2>2 DEF Once
  <2>3. CASE i \notin 1 .. m /\ j \notin 1 .. m
    <3>1. i - m \in 1 .. n /\ j - m \in 1 .. n /\ b[i - m].pid = b[j - m].pid
      BY <1>2, <2>1, <2>3
    <3>2. i - m = j - m
      BY <1>1, <1>4, <3>1 DEF Once
    <3> QED
      BY <1>1, <2>1, <3>2
  <2>4. ASSUME NEW x \in 1 .. m, NEW y \in 1 .. m + n, y \notin 1 .. m PROVE c[x].pid # c[y].pid
    <3>1. c[x].pid \in PidsOf(a)
      BY <1>1 DEF PidsOf
    <3>2. y - m \in 1 .. n /\ c[y] = b[y - m]
      BY <1>2, <2>4
    <3>3. c[y].pid \in PidsOf(b)
      BY <1>1, <3>2 DEF PidsOf
    <3> QED
      BY <1>4, <3>1, <3>3
  <2> QED
    BY <2>1, <2>2, <2>3, <2>4
<1> QED
  BY <1>1, <1>3, <1>4

LEMMA PidsSplit ==
  ASSUME NEW s \in Seq(Events), s # <<>>
  PROVE  /\ Head(s) \in Events /\ Tail(s) \in Seq(Events)
         /\ PidsOf(s) = {Head(s).pid} \cup PidsOf(Tail(s))
         /\ Once(s) => Once(Tail(s)) /\ Head(s).pid \notin PidsOf(Tail(s))
<1> DEFINE h == Head(s)
           r == Tail(s)
           n == Len(s)
<1>1. /\ n \in Nat \ {0} /\ DOMAIN s = 1 .. n /\ h = s[1] /\ h \in Events
      /\ r \in Seq(Events) /\ DOMAIN r = 1 .. n - 1 /\ \A i \in 1 .. n - 1 : r[i] = s[i + 1]
  OBVIOUS
<1> HIDE DEF h, r, n
<1>2. 1 \in 1 .. n /\ \A i \in 1 .. n - 1 : i + 1 \in 1 .. n /\ i + 1 # 1
  BY <1>1
<1>3. \A k \in 1 .. n : k = 1 \/ (k - 1 \in 1 .. n - 1 /\ r[k - 1] = s[k])
  <2> TAKE k \in 1 .. n
  <2>1. k = 1 \/ (k - 1 \in 1 .. n - 1 /\ (k - 1) + 1 = k)
    BY <1>1
  <2> QED
    BY <1>1, <2>1
<1>4. PidsOf(s) = {h.pid} \cup PidsOf(r)
  <2>1. \A k \in 1 .. n : s[k].pid \in {h.pid} \cup PidsOf(r)
    BY <1>1, <1>3 DEF PidsOf
  <2>2. \A k \in 1 .. n - 1 : r[k].pid \in PidsOf(s)
    BY <1>1, <1>2 DEF PidsOf
  <2>3. h.pid \in PidsOf(s)
    BY <1>1, <1>2 DEF PidsOf
  <2>4. PidsOf(s) = {s[k].pid : k \in 1 .. n} /\ PidsOf(r) = {r[k].pid : k \in 1 .. n - 1}
    BY <1>1 DEF PidsOf
  <2> QED
    BY <2>1, <2>2, <2>3, <2>4
<1>5. ASSUME Once(s) PROVE Once(r) /\ h.pid \notin PidsOf(r)
  <2>1. ASSUME NEW i \in 1 .. n - 1, NEW j \in 1 .. n - 1, r[i].pid = r[j].pid PROVE i = j
    <3>1. i + 1 \in DOMAIN s /\ j + 1 \in DOMAIN s /\ s[i + 1].pid = s[j + 1].pid
      BY <1>1, <1>2, <2>1
    <3>2. i + 1 = j + 1
      BY <1>5, <3>1 DEF Once
    <3> QED
      BY <1>1, <3>2
  <2>2. ASSUME NEW i \in 1 .. n - 1 PROVE r[i].pid # h.pid
    <3>1. i + 1 \in DOMAIN s /\ 1 \in DOMAIN s /\ i + 1 # 1
          /\ r[i] = s[i + 1] /\ h = s[1]
      BY <1>1, <1>2
    <3> QED
      BY <1>5, <3>1 DEF Once
  <2> QED
    BY <1>1, <2>1, <2>2 DEF Once, PidsOf
<1> QED
  BY <1>1, <1>4, <1>5 DEF h, r

LEMMA PidsOfOthers ==
  ASSUME NEW s \in Seq(Events), NEW p
  PROVE  /\ PidsOf(OfOthers(p, s)) = PidsOf(s) \ {p}
         /\ Once(s) => Once(OfOthers(p, s))
<1> DEFINE O == OfOthers(p, s)
<1>1. PICK f \in [DOMAIN O -> DOMAIN s] :
         /\ \A j, k \in DOMAIN O : f[j] = f[k] => j = k
         /\ \A j \in DOMAIN O : O[j] = s[f[j]] /\ s[f[j]].pid # p
         /\ \A i \in DOMAIN s : s[i].pid # p => \E j \in DOMAIN O : f[j] = i
  BY OthersKept
<1> HIDE DEF O
<1>2. PidsOf(O) \in SUBSET (PidsOf(s) \ {p})
  <2>1. \A j \in DOMAIN O : O[j].pid \in PidsOf(s) \ {p}
    BY <1>1 DEF PidsOf
  <2> QED
    BY <2>1 DEF PidsOf
<1>3. ASSUME NEW i \in DOMAIN s, s[i].pid # p PROVE s[i].pid \in PidsOf(O)
  <2>1. PICK j \in DOMAIN O : f[j] = i
    BY <1>1, <1>3
  <2>2. O[j].pid = s[i].pid
    BY <1>1, <2>1
  <2> QED
    BY <2>2 DEF PidsOf
<1>4. PidsOf(s) \ {p} \in SUBSET PidsOf(O)
  BY <1>3 DEF PidsOf
<1>5. ASSUME Once(s) PROVE Once(O)
  BY <1>1, <1>5 DEF Once
<1> QED
  BY <1>2, <1>4, <1>5 DEF O

\* A list put in another order.
Rearranged(s, x) ==
    \E f \in [DOMAIN s -> DOMAIN s] :
       /\ \A j, k \in DOMAIN s : f[j] = f[k] => j = k
       /\ {f[j] : j \in DOMAIN f} = DOMAIN s
       /\ x = [j \in DOMAIN s |-> s[f[j]]]

LEMMA RearrangedPids ==
  ASSUME NEW s \in Seq(Events), NEW x, Rearranged(s, x)
  PROVE  /\ x \in Seq(Events) /\ PidsOf(x) = PidsOf(s)
         /\ Once(s) => Once(x)
         /\ x = <<>> <=> s = <<>>
<1>1. PICK f \in [DOMAIN s -> DOMAIN s] :
         /\ \A j, k \in DOMAIN s : f[j] = f[k] => j = k
         /\ {f[j] : j \in DOMAIN f} = DOMAIN s
         /\ x = [j \in DOMAIN s |-> s[f[j]]]
  BY DEF Rearranged
<1>2. DOMAIN x = DOMAIN s /\ \A j \in DOMAIN s : x[j] = s[f[j]] /\ f[j] \in DOMAIN s
  BY <1>1
<1>3. x \in Seq(Events)
  <2>1. DOMAIN s = 1 .. Len(s) /\ Len(s) \in Nat
    OBVIOUS
  <2>2. \A j \in DOMAIN s : s[f[j]] \in Events
    BY <1>2
  <2> QED
    BY <1>1, <2>1, <2>2
<1>4. PidsOf(x) = PidsOf(s)
  <2>1. \A j \in DOMAIN s : x[j].pid \in PidsOf(s)
    BY <1>2 DEF PidsOf
  <2>2. ASSUME NEW i \in DOMAIN s PROVE s[i].pid \in PidsOf(x)
    <3>1. PICK j \in DOMAIN s : f[j] = i
      BY <1>1
    <3>2. x[j].pid = s[i].pid /\ j \in DOMAIN x
      BY <1>2, <3>1
    <3> QED
      BY <3>2 DEF PidsOf
  <2>3. PidsOf(x) = {x[j].pid : j \in DOMAIN s} /\ PidsOf(s) = {s[j].pid : j \in DOMAIN s}
    BY <1>2 DEF PidsOf
  <2> QED
    BY <2>1, <2>2, <2>3
<1>5. ASSUME Once(s) PROVE Once(x)
  BY <1>1, <1>2, <1>5 DEF Once
<1>6. x = <<>> <=> s = <<>>
  <2>1. \A y, z \in Seq(Events) : DOMAIN y = DOMAIN z => (y = <<>> <=> z = <<>>)
    <3> TAKE y \in Seq(Events), z \in Seq(Events)
    <3>1. (y = <<>> <=> DOMAIN y = {}) /\ (z = <<>> <=> DOMAIN z = {})
      BY EmptySeq
    <3> QED
      BY <3>1
  <2> QED
    BY <1>2, <1>3, <2>1
<1> QED
  BY <1>3, <1>4, <1>5, <1>6

\* sort_by_key is a stable sort: it puts the list in another order.
LEMMA SortedIs ==
  ASSUME NEW s \in Seq(Events), NEW rank \in [Pids -> Nat]
  PROVE  Rearranged(s, Sorted(s, rank))
<1> DEFINE D == DOMAIN s
           Before(i, k) == \/ rank[s[i].pid] < rank[s[k].pid]
                           \/ rank[s[i].pid] = rank[s[k].pid] /\ i < k
           R == {z \in D \X D : Before(z[1], z[2])}
           f == [j \in D |-> Nth(D, R, j)]
<1>1. D = 1 .. Len(s) /\ Len(s) \in Nat
  OBVIOUS
<1>2. \A i \in D : rank[s[i].pid] \in Nat /\ i \in Nat
  <2> TAKE i \in D
  <2>1. s[i] \in Events /\ i \in Nat
    BY <1>1
  <2>2. s[i].pid \in Pids
    BY <2>1 DEF Events
  <2> QED
    BY <2>1, <2>2
<1>3. \A i, k \in D : <<i, k>> \in R <=> Before(i, k)
  OBVIOUS
<1>4. /\ \A i \in D : ~ Before(i, i)
      /\ \A i, k, l \in D : Before(i, k) /\ Before(k, l) => Before(i, l)
      /\ \A i, k \in D : i # k => Before(i, k) \/ Before(k, i)
  <2> DEFINE r(i) == rank[s[i].pid]
  <2>1. \A i \in D : r(i) \in Nat /\ i \in Nat
    BY <1>2
  <2>2. \A i, k : Before(i, k) <=> (r(i) < r(k) \/ (r(i) = r(k) /\ i < k))
    OBVIOUS
  <2> HIDE DEF r, Before, D
  <2> QED
    BY <2>1, <2>2
<1>5. Sorted(s, rank) =
         [j \in D |-> s[CHOOSE k \in D : Cardinality({i \in D : Before(i, k)}) = j - 1]]
  BY DEF Sorted
<1> HIDE DEF R, Before
<1>6. \A k \in D : {i \in D : Before(i, k)} = {i \in D : <<i, k>> \in R}
  BY <1>3
<1> HIDE DEF D
<1>7. \A j : (CHOOSE k \in D : Cardinality({i \in D : Before(i, k)}) = j - 1) = Nth(D, R, j)
  <2> TAKE j
  <2>1. \A k \in D : (Cardinality({i \in D : Before(i, k)}) = j - 1 <=> RankIn(D, R, k) = j - 1)
    BY <1>6 DEF RankIn
  <2> QED
    BY <2>1 DEF Nth
<1>8. Sorted(s, rank) = [j \in D |-> s[Nth(D, R, j)]]
  BY <1>5, <1>7
<1>9. IsFiniteSet(D) /\ Cardinality(D) = Len(s)
  <2>1. Len(s) + 1 \in Nat \ {0} /\ (Len(s) + 1) - 1 = Len(s)
    BY <1>1
  <2> QED
    BY <1>1, <2>1, BelowIs
<1>10. Ordered(D, R)
  BY <1>3, <1>4, <1>9 DEF Ordered
<1>11. /\ \A j \in D : Nth(D, R, j) \in D
       /\ \A j, k \in D : Nth(D, R, j) = Nth(D, R, k) => j = k
       /\ \A x \in D : \E j \in D : Nth(D, R, j) = x
  <2>1. D = 1 .. Cardinality(D)
    BY <1>1, <1>9
  <2> HIDE DEF R
  <2>2. /\ \A j \in 1 .. Cardinality(D) : Nth(D, R, j) \in D
        /\ \A j, k \in 1 .. Cardinality(D) : Nth(D, R, j) = Nth(D, R, k) => j = k
        /\ \A x \in D : \E j \in 1 .. Cardinality(D) : Nth(D, R, j) = x
    BY <1>10, NthIs
  <2> QED
    BY <2>1, <2>2
<1>12. f \in [D -> D] /\ \A j \in D : f[j] = Nth(D, R, j)
  BY <1>11
<1> HIDE DEF f
<1>13. {f[j] : j \in DOMAIN f} = D
  BY <1>11, <1>12
<1>14. \A j, k \in D : f[j] = f[k] => j = k
  BY <1>11, <1>12
<1>15. Sorted(s, rank) = [j \in D |-> s[f[j]]]
  BY <1>8, <1>12
<1> QED
  BY <1>12, <1>13, <1>14, <1>15 DEF Rearranged, D

\* How often p occurs in a list where no process occurs twice.
LEMMA CountIs ==
  ASSUME NEW s \in Seq(Events), NEW p, Once(s)
  PROVE  CountOf(p, s) = IF p \in PidsOf(s) THEN 1 ELSE 0
<1> DEFINE D == {i \in DOMAIN s : s[i].pid = p}
<1>1. CASE p \notin PidsOf(s)
  <2>1. D = {}
    BY <1>1 DEF PidsOf
  <2> QED
    BY <1>1, <2>1, FS_EmptySet DEF CountOf
<1>2. CASE p \in PidsOf(s)
  <2>1. PICK i \in DOMAIN s : s[i].pid = p
    BY <1>2 DEF PidsOf
  <2>2. D = {i}
    BY <2>1 DEF Once
  <2>3. Cardinality({i}) = 1
    BY FS_Singleton
  <2> QED
    BY <1>2, <2>2, <2>3 DEF CountOf
<1> QED
  BY <1>1, <1>2

LEMMA Counts ==
  ASSUME NEW s \in Seq(Events), NEW p
  PROVE  CountOf(p, s) > 0 <=> p \in PidsOf(s)
<1> DEFINE D == {i \in DOMAIN s : s[i].pid = p}
<1>1. D \in SUBSET (1 .. Len(s)) /\ Len(s) \in Nat
  OBVIOUS
<1>2. IsFiniteSet(1 .. Len(s))
  BY <1>1, FS_Interval
<1>3. IsFiniteSet(D)
  BY <1>1, <1>2, FS_Subset
<1>4. D = {} <=> p \notin PidsOf(s)
  BY DEF PidsOf
<1> HIDE DEF D
<1>5. Cardinality(D) \in Nat /\ (Cardinality(D) = 0 <=> D = {})
  BY <1>3, FS_CardinalityType, FS_EmptySet
<1>6. CountOf(p, s) = Cardinality(D)
  BY DEF CountOf, D
<1> QED
  BY <1>4, <1>5, <1>6

-----------------------------------------------------------------------------
(* The processes of the queue.                                             *)

Queues == [Times -> Seq(Events)]

\* The list of time t gets the processes of N as well.
LEMMA Grows ==
  ASSUME NEW q \in Queues, NEW b, NEW b2, NEW t \in Times, NEW x, NEW N,
         Single(q, b), PidsOf(x) = PidsOf(q[t]) \cup N, Once(x),
         \A p \in N : ~ In(q, p), Once(b2), PidsOf(b2) \in SUBSET PidsOf(b),
         N \cap PidsOf(b2) = {}
  PROVE  /\ Single([q EXCEPT ![t] = x], b2)
         /\ \A p : In([q EXCEPT ![t] = x], p) <=> In(q, p) \/ p \in N
<1> DEFINE r == [q EXCEPT ![t] = x]
<1>1. r[t] = x /\ \A u \in Times : u # t => r[u] = q[u]
  BY DEF Queues
<1> HIDE DEF r
<1>2. \A u \in Times : /\ PidsOf(r[u]) = IF u = t THEN PidsOf(q[t]) \cup N ELSE PidsOf(q[u])
                       /\ Once(r[u])
  BY <1>1 DEF Single
<1>3. \A u \in Times : N \cap PidsOf(q[u]) = {}
  BY DEF In
<1>4. \A u, v \in Times : u # v => PidsOf(r[u]) \cap PidsOf(r[v]) = {}
  <2> SUFFICES ASSUME NEW u \in Times, NEW v \in Times, u # v,
                      NEW p, p \in PidsOf(r[u]), p \in PidsOf(r[v])
               PROVE  FALSE
    OBVIOUS
  <2>1. PidsOf(q[u]) \cap PidsOf(q[v]) = {}
    BY DEF Single
  <2> QED
    BY <1>2, <1>3, <2>1
<1>5. \A u \in Times : PidsOf(r[u]) \cap PidsOf(b2) = {}
  BY <1>2 DEF Single
<1>6. Single(r, b2)
  BY <1>2, <1>4, <1>5 DEF Single
<1>7. \A p : In(r, p) <=> In(q, p) \/ p \in N
  BY <1>2 DEF In
<1> QED
  BY <1>6, <1>7 DEF r

\* The list of time t loses the processes of N, which may be taken.
LEMMA Shrinks ==
  ASSUME NEW q \in Queues, NEW b, NEW b2, NEW t \in Times, NEW x, NEW N,
         Single(q, b), PidsOf(q[t]) = PidsOf(x) \cup N, PidsOf(x) \cap N = {}, Once(x),
         Once(b2), PidsOf(b2) \in SUBSET (PidsOf(b) \cup N)
  PROVE  /\ Single([q EXCEPT ![t] = x], b2)
         /\ \A p : In([q EXCEPT ![t] = x], p) <=> In(q, p) /\ p \notin N
<1> DEFINE r == [q EXCEPT ![t] = x]
<1>1. r[t] = x /\ \A u \in Times : u # t => r[u] = q[u]
  BY DEF Queues
<1> HIDE DEF r
<1>2. \A u \in Times : PidsOf(q[u]) \cap N = IF u = t THEN N ELSE {}
  <2> TAKE u \in Times
  <2>1. CASE u = t
    BY <2>1
  <2>2. CASE u # t
    <3>1. PidsOf(q[u]) \cap PidsOf(q[t]) = {}
      BY <2>2 DEF Single
    <3> QED
      BY <2>2, <3>1
  <2> QED
    BY <2>1, <2>2
<1>3. \A u \in Times : PidsOf(r[u]) = PidsOf(q[u]) \ N /\ Once(r[u])
  <2> TAKE u \in Times
  <2>1. CASE u = t
    BY <1>1, <2>1
  <2>2. CASE u # t
    BY <1>1, <1>2, <2>2 DEF Single
  <2> QED
    BY <2>1, <2>2
<1>4. \A u, v \in Times : u # v => PidsOf(r[u]) \cap PidsOf(r[v]) = {}
  <2> SUFFICES ASSUME NEW u \in Times, NEW v \in Times, u # v,
                      NEW p, p \in PidsOf(r[u]), p \in PidsOf(r[v])
               PROVE  FALSE
    OBVIOUS
  <2>1. PidsOf(q[u]) \cap PidsOf(q[v]) = {}
    BY DEF Single
  <2> QED
    BY <1>3, <2>1
<1>5. \A u \in Times : PidsOf(r[u]) \cap PidsOf(b2) = {}
  <2> SUFFICES ASSUME NEW u \in Times, NEW p, p \in PidsOf(r[u]), p \in PidsOf(b2)
               PROVE  FALSE
    OBVIOUS
  <2>1. p \in PidsOf(q[u]) /\ p \in PidsOf(b)
    BY <1>3
  <2> QED
    BY <2>1 DEF Single
<1>6. Single(r, b2)
  BY <1>3, <1>4, <1>5 DEF Single
<1>7. \A p : In(r, p) <=> In(q, p) /\ p \notin N
  BY <1>3 DEF In
<1> QED
  BY <1>6, <1>7 DEF r

\* No entry of p is left.
LEMMA Cancelled ==
  ASSUME NEW q \in Queues, NEW b, NEW p, Single(q, b)
  PROVE  /\ Single([t \in Times |-> OfOthers(p, q[t])], b)
         /\ \A o : In([t \in Times |-> OfOthers(p, q[t])], o) <=> In(q, o) /\ o # p
<1> DEFINE r == [t \in Times |-> OfOthers(p, q[t])]
<1>1. \A t \in Times : q[t] \in Seq(Events) /\ Once(q[t])
  BY DEF Queues, Single
<1>2. \A t \in Times : r[t] = OfOthers(p, q[t])
  OBVIOUS
<1> HIDE DEF r
<1>3. \A t \in Times : PidsOf(r[t]) = PidsOf(q[t]) \ {p} /\ Once(r[t])
  BY <1>1, <1>2, PidsOfOthers
<1>4. \A t, u \in Times : t # u => PidsOf(r[t]) \cap PidsOf(r[u]) = {}
  <2> SUFFICES ASSUME NEW t \in Times, NEW u \in Times, t # u,
                      NEW o, o \in PidsOf(r[t]), o \in PidsOf(r[u])
               PROVE  FALSE
    OBVIOUS
  <2> QED
    BY <1>3 DEF Single
<1>5. \A t \in Times : PidsOf(r[t]) \cap PidsOf(b) = {}
  BY <1>3 DEF Single
<1>6. Single(r, b)
  BY <1>3, <1>4, <1>5 DEF Single
<1>7. \A o : In(r, o) <=> In(q, o) /\ o # p
  BY <1>3 DEF In
<1> QED
  BY <1>6, <1>7 DEF r

\* The first time after an entry for time t.
LEMMA FirstGrows ==
  ASSUME NEW q \in Queues, NEW t \in Times, NEW x, x # <<>>
  PROVE  First([q EXCEPT ![t] = x]) = IF t < First(q) THEN t ELSE First(q)
<1> DEFINE r == [q EXCEPT ![t] = x]
           B == Busy(q)
           f == First(q)
<1>1. Busy(r) = B \cup {t}
  BY DEF Queues, Busy
<1>2. /\ f \in Times \cup {NoTime} /\ f \in Nat /\ \A u \in Times : u < f => q[u] = <<>>
      /\ f \in Times => f \in B
  BY FirstIs DEF Busy
<1>3. B \in SUBSET Times /\ Times \in SUBSET Nat /\ t \in Nat /\ t < NoTime
      /\ \A u \in B : f <= u /\ u \in Nat /\ u \in Int
  <2>1. Times \in SUBSET Nat /\ t \in Nat /\ t < NoTime
    BY TimesAre DEF NoTime
  <2>2. \A u \in B : ~ u < f /\ u \in Nat /\ u \in Int
    BY <1>2, <2>1 DEF Busy
  <2> QED
    BY <1>2, <2>1, <2>2 DEF Busy
<1> HIDE DEF r, B, f
<1> DEFINE m == IF t < f THEN t ELSE f
<1>4. m \in Busy(r)
  <2>1. CASE t < f
    BY <1>1, <2>1
  <2>2. CASE ~ t < f
    <3>1. f # NoTime
      BY <1>2, <1>3, <2>2
    <3> QED
      BY <1>1, <1>2, <2>2, <3>1
  <2> QED
    BY <2>1, <2>2
<1>5. \A u \in Busy(r) : m <= u
  <2> TAKE u \in Busy(r)
  <2>1. f \in Nat /\ t \in Nat
    BY <1>2, <1>3
  <2>2. CASE u = t
    BY <2>1, <2>2
  <2>3. CASE u \in B
    <3>1. f <= u /\ u \in Nat
      BY <1>3, <2>3
    <3> QED
      BY <2>1, <3>1
  <2> QED
    BY <1>1, <2>2, <2>3
<1>6. Busy(r) \in SUBSET Int
  <2>1. \A u \in Busy(r) : u \in Int
    <3>1. t \in Int /\ \A u \in B : u \in Int
      BY <1>3
    <3> QED
      BY <1>1, <3>1, Zenon
  <2> QED
    BY <2>1
<1> HIDE DEF m
<1>7. Min(Busy(r)) = m
  BY <1>4, <1>5, <1>6, MinIs
<1>8. First(r) = m
  BY <1>4, <1>7 DEF First, MinOr
<1> QED
  BY <1>8 DEF m, r, f

\* As many lists that are not empty: the same first time.
LEMMA FirstSame ==
  ASSUME NEW q \in Queues, NEW t \in Times, NEW x, x = <<>> <=> q[t] = <<>>
  PROVE  First([q EXCEPT ![t] = x]) = First(q)
<1>1. Busy([q EXCEPT ![t] = x]) = Busy(q)
  BY DEF Queues, Busy
<1> QED
  BY <1>1 DEF First

-----------------------------------------------------------------------------
(* The parts of an action.                                                 *)

LEMMA IInvKept ==
  ASSUME IInv, time' \in Times, currentTime' \in Times, currentTime' <= time',
         Shape(wheel', bitmap', overflow', currentTime'),
         occupiedWords' = NonZeroWords(bitmap'),
         \A t \in Times : t < time' => Q'[t] = <<>>,
         nextCache' \in {Unknown, First(Q')},
         Single(Q', batch'), Counted(Q', pidCounts'), pidCounts' \in [Pids -> Nat],
         frontTime' \in Times, frontPending' \in Nat, lastPopFront' \in BOOLEAN,
         batch' \in Seq(Events), running' \in Events \cup {NoEvent}
  PROVE  IInv'
<1>1. bitmap' \in SUBSET Slots
  BY DEF Shape
<1>2. occupiedWords' \in 0 .. Words
  BY <1>1, WordsInUse
<1>3. nextCache' \in Times \cup {NoTime, Unknown}
  BY FirstIs
<1>4. wheel' \in [Slots -> Seq(Events)] /\ overflow' \in [Times -> Seq(Events)]
  BY DEF Shape
<1>5. TypeOK'
  BY <1>1, <1>2, <1>3, <1>4 DEF TypeOK
<1> QED
  BY <1>5 DEF IInv

\* Entries put at the back, or at the front, of the list of t.
LEMMA PutIs ==
  ASSUME IInv, NEW t \in Times, t >= time, NEW es \in Seq(Events), es # <<>>,
         PutBack(t, es) \/ PutFront(t, es), currentTime' = currentTime
  PROVE  /\ Shape(wheel', bitmap', overflow', currentTime')
         /\ PutBack(t, es) => Q' = [Q EXCEPT ![t] = Q[t] \o es]
         /\ PutFront(t, es) => Q' = [Q EXCEPT ![t] = es \o Q[t]]
<1> DEFINE c == currentTime
<1>1. /\ c \in Times /\ t >= c /\ Q[t] \in Seq(Events)
      /\ Shape(wheel, bitmap, overflow, c)
      /\ Q[t] = IF t < c + WheelSize THEN wheel[Slot(t)] ELSE overflow[t]
  BY IInvParts, TimesAre DEF Q, QueueOf, ListAt
<1>2. ASSUME NEW x \in Seq(Events), x # <<>>,
             \/ /\ t < c + WheelSize
                /\ wheel' = [wheel EXCEPT ![Slot(t)] = x]
                /\ bitmap' = bitmap \cup {Slot(t)} /\ overflow' = overflow
             \/ /\ ~ t < c + WheelSize
                /\ overflow' = [overflow EXCEPT ![t] = x]
                /\ wheel' = wheel /\ bitmap' = bitmap
      PROVE  /\ Shape(wheel', bitmap', overflow', currentTime')
             /\ Q' = [Q EXCEPT ![t] = x]
  <2>1. Replaced(wheel, bitmap, overflow, c, t, x, wheel', bitmap', overflow')
    BY <1>2 DEF Replaced
  <2>2. /\ Shape(wheel', bitmap', overflow', c)
        /\ QueueOf(wheel', overflow', c) = [QueueOf(wheel, overflow, c) EXCEPT ![t] = x]
    BY <1>1, <1>2, <2>1, ReplaceOne
  <2> QED
    BY <2>2 DEF Q
<1>3. ASSUME PutBack(t, es)
      PROVE  /\ Shape(wheel', bitmap', overflow', currentTime')
             /\ Q' = [Q EXCEPT ![t] = Q[t] \o es]
  <2> DEFINE x == Q[t] \o es
  <2>1. x \in Seq(Events) /\ x # <<>>
    BY <1>1
  <2>2. \/ /\ t < c + WheelSize
           /\ wheel' = [wheel EXCEPT ![Slot(t)] = x]
           /\ bitmap' = bitmap \cup {Slot(t)} /\ overflow' = overflow
        \/ /\ ~ t < c + WheelSize
           /\ overflow' = [overflow EXCEPT ![t] = x]
           /\ wheel' = wheel /\ bitmap' = bitmap
    BY <1>1, <1>3, SlotIn DEF PutBack, InWheel, Shape
  <2> QED
    BY <1>2, <2>1, <2>2
<1>4. ASSUME PutFront(t, es)
      PROVE  /\ Shape(wheel', bitmap', overflow', currentTime')
             /\ Q' = [Q EXCEPT ![t] = es \o Q[t]]
  <2> DEFINE x == es \o Q[t]
  <2>1. x \in Seq(Events) /\ x # <<>>
    BY <1>1
  <2>2. \/ /\ t < c + WheelSize
           /\ wheel' = [wheel EXCEPT ![Slot(t)] = x]
           /\ bitmap' = bitmap \cup {Slot(t)} /\ overflow' = overflow
        \/ /\ ~ t < c + WheelSize
           /\ overflow' = [overflow EXCEPT ![t] = x]
           /\ wheel' = wheel /\ bitmap' = bitmap
    BY <1>1, <1>4, SlotIn DEF PutFront, InWheel, Shape
  <2> QED
    BY <1>2, <2>1, <2>2
<1> QED
  BY <1>3, <1>4

\* The memo after an entry for time t.
LEMMA NarrowedIs ==
  ASSUME IInv, NEW t \in Times, NEW x, x # <<>>, Q' = [Q EXCEPT ![t] = x],
         nextCache' = Narrowed(t)
  PROVE  nextCache' \in {Unknown, First(Q')}
<1>1. First(Q') = IF t < First(Q) THEN t ELSE First(Q)
  BY IInvParts, FirstGrows DEF Queues
<1> QED
  BY <1>1 DEF IInv, Narrowed

\* Another process is counted.
LEMMA CountedMore ==
  ASSUME IInv, NEW p \in Pids, ~ In(Q, p), pidCounts' = [pidCounts EXCEPT ![p] = @ + 1],
         \A o : In(Q', o) <=> In(Q, o) \/ o \in {p}
  PROVE  Counted(Q', pidCounts') /\ pidCounts' \in [Pids -> Nat]
<1>1. pidCounts \in [Pids -> Nat] /\ Counted(Q, pidCounts)
  BY DEF IInv, TypeOK
<1> QED
  BY <1>1 DEF Counted

LEMMA MayQueueIs ==
  ASSUME IInv, OnePerPid, NEW p \in Pids, MayQueue(p)
  PROVE  ~ In(Q, p) /\ p \notin PidsOf(batch)
  BY PendingIs DEF MayQueue, InBatch, PidsOf

\* The front count of a time.
LEMMA TypesOf ==
  ASSUME IInv
  PROVE  /\ frontTime \in Times /\ frontPending \in Nat /\ lastPopFront \in BOOLEAN
         /\ running \in Events \cup {NoEvent} /\ Q \in Queues /\ Single(Q, batch)
         /\ \A t \in Times : t < time => Q[t] = <<>>
         /\ nextCache \in {Unknown, First(Q)}
         /\ Counted(Q, pidCounts) /\ pidCounts \in [Pids -> Nat]
         /\ occupiedWords = NonZeroWords(bitmap)
  BY IInvParts DEF IInv, TypeOK, Queues

LEMMA QueueIsNext == [t \in Times |-> QueueAt(t)]' = Q'
  BY DEF QueueAt, Q, QueueOf, ListAt, InWheel

-----------------------------------------------------------------------------
(* One lemma per action: it keeps the invariant and is a step of the queue. *)

LEMMA ScheduleStep ==
  ASSUME IInv, OnePerPid, NEW p \in Pids, NEW t \in Times, Schedule(p, t)
  PROVE  IInv' /\ EQ!Next
<1> DEFINE e == [pid |-> p, front |-> FALSE]
<1>1. /\ t >= time /\ nextCache' = Narrowed(t) /\ PutBack(t, <<e>>)
      /\ pidCounts' = [pidCounts EXCEPT ![p] = @ + 1]
      /\ occupiedWords' = NonZeroWords(bitmap')
      /\ UNCHANGED <<time, currentTime, frontTime, frontPending, lastPopFront, batch, running>>
      /\ ~ In(Q, p) /\ p \notin PidsOf(batch)
  BY MayQueueIs DEF Schedule
<1>2. e \in Events /\ e.pid = p
  BY DEF Events
<1> HIDE DEF e
<1>3. /\ <<e>> \in Seq(Events) /\ <<e>> # <<>> /\ PidsOf(<<e>>) = {p} /\ Once(<<e>>)
  BY <1>2, OnePid
<1> DEFINE x == Q[t] \o <<e>>
<1>4. Shape(wheel', bitmap', overflow', currentTime') /\ Q' = [Q EXCEPT ![t] = x]
  BY <1>1, <1>3, PutIs
<1>5. Q[t] \in Seq(Events) /\ Once(Q[t]) /\ p \notin PidsOf(Q[t])
  BY <1>1, TypesOf DEF Queues, Single, In
<1>6. x \in Seq(Events) /\ PidsOf(x) = PidsOf(Q[t]) \cup {p} /\ Once(x)
  BY <1>3, <1>5, PidsJoin
<1>7. x # <<>>
  BY <1>5
<1> HIDE DEF x
<1>8. Single(Q', batch) /\ \A o : In(Q', o) <=> In(Q, o) \/ o \in {p}
  <2>1. Once(batch) /\ Q \in Queues /\ Single(Q, batch)
    BY TypesOf DEF Single
  <2>2. {p} \cap PidsOf(batch) = {} /\ (\A o \in {p} : ~ In(Q, o))
        /\ PidsOf(batch) \in SUBSET PidsOf(batch)
    BY <1>1
  <2>3. /\ Single([Q EXCEPT ![t] = x], batch)
        /\ \A o : In([Q EXCEPT ![t] = x], o) <=> In(Q, o) \/ o \in {p}
    BY <1>6, <2>1, <2>2, Grows
  <2> QED
    BY <1>4, <2>3
<1>9. nextCache' \in {Unknown, First(Q')}
  BY <1>1, <1>4, <1>7, NarrowedIs
<1>10. Counted(Q', pidCounts') /\ pidCounts' \in [Pids -> Nat]
  BY <1>1, <1>8, CountedMore
<1>11. \A u \in Times : u < time' => Q'[u] = <<>>
  <2>1. \A u \in Times : u < time => u # t
    BY <1>1, IInvParts, TimesAre
  <2> QED
    BY <1>1, <1>4, <2>1, TypesOf DEF Queues
<1>12. IInv'
  BY <1>1, <1>4, <1>8, <1>9, <1>10, <1>11, TypesOf, IInvParts, IInvKept
<1>13. EQ!Schedule(t, e)
  <2>1. Append(Q[t], e) = x
    BY <1>2, <1>5 DEF x
  <2>2. Q' = [Q EXCEPT ![t] = Append(Q[t], e)]
    BY <1>4, <2>1
  <2> QED
    BY <1>1, <2>2, QueueIs, QueueIsNext DEF EQ!Schedule
<1> QED
  BY <1>2, <1>12, <1>13 DEF EQ!Next, EQ!Times, Times, EQ!Events, Events

LEMMA ScheduleFrontStep ==
  ASSUME IInv, OnePerPid, NEW p \in Pids, ScheduleFront(p)
  PROVE  IInv' /\ EQ!Next
<1> DEFINE e == [pid |-> p, front |-> TRUE]
<1>1. /\ nextCache' = Narrowed(time) /\ PutFront(time, <<e>>)
      /\ pidCounts' = [pidCounts EXCEPT ![p] = @ + 1]
      /\ occupiedWords' = NonZeroWords(bitmap') /\ frontTime' = time
      /\ frontPending' = (IF frontTime # time THEN 0 ELSE frontPending) + 1
      /\ UNCHANGED <<time, currentTime, lastPopFront, batch, running>>
      /\ ~ In(Q, p) /\ p \notin PidsOf(batch)
  BY MayQueueIs DEF ScheduleFront
<1>2. e \in Events /\ e.pid = p
  BY DEF Events
<1> HIDE DEF e
<1>3. /\ <<e>> \in Seq(Events) /\ <<e>> # <<>> /\ PidsOf(<<e>>) = {p} /\ Once(<<e>>)
  BY <1>2, OnePid
<1> DEFINE t == time
           x == <<e>> \o Q[t]
<1>4. t \in Times /\ t >= time
  BY IInvParts
<1>5. Shape(wheel', bitmap', overflow', currentTime') /\ Q' = [Q EXCEPT ![t] = x]
  BY <1>1, <1>3, <1>4, PutIs
<1>6. Q[t] \in Seq(Events) /\ Once(Q[t]) /\ p \notin PidsOf(Q[t])
  BY <1>1, <1>4, TypesOf DEF Queues, Single, In
<1>7. x \in Seq(Events) /\ PidsOf(x) = PidsOf(Q[t]) \cup {p} /\ Once(x)
  <2>1. PidsOf(<<e>>) \cap PidsOf(Q[t]) = {}
    BY <1>3, <1>6
  <2> DEFINE a == <<e>>
  <2>2. a \in Seq(Events) /\ PidsOf(a) = {p} /\ Once(a) /\ PidsOf(a) \cap PidsOf(Q[t]) = {}
    BY <1>3, <2>1
  <2> HIDE DEF a
  <2>3. /\ PidsOf(a \o Q[t]) = PidsOf(a) \cup PidsOf(Q[t]) /\ a \o Q[t] \in Seq(Events)
        /\ Once(a \o Q[t])
    BY <1>6, <2>2, PidsJoin
  <2>4. x = a \o Q[t]
    BY DEF a
  <2> QED
    BY <2>2, <2>3, <2>4
<1>8. x # <<>>
  BY <1>6
<1> HIDE DEF x
<1>9. Single(Q', batch) /\ \A o : In(Q', o) <=> In(Q, o) \/ o \in {p}
  <2>1. Once(batch) /\ Q \in Queues /\ Single(Q, batch)
    BY TypesOf DEF Single
  <2>2. {p} \cap PidsOf(batch) = {} /\ (\A o \in {p} : ~ In(Q, o))
        /\ PidsOf(batch) \in SUBSET PidsOf(batch)
    BY <1>1
  <2>3. /\ Single([Q EXCEPT ![t] = x], batch)
        /\ \A o : In([Q EXCEPT ![t] = x], o) <=> In(Q, o) \/ o \in {p}
    BY <1>4, <1>7, <2>1, <2>2, Grows
  <2> QED
    BY <1>5, <2>3
<1>10. nextCache' \in {Unknown, First(Q')}
  BY <1>1, <1>4, <1>5, <1>8, NarrowedIs
<1>11. Counted(Q', pidCounts') /\ pidCounts' \in [Pids -> Nat]
  BY <1>1, <1>9, CountedMore
<1>12. \A u \in Times : u < time' => Q'[u] = <<>>
  <2>1. \A u \in Times : u < time => u # t
    BY <1>1, IInvParts, TimesAre
  <2> QED
    BY <1>1, <1>5, <2>1, TypesOf DEF Queues
<1>13. frontPending' \in Nat
  BY <1>1, TypesOf
<1>14. IInv'
  BY <1>1, <1>4, <1>5, <1>9, <1>10, <1>11, <1>12, <1>13, TypesOf, IInvParts, IInvKept
<1>15. EQ!ScheduleFront(t, e)
  BY <1>1, <1>4, <1>5, QueueIs, QueueIsNext DEF EQ!ScheduleFront, x
<1> QED
  BY <1>2, <1>4, <1>14, <1>15 DEF EQ!Next, EQ!Times, Times, EQ!Events, Events

LEMMA ReorderSlotStep ==
  ASSUME IInv, ReorderSlot
  PROVE  IInv' /\ EQ!Next
<1> DEFINE c == currentTime
<1>1. PICK rank \in [Pids -> 0 .. Cardinality(Pids)] :
         wheel' = [wheel EXCEPT ![Slot(0)] = Sorted(@, rank)]
  BY DEF ReorderSlot
<1>2. /\ time = 0 /\ running = NoEvent /\ batch = <<>>
      /\ UNCHANGED <<time, bitmap, occupiedWords, overflow, nextCache, currentTime,
                     pidCounts, frontTime, frontPending, lastPopFront, batch, running>>
  BY DEF ReorderSlot
<1>3. c = 0 /\ 0 \in Times /\ 0 < c + WheelSize /\ 0 >= c /\ Slot(0) \in Slots
  BY <1>2, IInvParts, TimesAre, SlotIn
<1>4. Q[0] = wheel[Slot(0)] /\ Q[0] \in Seq(Events)
  BY <1>3, IInvParts DEF Q, QueueOf, ListAt
<1> DEFINE x == Sorted(Q[0], rank)
<1>5. Rearranged(Q[0], x)
  <2>1. rank \in [Pids -> Nat]
    OBVIOUS
  <2> QED
    BY <1>4, <2>1, SortedIs
<1> HIDE DEF x
<1>6. /\ x \in Seq(Events) /\ PidsOf(x) = PidsOf(Q[0]) /\ (Once(Q[0]) => Once(x))
      /\ (x = <<>> <=> Q[0] = <<>>)
  BY <1>4, <1>5, RearrangedPids
<1>7. wheel' = [wheel EXCEPT ![Slot(0)] = x]
  BY <1>1, <1>3, <1>4, IInvParts DEF x, Shape
<1>8. bitmap' = IF x = <<>> THEN bitmap \ {Slot(0)} ELSE bitmap \cup {Slot(0)}
  BY <1>2, <1>3, <1>4, <1>6, IInvParts DEF Shape
<1>9. Replaced(wheel, bitmap, overflow, c, 0, x, wheel', bitmap', overflow')
  BY <1>2, <1>3, <1>7, <1>8 DEF Replaced
<1>10. /\ Shape(wheel', bitmap', overflow', c)
       /\ QueueOf(wheel', overflow', c) = [QueueOf(wheel, overflow, c) EXCEPT ![0] = x]
  BY <1>3, <1>6, <1>9, IInvParts, ReplaceOne
<1>11. Shape(wheel', bitmap', overflow', currentTime') /\ Q' = [Q EXCEPT ![0] = x]
  BY <1>2, <1>10 DEF Q
<1>12. Single(Q', batch) /\ \A o : In(Q', o) <=> In(Q, o)
  <2>1. Once(batch) /\ Q \in Queues /\ Single(Q, batch) /\ Once(Q[0])
    BY <1>3, TypesOf DEF Single
  <2>2. /\ Single([Q EXCEPT ![0] = x], batch)
        /\ \A o : In([Q EXCEPT ![0] = x], o) <=> In(Q, o) \/ o \in {}
    <3> DEFINE N == {}
    <3>1. /\ PidsOf(x) = PidsOf(Q[0]) \cup N /\ Once(x) /\ (\A p \in N : ~ In(Q, p))
          /\ N \cap PidsOf(batch) = {} /\ PidsOf(batch) \in SUBSET PidsOf(batch)
      BY <1>6, <2>1
    <3> HIDE DEF N
    <3>2. /\ Single([Q EXCEPT ![0] = x], batch)
          /\ \A o : In([Q EXCEPT ![0] = x], o) <=> In(Q, o) \/ o \in N
      BY <1>3, <2>1, <3>1, Grows
    <3> QED
      BY <3>2 DEF N
  <2> QED
    BY <1>11, <2>2
<1>13. First(Q') = First(Q)
  BY <1>3, <1>6, <1>11, TypesOf, FirstSame
<1>14. \A u \in Times : u < time' => Q'[u] = <<>>
  BY <1>2, TimesAre
<1>15. Counted(Q', pidCounts')
  BY <1>2, <1>12, TypesOf DEF Counted
<1>16. IInv'
  BY <1>2, <1>11, <1>12, <1>13, <1>14, <1>15, TypesOf, IInvParts, IInvKept
<1>17. EQ!Reorder
  <2>1. PICK f \in [DOMAIN Q[0] -> DOMAIN Q[0]] :
           /\ {f[j] : j \in DOMAIN f} = DOMAIN Q[0]
           /\ x = [j \in DOMAIN Q[0] |-> Q[0][f[j]]]
    BY <1>5 DEF Rearranged
  <2>2. Q' = [Q EXCEPT ![0] = [i \in DOMAIN f |-> Q[0][f[i]]]]
    BY <1>11, <2>1
  <2> QED
    <3> DEFINE F == [t \in Times |-> QueueAt(t)]
               F2 == Q'
    <3>1. F = Q
      BY QueueIs
    <3> HIDE DEF F, F2
    <3>2. \E g \in [DOMAIN F[0] -> DOMAIN F[0]] :
             /\ {g[j] : j \in DOMAIN g} = DOMAIN F[0]
             /\ F2 = [F EXCEPT ![0] = [i \in DOMAIN g |-> F[0][g[i]]]]
      BY <2>1, <2>2, <3>1 DEF F2
    <3>3. [t \in Times |-> QueueAt(t)]' = F2
      BY QueueIsNext DEF F2
    <3>4. \E g \in [DOMAIN F[0] -> DOMAIN F[0]] :
             /\ {g[j] : j \in DOMAIN g} = DOMAIN F[0]
             /\ [t \in Times |-> QueueAt(t)]' = [F EXCEPT ![0] = [i \in DOMAIN g |-> F[0][g[i]]]]
      BY <3>2, <3>3, Zenon
    <3> QED
      BY <1>2, <3>4, Zenon DEF EQ!Reorder, F
<1> QED
  BY <1>16, <1>17 DEF EQ!Next

LEMMA RunBatchStep ==
  ASSUME IInv, RunBatch
  PROVE  IInv' /\ EQ!Next
<1>1. /\ batch # <<>> /\ running' = Head(batch) /\ batch' = Tail(batch)
      /\ UNCHANGED <<time, wheel, bitmap, occupiedWords, overflow, nextCache, currentTime,
                     pidCounts, frontTime, frontPending, lastPopFront>>
  BY DEF RunBatch, wheelVars
<1>2. Q' = Q
  BY <1>1 DEF Q
<1>3. batch \in Seq(Events) /\ Once(batch)
  BY IInvParts, TypesOf DEF Single
<1>4. /\ Head(batch) \in Events /\ Tail(batch) \in Seq(Events) /\ Once(Tail(batch))
      /\ PidsOf(Tail(batch)) \in SUBSET PidsOf(batch)
  BY <1>1, <1>3, PidsSplit
<1>5. Single(Q', batch')
  BY <1>1, <1>2, <1>4, TypesOf DEF Single
<1>6. IInv'
  BY <1>1, <1>2, <1>4, <1>5, TypesOf, IInvParts, IInvKept
<1>7. EQ!RunTaken
  BY <1>1, <1>2, QueueIs, QueueIsNext DEF EQ!RunTaken
<1> QED
  BY <1>6, <1>7 DEF EQ!Next

\* A process with an entry taken has none queued.
LEMMA RequeueFrontStep ==
  ASSUME IInv, RequeueFront
  PROVE  IInv' /\ EQ!Next
<1>1. /\ batch # <<>> /\ nextCache' = Narrowed(time)
      /\ pidCounts' = [p \in Pids |-> pidCounts[p] + CountOf(p, batch)]
      /\ PutFront(time, batch) /\ occupiedWords' = NonZeroWords(bitmap')
      /\ batch' = <<>>
      /\ UNCHANGED <<time, currentTime, frontTime, frontPending, lastPopFront, running>>
  BY DEF RequeueFront
<1> DEFINE t == time
           x == batch \o Q[t]
<1>2. t \in Times /\ t >= time /\ batch \in Seq(Events)
  BY IInvParts
<1>3. Shape(wheel', bitmap', overflow', currentTime') /\ Q' = [Q EXCEPT ![t] = x]
  BY <1>1, <1>2, PutIs
<1>4. /\ Q[t] \in Seq(Events) /\ Once(Q[t]) /\ Once(batch)
      /\ PidsOf(batch) \cap PidsOf(Q[t]) = {}
  BY <1>2, TypesOf DEF Queues, Single
<1>5. x \in Seq(Events) /\ PidsOf(x) = PidsOf(Q[t]) \cup PidsOf(batch) /\ Once(x)
  BY <1>2, <1>4, PidsJoin
<1>6. x # <<>>
  BY <1>1, <1>2, <1>4
<1> HIDE DEF x
<1>7. Single(Q', batch') /\ \A o : In(Q', o) <=> In(Q, o) \/ o \in PidsOf(batch)
  <2>1. /\ Q \in Queues /\ Single(Q, batch) /\ \A o \in PidsOf(batch) : ~ In(Q, o)
    BY TypesOf DEF Single, In
  <2> DEFINE b2 == batch'
  <2>2. /\ Once(b2) /\ PidsOf(b2) = {} /\ PidsOf(b2) \in SUBSET PidsOf(batch)
        /\ PidsOf(batch) \cap PidsOf(b2) = {}
    BY <1>1, NoPids
  <2> HIDE DEF b2
  <2>3. /\ Single([Q EXCEPT ![t] = x], b2)
        /\ \A o : In([Q EXCEPT ![t] = x], o) <=> In(Q, o) \/ o \in PidsOf(batch)
    BY <1>2, <1>5, <2>1, <2>2, Grows
  <2> QED
    BY <1>3, <2>3 DEF b2
<1>8. nextCache' \in {Unknown, First(Q')}
  BY <1>1, <1>2, <1>3, <1>6, NarrowedIs
<1>9. Counted(Q', pidCounts') /\ pidCounts' \in [Pids -> Nat]
  <2>1. ASSUME NEW p \in Pids PROVE pidCounts'[p] = IF In(Q', p) THEN 1 ELSE 0
    <3>1. CountOf(p, batch) = IF p \in PidsOf(batch) THEN 1 ELSE 0
      BY <1>2, <1>4, CountIs
    <3>2. pidCounts[p] = IF In(Q, p) THEN 1 ELSE 0
      BY TypesOf DEF Counted
    <3>3. ~ (In(Q, p) /\ p \in PidsOf(batch))
      BY TypesOf DEF Single, In
    <3>4. pidCounts'[p] = pidCounts[p] + CountOf(p, batch)
      BY <1>1
    <3> QED
      BY <1>7, <3>1, <3>2, <3>3, <3>4
  <2>2. \A p \in Pids : pidCounts'[p] \in Nat
    BY <2>1
  <2> QED
    BY <1>1, <2>1, <2>2 DEF Counted
<1>10. \A u \in Times : u < time' => Q'[u] = <<>>
  <2>1. \A u \in Times : u < time => u # t
    BY <1>1, IInvParts, TimesAre
  <2> QED
    BY <1>1, <1>3, <2>1, TypesOf DEF Queues
<1>11. batch' \in Seq(Events)
  BY <1>1
<1>12. IInv'
  BY <1>1, <1>2, <1>3, <1>7, <1>8, <1>9, <1>10, <1>11, TypesOf, IInvParts, IInvKept
<1>13. EQ!Requeue
  BY <1>1, <1>2, <1>3, QueueIs, QueueIsNext DEF EQ!Requeue, x
<1> QED
  BY <1>12, <1>13 DEF EQ!Next

\* The window moves to the current time.
LEMMA Windowed ==
  ASSUME IInv
  PROVE  /\ Shape(MovedWheel(time), MovedBitmap(time), MovedOverflow(time), time)
         /\ QueueOf(MovedWheel(time), MovedOverflow(time), time) = Q
         /\ Slot(time) \in Slots /\ time < time + WheelSize
         /\ MovedWheel(time)[Slot(time)] = Q[time]
         /\ Slot(time) \in MovedBitmap(time) <=> Q[time] # <<>>
         /\ MovedWheel(time) \in [Slots -> Seq(Events)]
<1>1. /\ currentTime \in Times /\ time \in Times /\ currentTime <= time
      /\ Shape(wheel, bitmap, overflow, currentTime)
      /\ \A t \in Times : t < time => QueueOf(wheel, overflow, currentTime)[t] = <<>>
  BY IInvParts, TypesOf DEF Q
<1>2. /\ Shape(MovedWheel(time), MovedBitmap(time), MovedOverflow(time), time)
      /\ QueueOf(MovedWheel(time), MovedOverflow(time), time)
            = QueueOf(wheel, overflow, currentTime)
  BY <1>1, WindowMoves
<1> DEFINE w == MovedWheel(time)
           b == MovedBitmap(time)
           o == MovedOverflow(time)
<1> HIDE DEF w, b, o
<1>3. Shape(w, b, o, time) /\ QueueOf(w, o, time) = Q
  BY <1>2 DEF w, b, o, Q
<1>4. Slot(time) \in Slots /\ time < time + WheelSize /\ time >= time
  BY <1>1, SlotIn, TimesAre
<1>5. w[Slot(time)] = Q[time]
  <2>1. QueueOf(w, o, time)[time] = w[Slot(time)]
    BY <1>1, <1>4 DEF QueueOf, ListAt
  <2> QED
    BY <1>3, <2>1
<1>6. Slot(time) \in b <=> Q[time] # <<>>
  BY <1>3, <1>4, <1>5 DEF Shape
<1> QED
  BY <1>3, <1>4, <1>5, <1>6 DEF w, b, o, Shape

LEMMA FromWindow ==
  ASSUME IInv, currentTime' = time, NEW x \in Seq(Events),
         wheel' = [MovedWheel(time) EXCEPT ![Slot(time)] = x],
         bitmap' = (IF x = <<>> THEN MovedBitmap(time) \ {Slot(time)}
                    ELSE MovedBitmap(time) \cup {Slot(time)}),
         overflow' = MovedOverflow(time)
  PROVE  /\ Shape(wheel', bitmap', overflow', currentTime')
         /\ Q' = [Q EXCEPT ![time] = x]
<1> DEFINE w == MovedWheel(time)
           b == MovedBitmap(time)
           o == MovedOverflow(time)
<1>1. /\ Shape(w, b, o, time) /\ QueueOf(w, o, time) = Q
      /\ time < time + WheelSize /\ time \in Times /\ time >= time
  BY Windowed, IInvParts, TimesAre
<1> HIDE DEF w, b, o
<1>2. Replaced(w, b, o, time, time, x, wheel', bitmap', overflow')
  BY <1>1 DEF Replaced, w, b, o
<1>3. /\ Shape(wheel', bitmap', overflow', time)
      /\ QueueOf(wheel', overflow', time) = [QueueOf(w, o, time) EXCEPT ![time] = x]
  BY <1>1, <1>2, ReplaceOne
<1> QED
  BY <1>1, <1>3 DEF Q

LEMMA PopFrontStep ==
  ASSUME IInv, PopFront
  PROVE  IInv' /\ EQ!Next
<1> DEFINE w == MovedWheel(time)
           s == Slot(time)
           h == Head(w[s])
           x == Tail(w[s])
<1>1. /\ w[s] # <<>> /\ running' = h
      /\ wheel' = [w EXCEPT ![s] = x]
      /\ bitmap' = (IF Len(w[s]) = 1 THEN MovedBitmap(time) \ {s} ELSE MovedBitmap(time))
      /\ nextCache' = (IF Len(w[s]) = 1 THEN Unknown ELSE Memo)
      /\ pidCounts' = Uncount(pidCounts, h)
      /\ occupiedWords' = NonZeroWords(bitmap') /\ overflow' = MovedOverflow(time)
      /\ currentTime' = time
      /\ lastPopFront' = (frontPending > 0 /\ frontTime = time)
      /\ frontPending' = FrontLeft
      /\ UNCHANGED <<time, frontTime, batch>>
  <2>1. s \in DOMAIN w
    BY Windowed
  <2> QED
    BY <2>1 DEF PopFront
<1>2. w[s] = Q[time] /\ s \in MovedBitmap(time) /\ time \in Times
  BY <1>1, Windowed, IInvParts
<1>3. /\ Q[time] \in Seq(Events) /\ Q[time] # <<>> /\ Once(Q[time])
      /\ h = Head(Q[time]) /\ x = Tail(Q[time])
  BY <1>1, <1>2, TypesOf DEF Queues, Single
<1>4. Len(w[s]) = 1 <=> x = <<>>
  <2>1. \A l \in Seq(Events) : l # <<>> => (Len(l) = 1 <=> Tail(l) = <<>>)
    <3> TAKE l \in Seq(Events)
    <3> HAVE l # <<>>
    <3>1. Tail(l) \in Seq(Events) /\ Len(Tail(l)) = Len(l) - 1 /\ Len(l) \in Nat
      OBVIOUS
    <3>2. Tail(l) = <<>> <=> Len(Tail(l)) = 0
      BY <3>1, EmptySeq
    <3> QED
      BY <3>1, <3>2
  <2> QED
    BY <1>2, <1>3, <2>1
<1>5. wheel' = [MovedWheel(time) EXCEPT ![Slot(time)] = x]
  BY <1>1
<1> HIDE DEF w, s, h, x
<1>6. /\ h \in Events /\ x \in Seq(Events) /\ PidsOf(Q[time]) = {h.pid} \cup PidsOf(x)
      /\ Once(x) /\ h.pid \notin PidsOf(x)
  BY <1>3, PidsSplit
<1>7. bitmap' = IF x = <<>> THEN MovedBitmap(time) \ {Slot(time)}
                ELSE MovedBitmap(time) \cup {Slot(time)}
  BY <1>1, <1>2, <1>4 DEF s
<1>8. Shape(wheel', bitmap', overflow', currentTime') /\ Q' = [Q EXCEPT ![time] = x]
  BY <1>1, <1>5, <1>6, <1>7, FromWindow
<1>9. Single(Q', batch) /\ \A o : In(Q', o) <=> In(Q, o) /\ o \notin {h.pid}
  <2>1. Once(batch) /\ Q \in Queues /\ Single(Q, batch)
    BY TypesOf DEF Single
  <2> DEFINE N == {h.pid}
  <2>2. /\ PidsOf(Q[time]) = PidsOf(x) \cup N /\ PidsOf(x) \cap N = {} /\ Once(x)
        /\ PidsOf(batch) \in SUBSET (PidsOf(batch) \cup N)
    BY <1>6
  <2> HIDE DEF N
  <2>3. /\ Single([Q EXCEPT ![time] = x], batch)
        /\ \A o : In([Q EXCEPT ![time] = x], o) <=> In(Q, o) /\ o \notin N
    BY <1>2, <2>1, <2>2, Shrinks
  <2> QED
    BY <1>8, <2>3 DEF N
<1>10. nextCache' \in {Unknown, First(Q')}
  <2>1. CASE x = <<>>
    BY <1>1, <1>4, <2>1
  <2>2. CASE x # <<>>
    <3>1. First(Q') = First(Q)
      BY <1>2, <1>3, <1>8, <2>2, TypesOf, FirstSame
    <3> QED
      BY <1>1, <1>4, <2>2, <3>1, NextTimeIs DEF Memo
  <2> QED
    BY <2>1, <2>2
<1>11. Counted(Q', pidCounts') /\ pidCounts' \in [Pids -> Nat]
  <2>1. /\ pidCounts \in [Pids -> Nat] /\ h.pid \in Pids
        /\ \A p \in Pids : pidCounts[p] = IF In(Q, p) THEN 1 ELSE 0
    BY <1>6, TypesOf DEF Counted, Events
  <2>2. In(Q, h.pid)
    BY <1>2, <1>6 DEF In
  <2>3. pidCounts[h.pid] = 1
    BY <2>1, <2>2
  <2>4. pidCounts' = [pidCounts EXCEPT ![h.pid] = 0]
    BY <1>1, <2>1, <2>3 DEF Uncount
  <2> QED
    BY <1>9, <2>1, <2>4 DEF Counted
<1>12. \A u \in Times : u < time' => Q'[u] = <<>>
  <2>1. \A u \in Times : u < time => u # time
    BY <1>2, TimesAre
  <2> QED
    BY <1>1, <1>8, <2>1, TypesOf DEF Queues
<1>13. frontPending' \in Nat /\ lastPopFront' \in BOOLEAN /\ currentTime' <= time'
  BY <1>1, TypesOf, IInvParts DEF FrontLeft
<1>14. IInv'
  BY <1>1, <1>2, <1>6, <1>8, <1>9, <1>10, <1>11, <1>12, <1>13, TypesOf, IInvParts, IInvKept
<1>15. EQ!Pop
  <2>1. QueueAt(time) = Q[time]
    BY <1>2 DEF QueueAt, Q, QueueOf, ListAt, InWheel
  <2> QED
    BY <1>1, <1>2, <1>3, <1>8, <2>1, QueueIs, QueueIsNext DEF EQ!Pop
<1> QED
  BY <1>14, <1>15 DEF EQ!Next

\* The counts without the entries of the current time.
LEMMA UncountAllIs ==
  ASSUME IInv
  PROVE  \A p \in Pids : UncountAll(Q[time])[p] =
            IF In(Q, p) /\ p \notin PidsOf(Q[time]) THEN 1 ELSE 0
<1> DEFINE l == Q[time]
<1>1. l \in Seq(Events) /\ Once(l) /\ time \in Times
  BY TypesOf, IInvParts DEF Queues, Single
<1> HIDE DEF l
<1> TAKE p \in Pids
<1>2. CountOf(p, l) = IF p \in PidsOf(l) THEN 1 ELSE 0
  BY <1>1, CountIs
<1>3. pidCounts[p] = IF In(Q, p) THEN 1 ELSE 0
  BY TypesOf DEF Counted
<1>4. p \in PidsOf(l) => In(Q, p)
  BY <1>1 DEF In, l
<1>5. UncountAll(l)[p] = IF pidCounts[p] > CountOf(p, l) THEN pidCounts[p] - CountOf(p, l)
                         ELSE 0
  BY DEF UncountAll
<1>6. UncountAll(l)[p] = IF In(Q, p) /\ p \notin PidsOf(l) THEN 1 ELSE 0
  BY <1>2, <1>3, <1>4, <1>5
<1> QED
  BY <1>6 DEF l

LEMMA RemoveSlotStep ==
  ASSUME IInv, RemoveSlot
  PROVE  IInv' /\ EQ!Next
<1> DEFINE w == MovedWheel(time)
           s == Slot(time)
           l == Q[time]
<1>1. w[s] = l /\ (s \in MovedBitmap(time) <=> l # <<>>) /\ time \in Times /\ s \in DOMAIN w
  BY Windowed, IInvParts
<1>2. /\ batch = <<>> /\ batch' = l /\ wheel' = [w EXCEPT ![s] = <<>>]
      /\ bitmap' = MovedBitmap(time) \ (IF l = <<>> THEN {} ELSE {s})
      /\ nextCache' = (IF l = <<>> THEN Memo ELSE Unknown)
      /\ pidCounts' = UncountAll(l)
      /\ occupiedWords' = NonZeroWords(bitmap') /\ overflow' = MovedOverflow(time)
      /\ currentTime' = time
      /\ frontPending' = (IF frontTime = time THEN 0 ELSE frontPending)
      /\ UNCHANGED <<time, frontTime, lastPopFront, running>>
  BY <1>1 DEF RemoveSlot
<1> DEFINE x == <<>>
<1>3. bitmap' = MovedBitmap(time) \ {s}
  BY <1>1, <1>2
<1>4. x \in Seq(Events) /\ x = <<>> /\ Once(x) /\ PidsOf(x) = {}
  BY NoPids
<1>5. l \in Seq(Events) /\ Once(l) /\ Q \in Queues /\ Single(Q, batch)
  BY <1>1, TypesOf DEF Queues, Single
<1>6. /\ wheel' = [MovedWheel(time) EXCEPT ![Slot(time)] = x]
      /\ bitmap' = IF x = <<>> THEN MovedBitmap(time) \ {Slot(time)}
                   ELSE MovedBitmap(time) \cup {Slot(time)}
  BY <1>2, <1>3
<1> HIDE DEF x, l
<1>7. Shape(wheel', bitmap', overflow', currentTime') /\ Q' = [Q EXCEPT ![time] = x]
  BY <1>2, <1>4, <1>6, FromWindow
<1>8. Single(Q', l) /\ \A o : In(Q', o) <=> In(Q, o) /\ o \notin PidsOf(l)
  <2> DEFINE N == PidsOf(l)
  <2>1. /\ PidsOf(Q[time]) = PidsOf(x) \cup N /\ PidsOf(x) \cap N = {}
        /\ PidsOf(l) \in SUBSET (PidsOf(batch) \cup N)
        /\ Once(x) /\ time \in Times
    BY <1>1, <1>4 DEF l
  <2> HIDE DEF N
  <2>2. /\ Single([Q EXCEPT ![time] = x], l)
        /\ \A o : In([Q EXCEPT ![time] = x], o) <=> In(Q, o) /\ o \notin N
    BY <1>5, <2>1, Shrinks
  <2> QED
    BY <1>7, <2>2 DEF N
<1>9. nextCache' \in {Unknown, First(Q')}
  <2>1. CASE l # <<>>
    BY <1>2, <2>1
  <2>2. CASE l = <<>>
    <3>1. First(Q') = First(Q)
      BY <1>1, <1>4, <1>5, <1>7, <2>2, FirstSame DEF l
    <3> QED
      BY <1>2, <2>2, <3>1, NextTimeIs DEF Memo
  <2> QED
    BY <2>1, <2>2
<1>10. \A p \in Pids : UncountAll(l)[p] = IF In(Q, p) /\ p \notin PidsOf(l) THEN 1 ELSE 0
  BY UncountAllIs DEF l
<1>11. Counted(Q', pidCounts') /\ pidCounts' \in [Pids -> Nat]
  <2>1. pidCounts' = [p \in Pids |-> UncountAll(l)[p]]
    BY <1>2 DEF UncountAll
  <2> QED
    BY <1>8, <1>10, <2>1 DEF Counted
<1>12. \A u \in Times : u < time' => Q'[u] = <<>>
  <2>1. \A u \in Times : u < time => u # time
    BY <1>1, TimesAre
  <2> QED
    BY <1>2, <1>7, <2>1, TypesOf DEF Queues
<1>13. frontPending' \in Nat /\ currentTime' <= time' /\ time' \in Times /\ currentTime' \in Times
  BY <1>2, TypesOf, IInvParts
<1>14. IInv'
  BY <1>2, <1>5, <1>7, <1>8, <1>9, <1>11, <1>12, <1>13, TypesOf, IInvParts, IInvKept
<1>15. EQ!Take
  <2>1. QueueAt(time) = Q[time]
    BY <1>1 DEF QueueAt, Q, QueueOf, ListAt, InWheel
  <2> QED
    BY <1>1, <1>2, <1>7, <2>1, QueueIs, QueueIsNext DEF EQ!Take, l, x
<1> QED
  BY <1>14, <1>15 DEF EQ!Next

LEMMA AdvanceStep ==
  ASSUME IInv, NEW t \in Times, Advance(t)
  PROVE  IInv' /\ EQ!Next
<1>1. /\ batch = <<>> /\ t > time /\ t <= NextTime /\ time' = t /\ nextCache' = Memo
      /\ UNCHANGED <<wheel, bitmap, occupiedWords, overflow, currentTime, pidCounts,
                     frontTime, frontPending, lastPopFront, batch, running>>
  BY DEF Advance
<1>2. Q' = Q
  BY <1>1 DEF Q
<1>3. /\ First(Q) \in Nat /\ \A u \in Times : u < First(Q) => Q[u] = <<>>
      /\ t <= First(Q) /\ t \in Nat /\ \A u \in Times : u \in Nat
  BY <1>1, FirstIs, NextTimeIs, TimesAre
<1>4. \A u \in Times : u < t => Q[u] = <<>>
  <2> TAKE u \in Times
  <2> HAVE u < t
  <2>1. u < First(Q)
    BY <1>3
  <2> QED
    BY <1>3, <2>1
<1>5. nextCache' = First(Q')
  BY <1>1, <1>2, NextTimeIs DEF Memo
<1>6. currentTime' <= time'
  BY <1>1, <1>3, IInvParts
<1>7. IInv'
  BY <1>1, <1>2, <1>4, <1>5, <1>6, TypesOf, IInvParts, IInvKept
<1>8. EQ!Advance(t)
  <2>1. \A u \in Times : QueueAt(u) = Q[u]
    BY DEF QueueAt, Q, QueueOf, ListAt, InWheel
  <2> QED
    BY <1>1, <1>2, <1>4, <2>1, QueueIs, QueueIsNext DEF EQ!Advance, EQ!Times, Times
<1> QED
  BY <1>7, <1>8 DEF EQ!Next, EQ!Times, Times

LEMMA PutOffStep ==
  ASSUME IInv, NEW t \in Times, PutOff(t)
  PROVE  IInv' /\ EQ!Next
<1> DEFINE w == MovedWheel(time)
           b == MovedBitmap(time)
           o == MovedOverflow(time)
           s == Slot(time)
           stuck == Q[time]
           w1 == [w EXCEPT ![s] = <<>>]
           b1 == b \ {s}
           near == t < time + WheelSize
<1>1. /\ Shape(w, b, o, time) /\ QueueOf(w, o, time) = Q /\ s \in Slots
      /\ w[s] = stuck /\ (s \in b <=> stuck # <<>>) /\ w \in [Slots -> Seq(Events)]
      /\ time \in Times /\ time < time + WheelSize /\ time >= time
  BY Windowed, IInvParts, TimesAre
<1>2. /\ batch = <<>> /\ t > time /\ t <= NextTimeAfter(time)
      /\ wheel' = (IF near THEN [w1 EXCEPT ![Slot(t)] = @ \o stuck] ELSE w1)
      /\ overflow' = (IF near THEN o ELSE [o EXCEPT ![t] = @ \o stuck])
      /\ bitmap' = (IF stuck = <<>> THEN b ELSE b1 \cup (IF near THEN {Slot(t)} ELSE {}))
      /\ nextCache' = (IF stuck = <<>> THEN nextCache ELSE Unknown)
      /\ pidCounts' = [p \in Pids |-> UncountAll(stuck)[p] + CountOf(p, stuck)]
      /\ occupiedWords' = NonZeroWords(bitmap') /\ currentTime' = time
      /\ frontPending' = (IF frontTime = time THEN 0 ELSE frontPending)
      /\ time' = t
      /\ UNCHANGED <<frontTime, lastPopFront, batch, running>>
  BY <1>1 DEF PutOff
<1> DEFINE q1 == [Q EXCEPT ![time] = <<>>]
           x == q1[t] \o stuck
<1> HIDE DEF w, b, o
\* The slot is emptied.
<1>3. Shape(w1, b1, o, time) /\ QueueOf(w1, o, time) = q1
  <2> DEFINE y == <<>>
  <2>1. y \in Seq(Events)
    OBVIOUS
  <2>2. Replaced(w, b, o, time, time, y, [w EXCEPT ![s] = y], b1, o)
    BY <1>1 DEF Replaced
  <2> DEFINE w2 == [w EXCEPT ![s] = y]
  <2> HIDE DEF y, w2, b1
  <2>3. Shape(w2, b1, o, time) /\ QueueOf(w2, o, time) = [QueueOf(w, o, time) EXCEPT ![time] = y]
    BY <1>1, <2>1, <2>2, ReplaceOne DEF w2
  <2> QED
    BY <1>1, <2>3 DEF y, w2
<1>4. q1 \in Queues /\ Q \in Queues /\ stuck \in Seq(Events) /\ q1[t] \in Seq(Events)
      /\ Once(stuck) /\ Once(q1[t]) /\ t # time /\ q1[t] = Q[t]
  BY <1>1, <1>2, TypesOf, TimesAre DEF Queues, Single
<1> HIDE DEF w1, b1, q1, stuck
<1>5. /\ w1 \in [Slots -> Seq(Events)] /\ o \in [Times -> Seq(Events)]
      /\ b1 = {z \in Slots : w1[z] # <<>>} /\ Slot(t) \in Slots
  BY <1>3, SlotIn DEF Shape
<1>6. x \in Seq(Events) /\ (stuck = <<>> => x = q1[t]) /\ (stuck # <<>> => x # <<>>)
  BY <1>4
<1>7. q1[t] = IF near THEN w1[Slot(t)] ELSE o[t]
  <2>1. t >= time
    BY <1>1, <1>2, TimesAre
  <2>2. QueueOf(w1, o, time)[t] = IF near THEN w1[Slot(t)] ELSE o[t]
    BY <2>1 DEF QueueOf, ListAt
  <2> QED
    BY <1>3, <2>2
<1> HIDE DEF x
\* They are appended to what waits for t.
<1>8. Replaced(w1, b1, o, time, t, x, wheel', bitmap', overflow')
  <2>1. stuck = <<>> => b = b1
    BY <1>1 DEF b1
  <2>2. CASE near
    <3>1. wheel' = [w1 EXCEPT ![Slot(t)] = x] /\ overflow' = o
      BY <1>2, <1>5, <1>7, <2>2 DEF x
    <3>2. bitmap' = IF x = <<>> THEN b1 \ {Slot(t)} ELSE b1 \cup {Slot(t)}
      <4>1. CASE stuck = <<>>
        <5>1. bitmap' = b1 /\ (Slot(t) \in b1 <=> x # <<>>)
          BY <1>2, <1>5, <1>6, <1>7, <2>1, <2>2, <4>1
        <5> QED
          BY <5>1
      <4>2. CASE stuck # <<>>
        BY <1>2, <1>6, <2>2, <4>2
      <4> QED
        BY <4>1, <4>2
    <3> QED
      BY <2>2, <3>1, <3>2 DEF Replaced
  <2>3. CASE ~ near
    <3>1. wheel' = w1 /\ bitmap' = b1
      BY <1>2, <2>1, <2>3
    <3>2. overflow' = [o EXCEPT ![t] = x]
      BY <1>2, <1>5, <1>7, <2>3 DEF x
    <3> QED
      BY <2>3, <3>1, <3>2 DEF Replaced
  <2> QED
    BY <2>2, <2>3
<1>9. Shape(wheel', bitmap', overflow', currentTime') /\ Q' = [q1 EXCEPT ![t] = x]
  <2>1. t >= time
    BY <1>1, <1>2, TimesAre
  <2>2. /\ Shape(wheel', bitmap', overflow', time)
        /\ QueueOf(wheel', overflow', time) = [QueueOf(w1, o, time) EXCEPT ![t] = x]
    BY <1>1, <1>3, <1>6, <1>8, <2>1, ReplaceOne
  <2> QED
    BY <1>2, <1>3, <2>2 DEF Q
<1> DEFINE N == PidsOf(stuck)
           y == <<>>
<1>10. Single(q1, batch) /\ \A p : In(q1, p) <=> In(Q, p) /\ p \notin N
  <2>1. /\ Single(Q, batch) /\ PidsOf(Q[time]) = PidsOf(y) \cup N /\ PidsOf(y) \cap N = {}
        /\ Once(y) /\ Once(batch) /\ PidsOf(batch) \in SUBSET (PidsOf(batch) \cup N)
    BY NoPids, TypesOf DEF Single, stuck
  <2>2. q1 = [Q EXCEPT ![time] = y]
    BY DEF q1
  <2> HIDE DEF N, y
  <2>3. /\ Single([Q EXCEPT ![time] = y], batch)
        /\ \A p : In([Q EXCEPT ![time] = y], p) <=> In(Q, p) /\ p \notin N
    BY <1>1, <1>4, <2>1, Shrinks
  <2> QED
    BY <2>2, <2>3
<1>11. \A p \in N : In(Q, p) /\ ~ In(q1, p)
  BY <1>1, <1>10 DEF In, stuck
<1>12. Single(Q', batch) /\ \A p : In(Q', p) <=> In(Q, p)
  <2>1. PidsOf(q1[t]) \cap PidsOf(stuck) = {}
    BY <1>10 DEF In
  <2>2. PidsOf(x) = PidsOf(q1[t]) \cup N /\ Once(x)
    BY <1>4, <2>1, PidsJoin DEF x
  <2>3. Once(batch) /\ PidsOf(batch) \in SUBSET PidsOf(batch) /\ N \cap PidsOf(batch) = {}
    BY <1>2, NoPids
  <2> HIDE DEF N
  <2>4. /\ Single([q1 EXCEPT ![t] = x], batch)
        /\ \A p : In([q1 EXCEPT ![t] = x], p) <=> In(q1, p) \/ p \in N
    BY <1>4, <1>10, <1>11, <2>2, <2>3, Grows
  <2> QED
    BY <1>9, <1>10, <1>11, <2>4
<1>13. nextCache' \in {Unknown, First(Q')}
  <2>1. CASE stuck # <<>>
    BY <1>2, <2>1
  <2>2. CASE stuck = <<>>
    <3>1. q1 = Q
      BY <1>1, <1>4, <2>2 DEF Queues, q1, stuck
    <3>2. Q' = Q
      BY <1>4, <1>6, <1>9, <2>2, <3>1 DEF Queues
    <3> QED
      BY <1>2, <2>2, <3>2, TypesOf
  <2> QED
    BY <2>1, <2>2
<1>14. Counted(Q', pidCounts') /\ pidCounts' \in [Pids -> Nat]
  <2>1. ASSUME NEW p \in Pids PROVE pidCounts'[p] = IF In(Q, p) THEN 1 ELSE 0
    <3>1. UncountAll(stuck)[p] = IF In(Q, p) /\ p \notin N THEN 1 ELSE 0
      BY UncountAllIs DEF stuck
    <3>2. CountOf(p, stuck) = IF p \in N THEN 1 ELSE 0
      BY <1>4, CountIs
    <3>3. pidCounts'[p] = UncountAll(stuck)[p] + CountOf(p, stuck)
      BY <1>2
    <3> QED
      BY <1>11, <3>1, <3>2, <3>3
  <2>2. \A p \in Pids : pidCounts'[p] \in Nat
    BY <2>1
  <2> QED
    BY <1>2, <1>12, <2>1, <2>2 DEF Counted
<1>15. \A u \in Times : u < time' => Q'[u] = <<>>
  <2> TAKE u \in Times
  <2> HAVE u < time'
  <2>1. u < t /\ u # t /\ u \in Nat /\ time \in Nat
    BY <1>1, <1>2, TimesAre
  <2>2. Q'[u] = q1[u]
    BY <1>4, <1>9, <2>1 DEF Queues
  <2>3. CASE u = time
    BY <1>4, <2>2, <2>3, TypesOf DEF q1, Queues
  <2>4. CASE u # time
    <3>1. q1[u] = Q[u]
      BY <1>4, <2>4 DEF q1, Queues
    <3>2. CASE u < time
      BY <2>2, <3>1, <3>2, TypesOf
    <3>3. CASE u > time
      BY <1>2, <2>1, <2>2, <3>1, <3>3, NextTimeAfterIs
    <3> QED
      BY <2>1, <2>4, <3>2, <3>3
  <2> QED
    BY <2>3, <2>4
<1>16. /\ frontPending' \in Nat /\ currentTime' <= time' /\ time' \in Times
       /\ currentTime' \in Times
  <2>1. time <= t
    BY <1>1, <1>2, TimesAre
  <2> QED
    BY <1>1, <1>2, <2>1, TypesOf
<1>17. IInv'
  BY <1>2, <1>9, <1>12, <1>13, <1>14, <1>15, <1>16, TypesOf, IInvParts, IInvKept
<1>18. EQ!PutOff(t)
  <2> DEFINE F == [u \in Times |-> QueueAt(u)]
  <2>1. F = Q /\ F' = Q'
    BY QueueIs, QueueIsNext
  <2> HIDE DEF F
  <2>2. F' = [F EXCEPT ![t] = @ \o F[time], ![time] = <<>>]
    BY <1>1, <1>4, <1>9, <2>1 DEF Queues, q1, x, stuck
  <2>3. \A u \in Times : u > time /\ u < t => F[u] = <<>>
    BY <1>2, <2>1, NextTimeAfterIs
  <2>4. Times = EQ!Times
    BY DEF Times, EQ!Times
  <2> QED
    BY <1>2, <2>2, <2>3, <2>4, Zenon DEF EQ!PutOff, F
<1> QED
  BY <1>17, <1>18 DEF EQ!Next, EQ!Times, Times

LEMMA RemovePidStep ==
  ASSUME IInv, NEW p \in Pids, RemovePid(p)
  PROVE  IInv' /\ EQ!Next
<1> DEFINE c == currentTime
           kept == [s \in Slots |-> OfOthers(p, wheel[s])]
           far == {t \in OverflowTimes : CountOf(p, overflow[t]) > 0}
           o2 == [t \in Times |-> OfOthers(p, overflow[t])]
<1>1. /\ wheel \in [Slots -> Seq(Events)] /\ overflow \in [Times -> Seq(Events)]
      /\ bitmap = {s \in Slots : wheel[s] # <<>>}
      /\ \A s \in Slots : wheel[s] # <<>> =>
            \E t \in Times : t >= c /\ t < c + WheelSize /\ Slot(t) = s
      /\ \A t \in Times : overflow[t] # <<>> => t >= c + WheelSize
      /\ c \in Nat
  BY IInvParts DEF Shape
<1>2. /\ wheel' = kept
      /\ bitmap' = bitmap \ {s \in Slots : wheel[s] # <<>> /\ kept[s] = <<>>}
      /\ nextCache' = Unknown /\ occupiedWords' = NonZeroWords(bitmap')
      /\ pidCounts' = [pidCounts EXCEPT ![p] = 0]
      /\ UNCHANGED <<time, currentTime, frontTime, frontPending, lastPopFront, batch, running>>
  BY DEF RemovePid
<1>3. OfOthers(p, <<>>) = <<>>
  <2>1. <<>> \in Seq(Events) /\ \A i \in DOMAIN <<>> : <<>>[i].pid # p
    OBVIOUS
  <2> DEFINE e == <<>>
  <2> HIDE DEF e
  <2>2. e \in Seq(Events) /\ (\A i \in DOMAIN e : e[i].pid # p)
    BY <2>1 DEF e
  <2>3. OfOthers(p, e) = e
    BY <2>2, NoneTakenOut
  <2> QED
    BY <2>3 DEF e
<1>4. \A s \in Slots : kept[s] \in Seq(Events) /\ (kept[s] # <<>> => wheel[s] # <<>>)
  BY <1>1, <1>3, OthersKept
\* A list of the overflow map is one of the queue.
<1>5. \A t \in OverflowTimes : /\ t \in Times /\ overflow[t] = Q[t] /\ overflow[t] # <<>>
                               /\ overflow[t] \in Seq(Events)
  <2> TAKE t \in OverflowTimes
  <2>1. t \in Times /\ overflow[t] # <<>> /\ t >= c + WheelSize /\ t \in Nat
    BY <1>1, TimesAre DEF OverflowTimes
  <2>2. ~ t < c + WheelSize
    BY <1>1, <2>1, TimesAre
  <2>3. Q[t] = overflow[t]
    BY <2>1, <2>2 DEF Q, QueueOf, ListAt
  <2> QED
    BY <1>1, <2>1, <2>3
\* The overflow map without the entries of p, which are in one of its lists.
<1>6. overflow' = o2
  <2>1. \A t \in Times : p \notin PidsOf(overflow[t]) => OfOthers(p, overflow[t]) = overflow[t]
    BY <1>1, NoneTakenOut DEF PidsOf
  <2>2. CASE overflow' = [t \in Times |-> IF t \in OverflowTimes
                                          THEN OfOthers(p, overflow[t]) ELSE <<>>]
    <3>1. \A t \in Times : t \notin OverflowTimes => OfOthers(p, overflow[t]) = <<>>
      BY <1>3 DEF OverflowTimes
    <3> QED
      BY <2>2, <3>1
  <2>3. CASE far = {} /\ overflow' = overflow
    <3>1. \A t \in Times : p \notin PidsOf(overflow[t])
      <4> TAKE t \in Times
      <4>1. CASE t \in OverflowTimes
        BY <1>1, <2>3, <4>1, Counts
      <4>2. CASE t \notin OverflowTimes
        BY <4>2, NoPids DEF OverflowTimes
      <4> QED
        BY <4>1, <4>2
    <3>2. \A t \in Times : overflow[t] = OfOthers(p, overflow[t])
      BY <2>1, <3>1
    <3> QED
      BY <1>1, <2>3, <3>2
  <2>4. ASSUME NEW t \in far, NEW i \in DOMAIN overflow[t], overflow[t][i].pid = p,
               overflow' = [overflow EXCEPT ![t] = RemoveAt(@, i)]
        PROVE  overflow' = o2
    <3>1. t \in OverflowTimes /\ t \in Times /\ overflow[t] = Q[t] /\ overflow[t] \in Seq(Events)
      BY <1>5
    <3>2. Once(Q[t]) /\ p \in PidsOf(Q[t])
      BY <2>4, <3>1, TypesOf DEF Single, PidsOf
    <3>3. \A k \in DOMAIN overflow[t] : k # i => overflow[t][k].pid # p
      BY <2>4, <3>1, <3>2 DEF Once
    <3>4. OfOthers(p, overflow[t]) = RemoveAt(overflow[t], i)
      BY <2>4, <3>1, <3>3, OneTakenOut
    <3>5. \A u \in Times : u # t => p \notin PidsOf(overflow[u])
      <4> TAKE u \in Times
      <4> HAVE u # t
      <4>1. CASE u \in OverflowTimes
        <5>1. PidsOf(Q[u]) \cap PidsOf(Q[t]) = {} /\ overflow[u] = Q[u]
          BY <1>5, <3>1, <4>1, TypesOf DEF Single
        <5> QED
          BY <3>2, <5>1
      <4>2. CASE u \notin OverflowTimes
        BY <4>2, NoPids DEF OverflowTimes
      <4> QED
        BY <4>1, <4>2
    <3>6. \A u \in Times : u # t => OfOthers(p, overflow[u]) = overflow[u]
      BY <2>1, <3>5
    <3> QED
      BY <1>1, <2>4, <3>1, <3>4, <3>6
  <2>5. \/ overflow' = [t \in Times |-> IF t \in OverflowTimes
                                        THEN OfOthers(p, overflow[t]) ELSE <<>>]
        \/ far = {} /\ overflow' = overflow
        \/ \E t \in far : \E i \in DOMAIN overflow[t] :
              /\ overflow[t][i].pid = p
              /\ overflow' = [overflow EXCEPT ![t] = RemoveAt(@, i)]
    BY DEF RemovePid
  <2> QED
    BY <2>2, <2>3, <2>4, <2>5
<1> DEFINE q2 == [t \in Times |-> OfOthers(p, Q[t])]
<1>7. Q' = q2
  <2>1. ASSUME NEW t \in Times
        PROVE  ListAt(wheel', overflow', c, t) = OfOthers(p, ListAt(wheel, overflow, c, t))
    BY <1>2, <1>6, SlotIn DEF ListAt
  <2> QED
    BY <1>2, <2>1 DEF Q, QueueOf
<1>8. Shape(wheel', bitmap', overflow', currentTime')
  <2>1. overflow' \in [Times -> Seq(Events)]
    BY <1>1, <1>6, OthersKept
  <2>2. \A t \in Times : overflow'[t] # <<>> => t >= c + WheelSize
    BY <1>1, <1>3, <1>6
  <2>3. wheel' \in [Slots -> Seq(Events)]
    BY <1>2, <1>4
  <2>4. bitmap' = {s \in Slots : wheel'[s] # <<>>}
    BY <1>1, <1>2, <1>4
  <2>5. \A s \in Slots : wheel'[s] # <<>> =>
           \E t \in Times : t >= c /\ t < c + WheelSize /\ Slot(t) = s
    BY <1>1, <1>2, <1>4
  <2> QED
    BY <1>2, <2>1, <2>2, <2>3, <2>4, <2>5 DEF Shape
<1>9. Single(Q', batch) /\ \A u : In(Q', u) <=> In(Q, u) /\ u # p
  <2>1. Q \in Queues /\ Single(Q, batch)
    BY TypesOf
  <2>2. /\ Single([t \in Times |-> OfOthers(p, Q[t])], batch)
        /\ \A u : In([t \in Times |-> OfOthers(p, Q[t])], u) <=> In(Q, u) /\ u # p
    BY <2>1, Cancelled
  <2> QED
    BY <1>7, <2>2
<1>10. Counted(Q', pidCounts') /\ pidCounts' \in [Pids -> Nat]
  BY <1>2, <1>9, TypesOf DEF Counted
<1>11. \A t \in Times : t < time' => Q'[t] = <<>>
  BY <1>2, <1>3, <1>7, TypesOf
<1>12. IInv'
  BY <1>2, <1>8, <1>9, <1>10, <1>11, TypesOf, IInvParts, IInvKept
<1>13. EQ!Cancel(p)
  <2> DEFINE F == [u \in Times |-> QueueAt(u)]
  <2>1. F = Q /\ F' = Q'
    BY QueueIs, QueueIsNext
  <2> HIDE DEF F
  <2>2. F' = [u \in Times |-> OfOthers(p, F[u])]
    BY <1>7, <2>1
  <2>3. Times = EQ!Times /\ \A u : OfOthers(p, u) = EQ!OfOthers(p, u)
    <3>1. Times = EQ!Times
      BY DEF Times, EQ!Times
    <3>2. ASSUME NEW u PROVE OfOthers(p, u) = EQ!OfOthers(p, u)
      BY DEF OfOthers, EQ!OfOthers, Cardinality, EQ!Cardinality
    <3> QED
      BY <3>1, <3>2
  <2>4. F' = [u \in EQ!Times |-> EQ!OfOthers(p, F[u])]
    BY <2>2, <2>3
  <2> QED
    BY <1>2, <2>4, Zenon DEF EQ!Cancel, F
<1> QED
  BY <1>12, <1>13 DEF EQ!Next

-----------------------------------------------------------------------------
(* The theorems.                                                           *)

LEMMA NothingOf == Busy([t \in Times |-> <<>>]) = {}
  BY DEF Busy

LEMMA InitHolds == Init => IInv /\ EQ!Init
<1> SUFFICES ASSUME Init PROVE IInv /\ EQ!Init
  OBVIOUS
<1>1. Q = [t \in Times |-> <<>>]
  <2>1. \A t \in Times : ListAt(wheel, overflow, currentTime, t) = <<>>
    BY SlotIn DEF Init, ListAt
  <2> QED
    BY <2>1 DEF Q, QueueOf
<1>2. Shape(wheel, bitmap, overflow, currentTime)
  BY DEF Init, Shape
<1>3. occupiedWords \in 0 .. Words /\ occupiedWords = NonZeroWords(bitmap)
  BY WordsInUse, WordsAre DEF Init
<1>4. TypeOK
  <2>1. 0 \in Times /\ Times \subseteq Nat
    BY TimesAre
  <2>2. wheel \in [Slots -> Seq(Events)] /\ overflow \in [Times -> Seq(Events)]
    BY DEF Init
  <2>3. pidCounts \in [Pids -> Nat] /\ batch \in Seq(Events)
    BY DEF Init
  <2> QED
    BY <1>3, <2>1, <2>2, <2>3 DEF Init, TypeOK
<1>5. Single(Q, batch) /\ Counted(Q, pidCounts)
  <2>1. batch = <<>> /\ \A t \in Times : Q[t] = <<>>
    BY <1>1 DEF Init
  <2>2. PidsOf(batch) = {} /\ Once(batch) /\ \A t \in Times : PidsOf(Q[t]) = {} /\ Once(Q[t])
    BY <2>1, NoPids
  <2> QED
    BY <2>2 DEF Single, Counted, In, Init
<1>6. IInv
  BY <1>1, <1>2, <1>3, <1>4, <1>5 DEF IInv, Init
<1>7. EQ!Init
  BY <1>1, QueueIs DEF Init, EQ!Init, Times, EQ!Times
<1> QED
  BY <1>6, <1>7

LEMMA StepHolds ==
  ASSUME IInv, OnePerPid, [Next]_vars
  PROVE  IInv' /\ [EQ!Next]_EQ!vars
<1>1. ASSUME UNCHANGED vars PROVE IInv' /\ UNCHANGED EQ!vars
  <2>1. UNCHANGED <<time, wheel, bitmap, occupiedWords, overflow, nextCache, currentTime,
                    pidCounts, frontTime, frontPending, lastPopFront, batch, running>>
    BY <1>1 DEF vars, wheelVars
  <2>2. Q' = Q
    BY <2>1 DEF Q
  <2>3. IInv'
    BY <2>1, <2>2, TypesOf, IInvParts, IInvKept
  <2>4. UNCHANGED EQ!vars
    BY <2>1, <2>2, QueueIs, QueueIsNext DEF EQ!vars
  <2> QED
    BY <2>3, <2>4
<1>2. ASSUME Next PROVE IInv' /\ EQ!Next
  <2>1. \A p \in Pids, t \in Times : Schedule(p, t) => IInv' /\ EQ!Next
    BY ScheduleStep
  <2>2. \A p \in Pids : /\ ScheduleFront(p) => IInv' /\ EQ!Next
                        /\ RemovePid(p) => IInv' /\ EQ!Next
    BY ScheduleFrontStep, RemovePidStep
  <2>3. ReorderSlot \/ RequeueFront \/ PopFront \/ RemoveSlot \/ RunBatch => IInv' /\ EQ!Next
    BY ReorderSlotStep, RequeueFrontStep, PopFrontStep, RemoveSlotStep, RunBatchStep
  <2>4. \A t \in Times : /\ Advance(t) => IInv' /\ EQ!Next
                         /\ PutOff(t) => IInv' /\ EQ!Next
    BY AdvanceStep, PutOffStep
  <2> QED
    BY <1>2, <2>1, <2>2, <2>3, <2>4, Zenon DEF Next
<1> QED
  BY <1>1, <1>2

LEMMA InductiveInvariant ==
  ASSUME OnePerPid
  PROVE  Spec => []IInv
<1>1. Init => IInv
  BY InitHolds
<1>2. IInv /\ [Next]_vars => IInv'
  BY StepHolds
<1> QED
  BY <1>1, <1>2, PTL DEF Spec

(***************************************************************************)
(* When the callers schedule a process only while it has no entry, what    *)
(* the wheel keeps beside its lists always agrees with them: next_time()   *)
(* is the first time at which something waits, read from the memo or found *)
(* by the three phases of the scan; is_empty() and has_pid() are exact.    *)
(***************************************************************************)
THEOREM TheIndexes ==
  ASSUME OnePerPid
  PROVE  Spec => []IndexesAgree
<1>1. IInv => IndexesAgree
  BY TheIndexesAgree
<1> QED
  BY <1>1, InductiveInvariant, PTL

(***************************************************************************)
(* The wheel, its overflow map and the batches taken from it implement one *)
(* FIFO queue per time: every call of the event loops is the operation of  *)
(* EventQueue.tla that it stands for.                                      *)
(***************************************************************************)
THEOREM TheWheelIsAQueue ==
  ASSUME OnePerPid
  PROVE  Spec => ImplementsEventQueue
<1>1. Init => EQ!Init
  BY InitHolds
<1>2. IInv /\ [Next]_vars => [EQ!Next]_EQ!vars
  BY StepHolds
<1> QED
  BY <1>1, <1>2, InductiveInvariant, PTL DEF Spec, EQ!Spec, ImplementsEventQueue

-----------------------------------------------------------------------------
(***************************************************************************)
(* No entry is ever left in the past: the clock moves only over times at   *)
(* which nothing waits, nothing is scheduled before it, and what is put    *)
(* back is put back at the current time (the comment of next_time_scan     *)
(* tells of entries that a wrong next time made invisible).                *)
(***************************************************************************)
THEOREM NothingIsLeftBehind ==
  ASSUME OnePerPid
  PROVE  Spec => []EQ!NothingLeftBehind
<1>1. IInv => EQ!NothingLeftBehind
  <2> SUFFICES ASSUME IInv, NEW t \in Times, t < time
               PROVE  [u \in Times |-> QueueAt(u)][t] = <<>>
    BY DEF EQ!NothingLeftBehind, EQ!Times, Times
  <2>1. Q[t] = <<>>
    BY DEF IInv
  <2> QED
    BY <2>1, QueueIs
<1> QED
  BY <1>1, InductiveInvariant, PTL

-----------------------------------------------------------------------------
\* What stays true whether or not a process may be queued twice: the clocks
\* show times and the overflow map has one list for each time, which lies
\* beyond the window if it is not empty.
WInv == /\ time \in Times /\ currentTime \in Times
        /\ overflow = [t \in Times |-> overflow[t]]
        /\ OverflowBeyondWindow

\* An overflow map that only lost entries.
LEMMA LostEntries ==
  ASSUME WInv, overflow' = [t \in Times |-> overflow'[t]],
         \A t \in Times : overflow[t] = <<>> => overflow'[t] = <<>>,
         UNCHANGED <<time, currentTime>>
  PROVE  WInv'
  BY DEF WInv, OverflowBeyondWindow, OverflowTimes

\* move_overflow_into_wheel(time): what is left is beyond the new window.
LEMMA WindowAdvances ==
  ASSUME WInv, currentTime' = time, time' \in Times,
         overflow' = MovedOverflow(time)
  PROVE  WInv'
<1>1. /\ overflow' = [t \in Times |-> overflow'[t]]
      /\ time' \in Times /\ currentTime' \in Times
  BY DEF WInv, MovedOverflow
<1>2. ASSUME NEW t \in Times, overflow'[t] # <<>>
      PROVE  t >= currentTime' + WheelSize
  <2>1. t \notin Movable(time) /\ t \in OverflowTimes
    BY <1>2 DEF MovedOverflow, OverflowTimes
  <2> QED
    BY <2>1, WheelAssumption DEF Movable, WInv, Times
<1> QED
  BY <1>1, <1>2 DEF WInv, OverflowBeyondWindow, OverflowTimes

-----------------------------------------------------------------------------
(***************************************************************************)
(* A slot never stands for two times: every list of the overflow map is at *)
(* least a whole wheel ahead, so that moving it into its slot appends it   *)
(* to entries of its own time only, whatever is scheduled, cancelled, put  *)
(* off or run.                                                             *)
(***************************************************************************)
THEOREM WindowIsExclusive == Spec => []OverflowBeyondWindow
<1> USE WheelAssumption
<1>1. Init => WInv
  BY DEF Init, WInv, OverflowBeyondWindow, OverflowTimes, Times
<1>2. WInv /\ [Next]_vars => WInv'
  <2> SUFFICES ASSUME WInv, [Next]_vars PROVE WInv'
    OBVIOUS
  <2> USE DEF wheelVars
  \* Scheduling puts an entry in the overflow only when the window is too short.
  <2>1. ASSUME NEW t \in Times, NEW es, PutBack(t, es) \/ PutFront(t, es),
               UNCHANGED <<time, currentTime>>
        PROVE  WInv'
    <3>1. CASE InWheel(t)
      BY <2>1, <3>1, LostEntries DEF PutBack, PutFront, WInv
    <3>2. CASE ~ InWheel(t)
      <4>1. \/ overflow' = [overflow EXCEPT ![t] = @ \o es]
            \/ overflow' = [overflow EXCEPT ![t] = es \o @]
        BY <2>1, <3>2 DEF PutBack, PutFront
      <4>2. \A u \in Times \ {t} : overflow'[u] = overflow[u]
        BY <4>1 DEF WInv
      <4>3. t >= currentTime + WheelSize
        BY <3>2 DEF InWheel, WInv, Times
      <4> QED
        BY <2>1, <4>1, <4>2, <4>3 DEF WInv, OverflowBeyondWindow, OverflowTimes
    <3> QED
      BY <3>1, <3>2
  <2>2. ASSUME NEW p \in Pids, NEW t \in Times, Schedule(p, t) PROVE WInv'
    BY <2>1, <2>2 DEF Schedule
  <2>3. ASSUME NEW p \in Pids, ScheduleFront(p) PROVE WInv'
    BY <2>1, <2>3 DEF ScheduleFront, WInv
  <2>4. CASE RequeueFront
    BY <2>1, <2>4 DEF RequeueFront, WInv
  <2>5. CASE ReorderSlot
    BY <2>5, LostEntries DEF ReorderSlot, WInv
  <2>6. CASE PopFront \/ RemoveSlot
    BY <2>6, WindowAdvances DEF PopFront, RemoveSlot, WInv
  <2>7. CASE RunBatch
    BY <2>7, LostEntries DEF RunBatch, WInv
  \* Cancelling only takes entries away.
  <2>8. ASSUME NEW p \in Pids, RemovePid(p) PROVE WInv'
    <3>1. \/ overflow' = [t \in Times |-> IF t \in OverflowTimes
                                          THEN OfOthers(p, overflow[t]) ELSE <<>>]
          \/ overflow' = overflow
          \/ \E t \in OverflowTimes : \E i \in DOMAIN overflow[t] :
                overflow' = [overflow EXCEPT ![t] = RemoveAt(@, i)]
      BY <2>8 DEF RemovePid
    <3>2. overflow' = [t \in Times |-> overflow'[t]]
      BY <3>1 DEF WInv
    <3>3. \A t \in Times : overflow[t] = <<>> => overflow'[t] = <<>>
      BY <3>1 DEF WInv, OverflowTimes
    <3>4. UNCHANGED <<time, currentTime>>
      BY <2>8 DEF RemovePid
    <3> QED
      BY <3>2, <3>3, <3>4, LostEntries
  <2>9. ASSUME NEW t \in Times, Advance(t) PROVE WInv'
    BY <2>9 DEF Advance, WInv, OverflowBeyondWindow, OverflowTimes
  \* What is put off goes to the overflow only when the new window is too short.
  <2>10. ASSUME NEW t \in Times, PutOff(t) PROVE WInv'
    <3> DEFINE stuck == MovedWheel(time)[Slot(time)]
    <3>1. /\ currentTime' = time /\ time' = t
          /\ \/ overflow' = MovedOverflow(time)
             \/ /\ ~ t < time + WheelSize
                /\ overflow' = [MovedOverflow(time) EXCEPT ![t] = @ \o stuck]
      BY <2>10 DEF PutOff
    <3>2. CASE overflow' = MovedOverflow(time)
      BY <3>1, <3>2, WindowAdvances
    <3>3. CASE /\ ~ t < time + WheelSize
               /\ overflow' = [MovedOverflow(time) EXCEPT ![t] = @ \o stuck]
      <4>1. overflow' = [u \in Times |-> overflow'[u]]
        BY <3>3 DEF MovedOverflow
      <4>2. ASSUME NEW u \in Times, overflow'[u] # <<>>
            PROVE  u >= time + WheelSize
        <5>1. CASE u = t
          BY <3>3, <5>1 DEF WInv, Times
        <5>2. CASE u # t
          <6>1. u \notin Movable(time) /\ u \in OverflowTimes
            BY <3>3, <4>2, <5>2 DEF MovedOverflow, OverflowTimes
          <6> QED
            BY <6>1 DEF Movable, WInv, Times
        <5> QED
          BY <5>1, <5>2
      <4> QED
        BY <3>1, <4>1, <4>2 DEF WInv, OverflowBeyondWindow, OverflowTimes
    <3> QED
      BY <3>1, <3>2, <3>3
  <2>11. CASE UNCHANGED vars
    BY <2>11 DEF vars, WInv, OverflowBeyondWindow, OverflowTimes
  <2> QED
    BY <2>2, <2>3, <2>4, <2>5, <2>6, <2>7, <2>8, <2>9, <2>10, <2>11 DEF Next
<1>3. WInv => OverflowBeyondWindow
  BY DEF WInv
<1> QED
  BY <1>1, <1>2, <1>3, PTL DEF Spec
=============================================================================
