---------------------------- MODULE RunProofs ----------------------------
(***************************************************************************)
(* Proofs about a run: the dump it writes, how it is interrupted, and its  *)
(* time slots.  First the dump of FstFile.tla: whatever moment the process *)
(* is killed at, between two writes or in the middle of one, the file is   *)
(* readable and holds the blocks a reader was promised; and seen through   *)
(* ReadFile it implements BlockLog.tla.  Then the signal handling of       *)
(* Interrupt.tla, as the instance Stop: where the simulation thread runs   *)
(* the handler, the backstop alarm never outlives the acknowledgement and  *)
(* the `final` blocks are not cut by LOOP_STOP.  Last the event loop of    *)
(* TimeSlot.tla, as the instance Slot: no process is lost or runs twice,   *)
(* regions come in their order, and a slot ends with nothing left in it.   *)
(***************************************************************************)
EXTENDS TimeSlotState, FstFile, InterruptState, SequenceTheorems, WellFoundedInduction, TLAPS

-----------------------------------------------------------------------------
(***************************************************************************)
(* Reading a dump.                                                         *)
(***************************************************************************)
\* The bytes of the stage and of the dump: what they belong to, and where in it.
Bytes == [of : Int, at : Nat \ {0}, len : Nat \ {0}]

\* What ReadFile says at p, given what it says behind p.
Reading(f, F, p) ==
    IF p = Len(f) THEN [ok |-> TRUE, blocks |-> <<>>]
    ELSE IF ~WholeItem(f, p) THEN [ok |-> FALSE, blocks |-> <<>>]
    ELSE IF f[p + 1].of = TermId THEN [ok |-> TRUE, blocks |-> <<>>]
    ELSE LET rest == F[p + f[p + 1].len]
         IN  IF f[p + 1].of = PadId THEN rest
             ELSE [rest EXCEPT !.blocks = <<f[p + 1].of>> \o @]

\* A set of numbers with 0, and with k + 1 where it has k, has all of them.
LEMMA SetInduction ==
  ASSUME NEW T, 0 \in T, \A k \in Nat : k \in T => k + 1 \in T
  PROVE  Nat \subseteq T
<1> DEFINE U == Nat \ T
<1>1. SUFFICES ASSUME U # {} PROVE FALSE
  OBVIOUS
<1>2. U \in SUBSET Nat
  OBVIOUS
<1> HIDE DEF U
<1>3. PICK x \in U : \A y \in U : <<y, x>> \notin OpToRel(<, Nat)
  BY <1>1, <1>2, NatLessThanWellFounded, WFMin
<1> USE DEF U
<1>4. x # 0 /\ x - 1 \in Nat
  OBVIOUS
<1>5. <<x - 1, x>> \in OpToRel(<, Nat)
  BY <1>4 DEF OpToRel
<1>6. x - 1 \notin U
  BY <1>3, <1>5
<1> QED
  BY <1>4, <1>6

\* What is read at p depends only on what is read behind p.
LEMMA ReadingLooksBehind ==
  ASSUME NEW f \in Seq(Bytes), NEW p \in 0 .. Len(f), NEW F, NEW G,
         \A q \in p + 1 .. Len(f) : F[q] = G[q]
  PROVE  Reading(f, F, p) = Reading(f, G, p)
<1>1. CASE p = Len(f) \/ ~ WholeItem(f, p)
  BY <1>1 DEF Reading
<1>2. CASE p # Len(f) /\ WholeItem(f, p)
  <2>1. f[p + 1] \in Bytes
    BY <1>2
  <2>2. f[p + 1].len \in Nat \ {0}
    BY <2>1 DEF Bytes
  <2>3. p + f[p + 1].len <= Len(f)
    BY <1>2 DEF WholeItem
  <2> DEFINE q == p + f[p + 1].len
  <2>4. q \in p + 1 .. Len(f)
    BY <2>2, <2>3
  <2> HIDE DEF q
  <2>5. F[q] = G[q]
    BY <2>4
  <2> QED
    BY <1>2, <2>5, Zenon DEF Reading, q
<1> QED
  BY <1>1, <1>2

\* So the readings of all places of f exist together, from the end backwards ...
LEMMA ReadingsExist ==
  ASSUME NEW f \in Seq(Bytes)
  PROVE  \E F : F = [p \in 0 .. Len(f) |-> Reading(f, F, p)]
<1> DEFINE End(k) == Len(f) - k .. Len(f)
           Read(F, k) == [p \in End(k) |-> Reading(f, F, p)]
           T == {k \in Nat : k <= Len(f) => \E F : F = Read(F, k)}
<1>0. Len(f) \in Nat
  OBVIOUS
<1>1. 0 \in T
  <2> DEFINE u == [p \in End(0) |-> [ok |-> TRUE, blocks |-> <<>>]]
  <2>1. \A p \in End(0) : p = Len(f)
    BY <1>0
  <2>2. u = Read(u, 0)
    BY <2>1 DEF Reading
  <2> QED
    BY <2>2
<1>2. ASSUME NEW k \in Nat, k \in T PROVE k + 1 \in T
  <2>1. SUFFICES ASSUME k + 1 <= Len(f) PROVE \E F : F = Read(F, k + 1)
    BY <1>2
  <2>2. PICK u : u = Read(u, k)
    BY <1>0, <1>2, <2>1
  <2> DEFINE v == [p \in End(k + 1) |-> Reading(f, u, p)]
  <2>3. \A q \in End(k) : q \in End(k + 1)
    BY <1>0
  <2>4. \A q \in End(k) : v[q] = u[q]
    <3> HIDE DEF End
    <3>1. \A q \in End(k) : u[q] = Reading(f, u, q)
      BY <2>2, Zenon
    <3> QED
      BY <2>3, <3>1, Zenon
  <2> HIDE DEF v
  <2>5. ASSUME NEW p \in End(k + 1) PROVE v[p] = Reading(f, v, p)
    <3>1. p \in 0 .. Len(f)
      BY <1>0, <2>1
    <3>2. \A q \in p + 1 .. Len(f) : q \in End(k)
      BY <1>0
    <3>3. \A q \in p + 1 .. Len(f) : u[q] = v[q]
      <4> HIDE DEF End
      <4> QED
        BY <2>4, <3>2, Zenon
    <3>4. Reading(f, u, p) = Reading(f, v, p)
      BY <3>1, <3>3, ReadingLooksBehind
    <3>5. v[p] = Reading(f, u, p)
      <4> HIDE DEF End
      <4> QED
        BY Zenon DEF v
    <3> QED
      BY <3>4, <3>5
  <2>6. v = [p \in End(k + 1) |-> v[p]]
    BY DEF v
  <2>7. v = Read(v, k + 1)
    <3> HIDE DEF End
    <3>1. Read(v, k + 1) = [p \in End(k + 1) |-> v[p]]
      BY <2>5, Zenon
    <3> QED
      BY <2>6, <3>1, Zenon
  <2> HIDE DEF Read
  <2> QED
    BY <2>7
<1>3. Len(f) \in T
  <2> HIDE DEF T
  <2> QED
    BY <1>0, <1>1, <1>2, SetInduction
<1>4. PICK F : F = Read(F, Len(f))
  BY <1>0, <1>3
<1>5. End(Len(f)) = 0 .. Len(f)
  BY <1>0
<1> HIDE DEF End
<1> QED
  BY <1>4, <1>5, Zenon

\* ... and ReadFile is the one that begins at 0.
LEMMA ReadingIs ==
  ASSUME NEW f \in Seq(Bytes)
  PROVE  \E F : /\ ReadFile(f) = F[0]
                /\ \A p \in 0 .. Len(f) : F[p] = Reading(f, F, p)
<1> DEFINE u == CHOOSE F : F = [p \in 0 .. Len(f) |-> Reading(f, F, p)]
<1>1. u = [p \in 0 .. Len(f) |-> Reading(f, u, p)]
  BY ReadingsExist, Zenon
<1>2. ReadFile(f) = u[0]
  BY Zenon DEF ReadFile, Reading
<1> HIDE DEF u
<1>3. \A p \in 0 .. Len(f) : u[p] = Reading(f, u, p)
  BY <1>1, Zenon
<1> QED
  BY <1>2, <1>3
-----------------------------------------------------------------------------
\* The item that begins at p of f leads from n blocks to m.
Leads(f, p, n, m) ==
    /\ WholeItem(f, p)
    /\ IF f[p + 1].of = PadId THEN m = n ELSE f[p + 1].of = m /\ m = n + 1

\* The bytes of f from a up to b are the blocks i + 1 .. j, with pads between
\* them: n tells how many blocks lie before each place where an item begins.
Between(f, a, b, i, j, spots, n) ==
    /\ spots \subseteq a .. b /\ a \in spots /\ b \in spots
    /\ n[a] = i /\ n[b] = j
    /\ \A p \in spots : n[p] \in i .. j
    /\ \A p \in spots \ {b} :
          /\ f[p + 1] \in Bytes
          /\ p + f[p + 1].len \in spots
          /\ Leads(f, p, n[p], n[p + f[p + 1].len])

Stretch(f, a, b, i, j) == \E spots, n : Between(f, a, b, i, j, spots, n)

\* The bytes s stand in f behind o.
Stands(f, o, s) == /\ o + Len(s) <= Len(f)
                   /\ \A i \in 1 .. Len(s) : f[o + i] = s[i]

\* No bytes hold no blocks.
LEMMA EmptyStretch ==
  ASSUME NEW f, NEW a \in Nat, NEW i \in Nat
  PROVE  /\ Stretch(f, a, a, i, i)
         /\ \A j \in Nat : Stretch(f, a, a, i, j) => j = i
<1>1. Between(f, a, a, i, i, {a}, [p \in {a} |-> i])
  BY DEF Between
<1>2. \A j \in Nat : Stretch(f, a, a, i, j) => j = i
  BY DEF Stretch, Between
<1> QED
  BY <1>1, <1>2 DEF Stretch

\* The bytes of an item ...
LEMMA ItemIs ==
  ASSUME NEW id \in Int, NEW m \in Nat \ {0}
  PROVE  /\ Item(id, m) \in Seq(Bytes) /\ Len(Item(id, m)) = m
         /\ \A k \in 1 .. m : Item(id, m)[k] = [of |-> id, at |-> k, len |-> m]
<1>1. Item(id, m) \in [1 .. m -> Bytes]
  BY DEF Item, Bytes
<1>2. Item(id, m) \in Seq(Bytes)
  BY <1>1, SeqDef
<1>3. Len(Item(id, m)) = m
  BY <1>1, <1>2, LenProperties
<1> QED
  BY <1>2, <1>3 DEF Item

\* ... are found whole where they stand.
LEMMA ItemIsWhole ==
  ASSUME NEW f \in Seq(Bytes), NEW p \in Nat, NEW id \in Int, NEW m \in Nat \ {0},
         Stands(f, p, Item(id, m))
  PROVE  /\ f[p + 1] = [of |-> id, at |-> 1, len |-> m]
         /\ f[p + 1] \in Bytes
         /\ WholeItem(f, p)
         /\ p + m <= Len(f)
<1>1. /\ Len(Item(id, m)) = m
      /\ \A k \in 1 .. m : Item(id, m)[k] = [of |-> id, at |-> k, len |-> m]
  BY ItemIs
<1> HIDE DEF Item
<1>2. p + m <= Len(f) /\ \A k \in 1 .. m : f[p + k] = [of |-> id, at |-> k, len |-> m]
  BY <1>1 DEF Stands
<1>3. f[p + 1] = [of |-> id, at |-> 1, len |-> m]
  BY <1>2
<1>4. WholeItem(f, p)
  BY <1>2, <1>3 DEF WholeItem
<1> QED
  BY <1>2, <1>3, <1>4 DEF Bytes

\* A block, and a pad, is a stretch.
LEMMA ItemStretch ==
  ASSUME NEW f \in Seq(Bytes), NEW a \in Nat, NEW m \in Nat \ {0}, NEW i \in Nat
  PROVE  /\ Stands(f, a, Item(i + 1, m)) => Stretch(f, a, a + m, i, i + 1)
         /\ Stands(f, a, Item(PadId, m)) => Stretch(f, a, a + m, i, i)
<1>1. ASSUME Stands(f, a, Item(i + 1, m)) PROVE Stretch(f, a, a + m, i, i + 1)
  <2> DEFINE n == [p \in {a, a + m} |-> IF p = a THEN i ELSE i + 1]
  <2>1. f[a + 1] = [of |-> i + 1, at |-> 1, len |-> m] /\ WholeItem(f, a)
        /\ f[a + 1] \in Bytes
    BY <1>1, ItemIsWhole
  <2>2. n[a] = i /\ n[a + m] = i + 1
    OBVIOUS
  <2>3. Leads(f, a, n[a], n[a + m])
    BY <2>1, <2>2 DEF Leads, PadId
  <2> HIDE DEF n
  <2>4. Between(f, a, a + m, i, i + 1, {a, a + m}, n)
    <3>1. f[a + 1].len = m /\ {a, a + m} \ {a + m} = {a} /\ {a, a + m} \subseteq a .. a + m
      BY <2>1
    <3>2. \A p \in {a, a + m} : n[p] \in i .. i + 1
      BY <2>2
    <3> QED
      BY <2>1, <2>2, <2>3, <3>1, <3>2 DEF Between
  <2> QED
    BY <2>4 DEF Stretch
<1>2. ASSUME Stands(f, a, Item(PadId, m)) PROVE Stretch(f, a, a + m, i, i)
  <2> DEFINE n == [p \in {a, a + m} |-> i]
  <2>1. f[a + 1] = [of |-> PadId, at |-> 1, len |-> m] /\ WholeItem(f, a)
        /\ f[a + 1] \in Bytes
    BY <1>2, ItemIsWhole DEF PadId
  <2>2. n[a] = i /\ n[a + m] = i
    OBVIOUS
  <2>3. Leads(f, a, n[a], n[a + m])
    BY <2>1, <2>2 DEF Leads
  <2> HIDE DEF n
  <2>4. Between(f, a, a + m, i, i, {a, a + m}, n)
    BY <2>1, <2>2, <2>3 DEF Between
  <2> QED
    BY <2>4 DEF Stretch
<1> QED
  BY <1>1, <1>2

\* Two stretches in a row are one.
LEMMA StretchesJoin ==
  ASSUME NEW f \in Seq(Bytes), NEW a \in Nat, NEW b \in Nat, NEW c \in Nat,
         NEW i \in Nat, NEW j \in Nat, NEW k \in Nat,
         Stretch(f, a, b, i, j), Stretch(f, b, c, j, k)
  PROVE  Stretch(f, a, c, i, k)
<1>1. PICK P, n : Between(f, a, b, i, j, P, n)
  BY DEF Stretch
<1>2. PICK Q, m : Between(f, b, c, j, k, Q, m)
  BY DEF Stretch
<1> DEFINE h == [p \in P \cup Q |-> IF p \in P THEN n[p] ELSE m[p]]
<1>3. \A p \in P : p \in Nat /\ a <= p /\ p <= b
  BY <1>1 DEF Between
<1>4. \A q \in Q : q \in Nat /\ b <= q /\ q <= c
  BY <1>2 DEF Between
<1>5. n[b] = j /\ m[b] = j /\ a \in P /\ b \in P /\ b \in Q /\ c \in Q
  BY <1>1, <1>2 DEF Between
<1>6. a <= b /\ b <= c
  BY <1>3, <1>4, <1>5
<1>7. i <= j /\ j <= k
  BY <1>1, <1>2 DEF Between
<1>8. (\A p \in P : h[p] = n[p]) /\ (\A q \in Q : h[q] = m[q])
  <2>1. \A q \in Q : q \in P => q = b
    BY <1>3, <1>4
  <2> QED
    BY <1>5, <2>1
<1> HIDE DEF h
<1>9. \A p \in P \ {b} : /\ f[p + 1] \in Bytes
                         /\ p + f[p + 1].len \in P
                         /\ Leads(f, p, h[p], h[p + f[p + 1].len])
  BY <1>1, <1>8 DEF Between
<1>10. \A q \in Q \ {c} : /\ f[q + 1] \in Bytes
                          /\ q + f[q + 1].len \in Q
                          /\ Leads(f, q, h[q], h[q + f[q + 1].len])
  BY <1>2, <1>8 DEF Between
<1>11. \A p \in (P \cup Q) \ {c} : p \in P \ {b} \/ p \in Q \ {c}
  BY <1>5
<1>12. h[a] = i /\ h[c] = k
  BY <1>1, <1>2, <1>5, <1>8 DEF Between
<1>13. \A p \in P \cup Q : h[p] \in i .. k
  <2>1. (\A p \in P : n[p] \in i .. j) /\ (\A q \in Q : m[q] \in j .. k)
    BY <1>1, <1>2 DEF Between
  <2>2. (\A p \in P : h[p] \in i .. j) /\ (\A q \in Q : h[q] \in j .. k)
    BY <1>8, <2>1
  <2> QED
    BY <1>7, <2>2
<1>14. P \cup Q \subseteq a .. c
  BY <1>3, <1>4, <1>6
<1>15. \A p \in (P \cup Q) \ {c} :
          /\ f[p + 1] \in Bytes
          /\ p + f[p + 1].len \in P \cup Q
          /\ Leads(f, p, h[p], h[p + f[p + 1].len])
  BY <1>9, <1>10, <1>11, Zenon
<1>16. Between(f, a, c, i, k, P \cup Q, h)
  BY <1>5, <1>12, <1>13, <1>14, <1>15, Zenon DEF Between
<1> QED
  BY <1>16 DEF Stretch

\* A stretch depends on its own bytes only, wherever they stand.
LEMMA StretchMoves ==
  ASSUME NEW f \in Seq(Bytes), NEW g \in Seq(Bytes), NEW a \in Nat, NEW b \in Nat,
         NEW d \in Int, NEW i \in Nat, NEW j \in Nat,
         NEW u \in Nat, NEW v \in Nat, u = a + d, v = b + d, v <= Len(g), b <= Len(f),
         \A x \in a + 1 .. b : g[x + d] = f[x],
         Stretch(f, a, b, i, j)
  PROVE  Stretch(g, u, v, i, j)
<1>1. PICK P, n : Between(f, a, b, i, j, P, n)
  BY DEF Stretch
<1> DEFINE Q == {p + d : p \in P}
           m == [q \in Q |-> n[q - d]]
<1>2. \A p \in P : p \in Nat /\ a <= p /\ p <= b
  BY <1>1 DEF Between
<1>3. \A p \in P : p + d \in Q /\ m[p + d] = n[p]
  BY <1>2
<1>4. \A q \in Q : q - d \in P /\ q = (q - d) + d /\ q \in a + d .. b + d
  BY <1>2
<1> HIDE DEF Q, m
<1>5. ASSUME NEW p \in P, p # b
      PROVE  /\ g[p + d + 1] \in Bytes
             /\ p + d + g[p + d + 1].len \in Q
             /\ Leads(g, p + d, m[p + d], m[p + d + g[p + d + 1].len])
  <2>1. /\ f[p + 1] \in Bytes /\ p + f[p + 1].len \in P
        /\ Leads(f, p, n[p], n[p + f[p + 1].len])
    BY <1>1, <1>5 DEF Between
  <2>2. p \in Nat /\ a <= p /\ p < b
    BY <1>2, <1>5
  <2> DEFINE l == f[p + 1].len
  <2>3. l \in Nat \ {0} /\ p + l <= b
    BY <1>2, <2>1 DEF Bytes
  <2>4. \A k \in 1 .. l : g[p + d + k] = f[p + k]
    <3> SUFFICES ASSUME NEW k \in 1 .. l PROVE g[p + d + k] = f[p + k]
      OBVIOUS
    <3>1. p + k \in a + 1 .. b
      <4> HIDE DEF l
      <4> QED
        BY <2>2, <2>3
    <3>2. (p + k) + d = p + d + k
      BY <2>2
    <3> QED
      BY <3>1, <3>2
  <2>5. g[p + d + 1] = f[p + 1]
    BY <2>3, <2>4
  <2>6. WholeItem(g, p + d)
    <3>1. WholeItem(f, p)
      BY <2>1 DEF Leads
    <3>2. p + d + l <= Len(g)
      <4> HIDE DEF l
      <4> QED
        BY <2>2, <2>3
    <3> QED
      BY <2>4, <2>5, <3>1, <3>2 DEF WholeItem
  <2>7. p + d + l = (p + l) + d
    <3> HIDE DEF l
    <3> QED
      BY <2>2, <2>3
  <2>8. p + d + l \in Q /\ m[p + d + l] = n[p + l] /\ m[p + d] = n[p]
    BY <1>3, <2>1, <2>7
  <2> HIDE DEF l
  <2>9. Leads(g, p + d, m[p + d], m[p + d + l])
    BY <2>1, <2>5, <2>6, <2>8 DEF Leads, l
  <2> QED
    BY <2>1, <2>5, <2>8, <2>9 DEF l
<1>6. ASSUME NEW q \in Q, q # b + d
      PROVE  /\ g[q + 1] \in Bytes
             /\ q + g[q + 1].len \in Q
             /\ Leads(g, q, m[q], m[q + g[q + 1].len])
  <2> DEFINE p == q - d
  <2>1. p \in P /\ q = p + d /\ p # b
    BY <1>4, <1>6
  <2> HIDE DEF p
  <2> QED
    BY <1>5, <2>1
<1>7. a + d \in Q /\ b + d \in Q /\ m[a + d] = i /\ m[b + d] = j
  BY <1>1, <1>3 DEF Between
<1>8. \A q \in Q : m[q] \in i .. j
  BY <1>1, <1>3, <1>4 DEF Between
<1>9. Q \subseteq a + d .. b + d
  BY <1>4
<1>10. Between(g, a + d, b + d, i, j, Q, m)
  BY <1>6, <1>7, <1>8, <1>9, Zenon DEF Between
<1> QED
  BY <1>10, Zenon DEF Stretch
-----------------------------------------------------------------------------
\* The blocks behind the first x of k.
After(x, k) == [i \in 1 .. k - x |-> x + i]

\* Block x + 1 comes before those behind it.
LEMMA AfterIs ==
  ASSUME NEW k \in Nat, NEW x \in 0 .. k
  PROVE  /\ After(x, k) \in Seq(Int)
         /\ x = k => After(x, k) = <<>>
         /\ x < k => <<x + 1>> \o After(x + 1, k) = After(x, k)
<1>1. \A y \in 0 .. k : After(y, k) \in Seq(Int) /\ Len(After(y, k)) = k - y
  <2> SUFFICES ASSUME NEW y \in 0 .. k
               PROVE  After(y, k) \in Seq(Int) /\ Len(After(y, k)) = k - y
    OBVIOUS
  <2>1. After(y, k) \in [1 .. k - y -> Int] /\ k - y \in Nat
    BY DEF After
  <2>2. After(y, k) \in Seq(Int)
    BY <2>1, SeqDef
  <2> QED
    BY <2>1, <2>2, LenProperties
<1>2. ASSUME x = k PROVE After(x, k) = <<>>
  BY <1>1, <1>2, EmptySeq
<1>3. ASSUME x < k PROVE <<x + 1>> \o After(x + 1, k) = After(x, k)
  <2> DEFINE r == After(x + 1, k)
             s == <<x + 1>> \o r
  <2>1. r \in Seq(Int) /\ Len(r) = k - (x + 1)
    BY <1>1, <1>3
  <2>2. <<x + 1>> \in Seq(Int) /\ Len(<<x + 1>>) = 1 /\ <<x + 1>>[1] = x + 1
    OBVIOUS
  <2>3. \A i \in 1 .. k - (x + 1) : r[i] = x + 1 + i
    BY DEF After
  <2>4. \A i \in 1 .. k - x : After(x, k)[i] = x + i
    BY DEF After
  <2> HIDE DEF r
  <2>5. /\ s \in Seq(Int) /\ Len(s) = 1 + (k - (x + 1))
        /\ \A i \in 1 .. 1 + (k - (x + 1)) :
              s[i] = IF i <= 1 THEN <<x + 1>>[i] ELSE r[i - 1]
    BY <2>1, <2>2, ConcatProperties
  <2> HIDE DEF s
  <2>6. ASSUME NEW i \in 1 .. k - x PROVE s[i] = After(x, k)[i]
    <3>1. i \in 1 .. 1 + (k - (x + 1))
      OBVIOUS
    <3>2. After(x, k)[i] = x + i
      BY <2>4
    <3>3. CASE i = 1
      BY <2>2, <2>5, <3>1, <3>2, <3>3
    <3>4. CASE i # 1
      <4>1. i - 1 \in 1 .. k - (x + 1) /\ ~ (i <= 1)
        BY <3>4
      <4>2. s[i] = r[i - 1]
        BY <2>5, <3>1, <4>1
      <4>3. r[i - 1] = x + 1 + (i - 1)
        BY <2>3, <4>1
      <4> QED
        BY <3>2, <4>2, <4>3
    <3> QED
      BY <3>3, <3>4
  <2>7. After(x, k) \in Seq(Int) /\ Len(After(x, k)) = k - x
    BY <1>1
  <2>8. Len(s) = Len(After(x, k)) /\ Len(s) = k - x
    BY <2>5, <2>7
  <2> HIDE DEF After
  <2>9. s = After(x, k)
    BY <2>5, <2>6, <2>7, <2>8, SeqEqual
  <2> QED
    BY <2>9 DEF s, r
<1> QED
  BY <1>1, <1>2, <1>3

\* A file that a reader accepts, and finds the first k blocks in.
Accepted(k) == [ok |-> TRUE, blocks |-> After(0, k)]

\* What a reader makes of a stretch from the start up to a terminator or the end.
LEMMA StretchIsRead ==
  ASSUME NEW f \in Seq(Bytes), NEW o \in 0 .. Len(f), NEW k \in Nat,
         Stretch(f, 0, o, 0, k),
         o = Len(f) \/ Stands(f, o, Item(TermId, TermLen))
  PROVE  ReadFile(f) = Accepted(k)
<1>1. PICK F : /\ ReadFile(f) = F[0]
               /\ \A p \in 0 .. Len(f) : F[p] = Reading(f, F, p)
  BY ReadingIs
<1>2. PICK P, n : Between(f, 0, o, 0, k, P, n)
  BY DEF Stretch
<1>3. Len(f) \in Nat /\ o \in Nat
  OBVIOUS
<1>4. \A p \in P : p \in Nat /\ p <= o /\ n[p] \in 0 .. k /\ p \in 0 .. Len(f)
  <2>1. P \subseteq 0 .. o /\ \A p \in P : n[p] \in 0 .. k
    BY <1>2 DEF Between
  <2> QED
    BY <1>3, <2>1
<1>5. 0 \in P /\ o \in P /\ n[0] = 0 /\ n[o] = k
  BY <1>2 DEF Between
<1> DEFINE Read(x) == [ok |-> TRUE, blocks |-> After(x, k)]
           T == {d \in Nat : \A p \in P : o - p <= d => F[p] = Read(n[p])}
<1>6. F[o] = Read(k)
  <2>1. F[o] = [ok |-> TRUE, blocks |-> <<>>]
    <3>1. F[o] = Reading(f, F, o)
      BY <1>1
    <3>2. CASE o = Len(f)
      BY <3>1, <3>2 DEF Reading
    <3>3. CASE o # Len(f) /\ Stands(f, o, Item(TermId, TermLen))
      <4>0. TermId \in Int /\ TermLen \in Nat \ {0}
        BY LayoutAssumption DEF TermId
      <4>1. /\ WholeItem(f, o)
            /\ f[o + 1] = [of |-> TermId, at |-> 1, len |-> TermLen]
        BY <1>3, <3>3, <4>0, ItemIsWhole
      <4> QED
        BY <3>1, <3>3, <4>1 DEF Reading
    <3> QED
      BY <3>2, <3>3
  <2>2. After(k, k) = <<>>
    <3>1. k \in 0 .. k
      OBVIOUS
    <3> QED
      BY <3>1, AfterIs
  <2> QED
    BY <2>1, <2>2
<1>7. 0 \in T
  <2>1. \A p \in P : o - p <= 0 => p = o
    BY <1>3, <1>4
  <2> HIDE DEF Read
  <2> QED
    BY <1>5, <1>6, <2>1
<1>8. ASSUME NEW d \in Nat, d \in T PROVE d + 1 \in T
  <2>1. SUFFICES ASSUME NEW p \in P, p # o, o - p <= d + 1 PROVE F[p] = Read(n[p])
    <3> HIDE DEF Read
    <3> QED
      BY <1>5, <1>6
  <2> DEFINE q == p + f[p + 1].len
  <2>2. f[p + 1] \in Bytes /\ q \in P /\ Leads(f, p, n[p], n[q])
    BY <1>2, <2>1 DEF Between
  <2>3. f[p + 1].len \in Nat \ {0}
    BY <2>2 DEF Bytes
  <2>4. o - q <= d
    BY <1>3, <1>4, <2>1, <2>3
  <2> HIDE DEF q
  <2>5. F[q] = Read(n[q])
    BY <1>8, <2>2, <2>4
  <2>6. p # Len(f) /\ WholeItem(f, p)
    BY <1>3, <1>4, <2>1, <2>2 DEF Leads
  <2>7. F[p] = Reading(f, F, p)
    BY <1>1, <1>4
  <2>8. n[p] \in 0 .. k /\ n[q] \in 0 .. k
    BY <1>4, <2>2
  <2>9. CASE f[p + 1].of = PadId
    <3>1. n[q] = n[p]
      BY <2>2, <2>9 DEF Leads
    <3>2. f[p + 1].of # TermId
      BY <2>9 DEF TermId, PadId
    <3>3. Reading(f, F, p) = F[q]
      BY <2>6, <2>9, <3>2, Zenon DEF Reading, q
    <3> QED
      BY <2>5, <2>7, <3>1, <3>3, Zenon
  <2>10. CASE f[p + 1].of # PadId
    <3>1. f[p + 1].of = n[p] + 1 /\ n[q] = n[p] + 1
      BY <2>2, <2>10 DEF Leads
    <3>2. f[p + 1].of # TermId
      BY <2>8, <3>1 DEF TermId
    <3>3. Reading(f, F, p) = [F[q] EXCEPT !.blocks = <<f[p + 1].of>> \o @]
      BY <2>6, <2>10, <3>2, Zenon DEF Reading, q
    <3> DEFINE x == n[p]
    <3>4. F[q] = [ok |-> TRUE, blocks |-> After(x + 1, k)]
      BY <2>5, <3>1
    <3>5. Reading(f, F, p) = [ok |-> TRUE, blocks |-> <<x + 1>> \o After(x + 1, k)]
      <4>1. \A w, z : [[ok |-> TRUE, blocks |-> z] EXCEPT !.blocks = w]
                        = [ok |-> TRUE, blocks |-> w]
        OBVIOUS
      <4>2. F[q].blocks = After(x + 1, k)
        BY <3>4
      <4> HIDE DEF x
      <4>3. Reading(f, F, p) = [F[q] EXCEPT !.blocks = <<x + 1>> \o F[q].blocks]
        BY <3>1, <3>3, Zenon DEF x
      <4>4. Reading(f, F, p) = [F[q] EXCEPT !.blocks = <<x + 1>> \o After(x + 1, k)]
        BY <4>2, <4>3, Zenon
      <4> QED
        BY <3>4, <4>1, <4>4, Zenon
    <3>6. x \in 0 .. k /\ x < k
      BY <2>8, <3>1
    <3>7. <<x + 1>> \o After(x + 1, k) = After(x, k)
      <4> HIDE DEF x
      <4> QED
        BY <3>6, AfterIs
    <3> QED
      BY <2>7, <3>5, <3>7
  <2> QED
    BY <2>9, <2>10
<1>9. o \in T
  <2> HIDE DEF T
  <2> QED
    BY <1>3, <1>7, <1>8, SetInduction
<1>10. F[0] = Read(n[0])
  <2> HIDE DEF Read
  <2> QED
    BY <1>3, <1>5, <1>9
<1> QED
  BY <1>1, <1>5, <1>10 DEF Accepted
-----------------------------------------------------------------------------
\* Where in its page an offset lies.
LEMMA ModPlus ==
  ASSUME NEW x \in Nat, NEW P \in Nat \ {0}, NEW n \in Nat, n < P
  PROVE  (x + n) % P = IF (x % P) + n < P THEN (x % P) + n ELSE (x % P) + n - P
<1> DEFINE d == x \div P
           r == x % P
           e == (x + n) \div P
           s == (x + n) % P
<1>1. x = P * d + r /\ r \in 0 .. P - 1 /\ d \in Nat
  BY SMT
<1>2. x + n = P * e + s /\ s \in 0 .. P - 1 /\ e \in Nat
  BY SMT
<1> HIDE DEF d, r, e, s
<1>3. P * e + s = P * d + r + n
  BY <1>1, <1>2
<1>5. e >= d
  <2>1. ASSUME e + 1 <= d PROVE FALSE
    <3>1. PICK g \in Nat : d = e + 1 + g
      BY <1>1, <1>2, <2>1
    <3>2. P * d = P * e + P + P * g
      BY <3>1, <1>2
    <3>3. P * g >= 0 /\ P * g \in Int
      BY <3>1
    <3> QED
      BY <1>1, <1>2, <1>3, <3>2, <3>3
  <2> QED
    BY <2>1, <1>1, <1>2
<1>6. e <= d + 1
  <2>1. ASSUME e >= d + 2 PROVE FALSE
    <3>1. PICK g \in Nat : e = d + 2 + g
      BY <1>1, <1>2, <2>1
    <3>2. P * e = P * d + P + P + P * g
      BY <3>1, <1>1
    <3>3. P * g >= 0 /\ P * g \in Int
      BY <3>1
    <3> QED
      BY <1>1, <1>2, <1>3, <3>2, <3>3
  <2> QED
    BY <2>1, <1>1, <1>2
<1>7. CASE e = d
  BY <1>7, <1>1, <1>2, <1>3 DEF r, s
<1>8. CASE e = d + 1
  <2>1. P * e = P * d + P
    BY <1>8, <1>1
  <2> QED
    BY <2>1, <1>1, <1>2, <1>3 DEF r, s
<1> QED
  BY <1>1, <1>2, <1>5, <1>6, <1>7, <1>8

-----------------------------------------------------------------------------
\* A write inside the file, or at its end.
LEMMA WriteIs ==
  ASSUME NEW f \in Seq(Bytes), NEW s \in Seq(Bytes), NEW o \in 0 .. Len(f)
  PROVE  /\ WriteAt(f, o, s) \in Seq(Bytes)
         /\ Len(WriteAt(f, o, s)) >= Len(f)
         /\ Stands(WriteAt(f, o, s), o, s)
         /\ \A x \in 1 .. Len(f) : x <= o \/ x > o + Len(s) => WriteAt(f, o, s)[x] = f[x]
<1> DEFINE g == WriteAt(f, o, s)
           l == IF Len(f) > o + Len(s) THEN Len(f) ELSE o + Len(s)
<1>1. Len(f) \in Nat /\ Len(s) \in Nat /\ o \in Nat /\ o <= Len(f)
  OBVIOUS
<1>2. l \in Nat /\ l >= Len(f) /\ l >= o + Len(s)
  BY <1>1
<1>3. g = [i \in 1 .. l |-> IF i > o /\ i <= o + Len(s) THEN s[i - o] ELSE f[i]]
  BY DEF WriteAt
<1>4. l = Len(f) \/ l = o + Len(s)
  OBVIOUS
<1> HIDE DEF g, l
<1>5. ASSUME NEW i \in 1 .. l PROVE g[i] \in Bytes
  <2>1. CASE i > o /\ i <= o + Len(s)
    <3>1. i - o \in 1 .. Len(s)
      BY <1>1, <1>2, <2>1
    <3>2. s[i - o] \in Bytes
      BY <3>1
    <3> QED
      BY <1>3, <2>1, <3>2
  <2>2. CASE ~ (i > o /\ i <= o + Len(s))
    <3>1. i \in 1 .. Len(f)
      BY <1>1, <1>2, <1>4, <2>2
    <3>2. f[i] \in Bytes
      BY <3>1
    <3> QED
      BY <1>3, <2>2, <3>2
  <2> QED
    BY <2>1, <2>2
<1>6. g \in Seq(Bytes) /\ Len(g) = l
  <2>1. g \in [1 .. l -> Bytes]
    BY <1>3, <1>5
  <2>2. g \in Seq(Bytes)
    BY <1>2, <2>1, SeqDef
  <2> QED
    BY <1>2, <2>1, <2>2, LenProperties
<1>7. Stands(g, o, s)
  <2>1. ASSUME NEW i \in 1 .. Len(s) PROVE g[o + i] = s[i]
    <3>1. /\ o + i \in 1 .. l /\ o + i > o /\ o + i <= o + Len(s)
          /\ (o + i) - o = i
      BY <1>1, <1>2
    <3> QED
      BY <1>3, <3>1
  <2> QED
    BY <1>2, <1>6, <2>1 DEF Stands
<1>8. \A x \in 1 .. Len(f) : x <= o \/ x > o + Len(s) => g[x] = f[x]
  <2> SUFFICES ASSUME NEW x \in 1 .. Len(f), x <= o \/ x > o + Len(s)
               PROVE  g[x] = f[x]
    OBVIOUS
  <2>1. x \in 1 .. l /\ ~ (x > o /\ x <= o + Len(s))
    BY <1>1, <1>2
  <2> QED
    BY <1>3, <2>1
<1> QED
  BY <1>2, <1>6, <1>7, <1>8 DEF g

\* What stands in a file stands there piece by piece.
LEMMA StandsApart ==
  ASSUME NEW f \in Seq(Bytes), NEW s \in Seq(Bytes), NEW t \in Seq(Bytes), NEW o \in Nat,
         Stands(f, o, s \o t)
  PROVE  Stands(f, o, s) /\ Stands(f, o + Len(s), t)
<1>1. /\ Len(s \o t) = Len(s) + Len(t)
      /\ \A i \in 1 .. Len(s) + Len(t) :
            (s \o t)[i] = IF i <= Len(s) THEN s[i] ELSE t[i - Len(s)]
  BY ConcatProperties
<1>2. Len(s) \in Nat /\ Len(t) \in Nat
  OBVIOUS
<1> DEFINE u == s \o t
<1>3. /\ o + Len(s) + Len(t) <= Len(f)
      /\ \A i \in 1 .. Len(s) + Len(t) : f[o + i] = u[i]
  <2>1. o + Len(u) <= Len(f) /\ \A i \in 1 .. Len(u) : f[o + i] = u[i]
    BY DEF Stands
  <2> HIDE DEF u
  <2> QED
    BY <1>1, <1>2, <2>1 DEF u
<1> HIDE DEF u
<1>4. ASSUME NEW i \in 1 .. Len(s) PROVE f[o + i] = s[i]
  <2>1. i \in 1 .. Len(s) + Len(t) /\ i <= Len(s)
    BY <1>2
  <2>2. f[o + i] = u[i]
    BY <1>3, <2>1
  <2>3. u[i] = s[i]
    BY <1>1, <2>1 DEF u
  <2> QED
    BY <2>2, <2>3
<1>5. ASSUME NEW i \in 1 .. Len(t) PROVE f[o + Len(s) + i] = t[i]
  <2>1. /\ Len(s) + i \in 1 .. Len(s) + Len(t) /\ ~ (Len(s) + i <= Len(s))
        /\ (Len(s) + i) - Len(s) = i /\ o + (Len(s) + i) = o + Len(s) + i
    BY <1>2
  <2>2. f[o + (Len(s) + i)] = u[Len(s) + i]
    BY <1>3, <2>1
  <2>3. u[Len(s) + i] = t[i]
    BY <1>1, <2>1 DEF u
  <2> QED
    BY <2>1, <2>2, <2>3
<1>6. o + Len(s) <= Len(f) /\ o + Len(s) + Len(t) <= Len(f)
  BY <1>2, <1>3
<1> QED
  BY <1>4, <1>5, <1>6 DEF Stands

\* TerminatorAt of a dump that begins at b.
Ending(b, o) ==
    IF (b + o) % Page > Page - TermLen
    THEN [bytes |-> Item(PadId, TermLen) \o Item(TermId, TermLen), at |-> o + TermLen]
    ELSE [bytes |-> Item(TermId, TermLen), at |-> o]

\* It is a pad, if there is one, and a terminator that does not cross a page.
LEMMA EndingIs ==
  ASSUME NEW b \in Nat, NEW o \in Nat
  PROVE  /\ Ending(b, o).at \in Nat /\ Ending(b, o).at >= o
         /\ Ending(b, o).bytes \in Seq(Bytes)
         /\ Len(Ending(b, o).bytes) = Ending(b, o).at - o + TermLen
         /\ (b + Ending(b, o).at) % Page <= Page - TermLen
         /\ \A f \in Seq(Bytes), i \in Nat :
               Stands(f, o, Ending(b, o).bytes)
                  => /\ Stretch(f, o, Ending(b, o).at, i, i)
                     /\ Stands(f, Ending(b, o).at, Item(TermId, TermLen))
<1> DEFINE pad == Item(PadId, TermLen)
           term == Item(TermId, TermLen)
<1>1. /\ TermLen \in Nat \ {0} /\ Page \in Nat \ {0} /\ Page > 2 * TermLen
      /\ PadId \in Int /\ TermId \in Int
  BY LayoutAssumption DEF PadId, TermId
<1>2. /\ pad \in Seq(Bytes) /\ term \in Seq(Bytes)
      /\ Len(pad) = TermLen /\ Len(term) = TermLen
  BY <1>1, ItemIs
<1> DEFINE r == (b + o) % Page
<1>3. r \in 0 .. Page - 1
  BY <1>1
<1>4. CASE r > Page - TermLen
  <2>1. Ending(b, o) = [bytes |-> pad \o term, at |-> o + TermLen]
    BY <1>4 DEF Ending
  <2> HIDE DEF pad, term, r
  <2>2. pad \o term \in Seq(Bytes) /\ Len(pad \o term) = TermLen + TermLen
    BY <1>2, ConcatProperties
  <2>3. ((b + o) + TermLen) % Page = r + TermLen - Page
    <3>1. TermLen < Page /\ b + o \in Nat /\ TermLen \in Nat
      BY <1>1
    <3>2. ((b + o) + TermLen) % Page
             = IF r + TermLen < Page THEN r + TermLen ELSE r + TermLen - Page
      BY <1>1, <3>1, ModPlus DEF r
    <3> QED
      BY <1>1, <1>3, <1>4, <3>2
  <2>4. b + (o + TermLen) = (b + o) + TermLen
    BY <1>1
  <2>5. (b + (o + TermLen)) % Page <= Page - TermLen
    BY <1>1, <1>3, <2>3, <2>4
  <2>6. ASSUME NEW f \in Seq(Bytes), NEW i \in Nat, Stands(f, o, pad \o term)
        PROVE  Stretch(f, o, o + TermLen, i, i) /\ Stands(f, o + TermLen, term)
    <3>1. Stands(f, o, pad) /\ Stands(f, o + TermLen, term)
      BY <1>2, <2>6, StandsApart
    <3> QED
      BY <1>1, <3>1, ItemStretch DEF pad
  <2>7. /\ Ending(b, o).bytes = pad \o term
        /\ Ending(b, o).at = o + TermLen
    BY <2>1
  <2> QED
    BY <1>1, <2>2, <2>5, <2>6, <2>7 DEF term
<1>5. CASE ~ (r > Page - TermLen)
  <2>1. Ending(b, o) = [bytes |-> term, at |-> o]
    BY <1>5 DEF Ending
  <2>2. r <= Page - TermLen
    BY <1>1, <1>3, <1>5
  <2> HIDE DEF pad, term
  <2>3. \A f \in Seq(Bytes), i \in Nat : Stretch(f, o, o, i, i)
    BY EmptyStretch
  <2>4. Ending(b, o).bytes = term /\ Ending(b, o).at = o
    BY <2>1
  <2> QED
    BY <1>1, <1>2, <2>2, <2>3, <2>4 DEF term
<1> QED
  BY <1>4, <1>5
-----------------------------------------------------------------------------
(***************************************************************************)
(* The inductive invariant.  Up to its terminator the dump holds the first *)
(* c blocks, and the stage behind `staged` the others; behind the          *)
(* terminator stands what an append has copied so far, which is why the    *)
(* write of the head makes all of them readable.                           *)
(***************************************************************************)
\* The stage holds the blocks that are not in the dump, if any.
StageOK(c) ==
    /\ Stretch(stage, staged, Len(stage), c, produced)
    /\ staged = Len(stage) \/ staged + TermLen < Len(stage)

\* The dump holds the others, and a terminator in one page.
DumpOK(c) ==
    /\ Stretch(dump, 0, end, 0, c)
    /\ header = "absent" => end = 0 /\ dump = <<>>
    /\ header # "absent" => (base + end) % Page <= Page - TermLen
    /\ header # "absent" /\ pc # "closed" => Stands(dump, end, Item(TermId, TermLen))
    /\ pc = "closed" => Len(dump) = end

\* How far an append has come.
TailAt == end + Len(stage) - staged

AppendOK ==
    Writing =>
      /\ header = "open"
      /\ staged + TermLen <= at /\ staged + TermLen < Len(stage)
      /\ end + at - staged <= Len(dump)
      /\ \A x \in staged + TermLen + 1 .. at : dump[x + (end - staged)] = stage[x]
      /\ pc = "copy" => at < Len(stage)
      /\ pc # "copy" => at = Len(stage)
      /\ pc = "head" => Stands(dump, TailAt, Ending(base, TailAt).bytes)

\* How far begin, finish and give_up have come.
PhaseOK ==
    /\ pc = "begin" => header = "absent"
    /\ pc \in {"header", "truncate", "closed"} => staged = Len(stage) /\ header # "absent"
    /\ pc \in {"truncate", "closed"} => header = "final"
    /\ header = "final" => /\ pc \in {"truncate", "closed", "gave_up"}
                           /\ staged = Len(stage)

LiveOK(c) == StageOK(c) /\ DumpOK(c) /\ AppendOK /\ PhaseOK

\* What a killed process leaves.
DeadOK(c) ==
    /\ ReadFile(dump) = Accepted(c)
    /\ header # "absent" /\ pc # "closed" => (base + end) % Page <= Page - TermLen
    /\ header = "final" => c = produced

BytesOK == base \in Nat /\ stage \in Seq(Bytes) /\ dump \in Seq(Bytes)

FileInv == /\ TypeOK /\ BytesOK
           /\ \E c \in Nat : IF alive THEN LiveOK(c) ELSE DeadOK(c)

\* It holds before the dump is created.
LEMMA Initially == Init => FileInv
<1> SUFFICES ASSUME Init PROVE FileInv
  OBVIOUS
<1>1. TypeOK
  <2>1. Len(<<>>) = 0
    OBVIOUS
  <2>2. /\ Len(stage) = 0 /\ Len(dump) = 0 /\ staged = 0 /\ at = 0 /\ end = 0
        /\ produced = 0
    BY <2>1 DEF Init
  <2>3. /\ staged \in 0 .. Len(stage) /\ at \in 0 .. Len(stage)
        /\ end \in 0 .. Len(dump) /\ produced \in 0 .. MaxBlocks
    BY <2>2, LayoutAssumption
  <2> QED
    BY <2>3 DEF Init, TypeOK
<1>2. BytesOK
  BY LayoutAssumption DEF Init, BytesOK
<1>3. LiveOK(0)
  <2>1. Len(stage) = 0 /\ dump = <<>> /\ stage = <<>>
    BY DEF Init
  <2>2. Stretch(<<>>, 0, 0, 0, 0)
    BY EmptyStretch
  <2>3. StageOK(0)
    BY <2>1, <2>2 DEF Init, StageOK
  <2>4. DumpOK(0)
    BY <2>2 DEF Init, DumpOK
  <2>5. AppendOK /\ PhaseOK
    BY DEF Init, AppendOK, PhaseOK, Writing
  <2> QED
    BY <2>3, <2>4, <2>5 DEF LiveOK
<1>4. 0 \in Nat /\ alive
  BY DEF Init
<1> QED
  BY <1>1, <1>2, <1>3, <1>4 DEF FileInv

\* What a reader finds in the dump of a running program.
LEMMA LiveIsRead ==
  ASSUME TypeOK, BytesOK, NEW c \in Nat, LiveOK(c)
  PROVE  ReadFile(dump) = Accepted(c)
<1>1. dump \in Seq(Bytes) /\ end \in 0 .. Len(dump) /\ Stretch(dump, 0, end, 0, c)
  BY DEF BytesOK, TypeOK, LiveOK, DumpOK
<1>2. end = Len(dump) \/ Stands(dump, end, Item(TermId, TermLen))
  <2>1. CASE header = "absent"
    BY <2>1 DEF LiveOK, DumpOK
  <2>2. CASE header # "absent"
    BY <2>2 DEF LiveOK, DumpOK
  <2> QED
    BY <2>1, <2>2
<1> QED
  BY <1>1, <1>2, StretchIsRead

\* Bytes behind the terminator do not matter.
LEMMA TerminatorKept ==
  ASSUME NEW f \in Seq(Bytes), NEW g \in Seq(Bytes), NEW o \in Nat, NEW c \in Nat,
         Stretch(f, 0, o, 0, c), Stands(f, o, Item(TermId, TermLen)),
         Len(f) <= Len(g), \A x \in 1 .. o + TermLen : g[x] = f[x]
  PROVE  Stretch(g, 0, o, 0, c) /\ Stands(g, o, Item(TermId, TermLen))
<1>0. TermLen \in Nat \ {0} /\ TermId \in Int
  BY LayoutAssumption DEF TermId
<1>1. Len(Item(TermId, TermLen)) = TermLen
  BY <1>0, ItemIs
<1> DEFINE term == Item(TermId, TermLen)
<1> HIDE DEF term
<1>2. o + TermLen <= Len(f) /\ \A i \in 1 .. TermLen : f[o + i] = term[i]
  BY <1>1 DEF Stands, term
<1>3. o + TermLen <= Len(g) /\ \A i \in 1 .. TermLen : g[o + i] = term[i]
  BY <1>0, <1>2
<1>4. Stands(g, o, term)
  BY <1>1, <1>3 DEF Stands, term
<1>5. \A x \in 1 .. o : g[x] = f[x]
  BY <1>0
<1>6. Stretch(g, 0, o, 0, c)
  <2>1. PICK d \in Int : d = 0
    OBVIOUS
  <2>2. PICK a \in Nat : a = 0
    OBVIOUS
  <2>3. a = a + d /\ o = o + d /\ o <= Len(g) /\ o <= Len(f)
    BY <1>0, <1>2, <1>3, <2>1, <2>2
  <2>4. \A x \in a + 1 .. o : g[x + d] = f[x]
    BY <1>5, <2>1, <2>2
  <2>5. Stretch(f, a, o, a, c)
    BY <2>2
  <2>6. Stretch(g, a, o, a, c)
    BY <2>3, <2>4, <2>5, StretchMoves
  <2> QED
    BY <2>2, <2>6
<1> QED
  BY <1>4, <1>6 DEF term
-----------------------------------------------------------------------------
\* A stretch stays where its bytes do.
LEMMA StretchKept ==
  ASSUME NEW f \in Seq(Bytes), NEW g \in Seq(Bytes), NEW o \in Nat, NEW c \in Nat,
         Stretch(f, 0, o, 0, c), o <= Len(f), o <= Len(g),
         \A x \in 1 .. o : g[x] = f[x]
  PROVE  Stretch(g, 0, o, 0, c)
<1>1. PICK d \in Int : d = 0
  OBVIOUS
<1>2. PICK a \in Nat : a = 0
  OBVIOUS
<1>3. a = a + d /\ o = o + d
  BY <1>1, <1>2
<1>4. \A x \in a + 1 .. o : g[x + d] = f[x]
  BY <1>1, <1>2
<1>5. Stretch(f, a, o, a, c)
  BY <1>2
<1>6. Stretch(g, a, o, a, c)
  BY <1>3, <1>4, <1>5, StretchMoves
<1> QED
  BY <1>2, <1>6

\* The terminator of this dump.
LEMMA TerminatorIs == \A o : TerminatorAt(o) = Ending(base, o)
BY DEF TerminatorAt, Ending

Lengths == /\ TermLen \in Nat \ {0} /\ end \in Nat /\ staged \in Nat /\ at \in Nat
          /\ Len(stage) \in Nat /\ Len(dump) \in Nat
          /\ end <= Len(dump) /\ staged <= Len(stage) /\ at <= Len(stage)

LEMMA TheSizes == TypeOK /\ BytesOK => Lengths
BY LayoutAssumption DEF TypeOK, BytesOK, Lengths

\* The next write of an append (Staged::append) copies a piece of the stage, ...
LEMMA CopyIs ==
  ASSUME TypeOK, BytesOK, AppendOK, pc = "copy"
  PROVE  /\ NextWrite.to = end + at - staged
         /\ NextWrite.to \in end + TermLen .. Len(dump)
         /\ NextWrite.bytes \in Seq(Bytes)
         /\ Len(NextWrite.bytes) > 0 /\ at + Len(NextWrite.bytes) <= Len(stage)
         /\ \A i \in 1 .. Len(NextWrite.bytes) : NextWrite.bytes[i] = stage[at + i]
<1> DEFINE upto == IF at + Chunk < Len(stage) THEN at + Chunk ELSE Len(stage)
           s == SubSeq(stage, at + 1, upto)
<1>1. NextWrite.to = end + at - staged /\ NextWrite.bytes = s
  <2>1. NextWrite = [to |-> end + at - staged, bytes |-> s]
    BY DEF NextWrite
  <2> HIDE DEF s
  <2> QED
    BY <2>1
<1>2. Lengths /\ Chunk \in Nat \ {0} /\ stage \in Seq(Bytes)
  BY TheSizes, LayoutAssumption DEF BytesOK
<1>3. /\ at < Len(stage) /\ staged + TermLen <= at /\ end + at - staged <= Len(dump)
  BY DEF AppendOK, Writing
<1>4. upto \in Nat /\ at < upto /\ upto <= Len(stage)
  BY <1>2, <1>3 DEF Lengths
<1> HIDE DEF upto
<1>5. \A i \in at + 1 .. upto : stage[i] \in Bytes
  BY <1>2, <1>4 DEF Lengths
<1>6. at + 1 \in Int /\ upto \in Int /\ at \in Nat
  BY <1>2, <1>4 DEF Lengths
<1>7. /\ s \in Seq(Bytes)
      /\ Len(s) = IF at + 1 <= upto THEN upto - (at + 1) + 1 ELSE 0
      /\ \A i \in 1 .. upto - (at + 1) + 1 : s[i] = stage[at + 1 + i - 1]
  BY <1>5, <1>6, SubSeqProperties
<1> HIDE DEF s
<1>8. Len(s) = upto - at
  BY <1>4, <1>6, <1>7
<1>9. ASSUME NEW i \in 1 .. Len(s) PROVE s[i] = stage[at + i]
  <2>1. i \in 1 .. upto - (at + 1) + 1 /\ at + 1 + i - 1 = at + i
    BY <1>4, <1>6, <1>8
  <2> QED
    BY <1>7, <2>1
<1>10. end + at - staged \in end + TermLen .. Len(dump)
  BY <1>2, <1>3 DEF Lengths
<1> QED
  BY <1>1, <1>4, <1>6, <1>7, <1>8, <1>9, <1>10

\* ... ends the copy with a terminator, ...
LEMMA TermIs ==
  ASSUME TypeOK, BytesOK, AppendOK, pc = "term"
  PROVE  /\ NextWrite.to = TailAt /\ TailAt \in end + TermLen .. Len(dump)
         /\ NextWrite.bytes = Ending(base, TailAt).bytes
<1>1. NextWrite = [to |-> TailAt, bytes |-> TerminatorAt(TailAt).bytes]
  BY DEF NextWrite, TailAt
<1>2. at = Len(stage) /\ staged + TermLen <= at /\ end + at - staged <= Len(dump)
  BY DEF AppendOK, Writing
<1>3. TailAt \in end + TermLen .. Len(dump)
  BY <1>2, TheSizes DEF Lengths, TailAt
<1> QED
  BY <1>1, <1>3, TerminatorIs

\* ... and puts the head of the first body over the old one.
LEMMA HeadIs ==
  ASSUME TypeOK, BytesOK, AppendOK, pc = "head"
  PROVE  /\ NextWrite.to = end /\ NextWrite.bytes \in Seq(Bytes)
         /\ Len(NextWrite.bytes) = TermLen
         /\ \A i \in 1 .. TermLen : NextWrite.bytes[i] = stage[staged + i]
<1> DEFINE s == SubSeq(stage, staged + 1, staged + TermLen)
<1>1. NextWrite.to = end /\ NextWrite.bytes = s
  <2>1. NextWrite = [to |-> end, bytes |-> s]
    BY DEF NextWrite
  <2> HIDE DEF s
  <2> QED
    BY <2>1
<1>2. Lengths /\ stage \in Seq(Bytes) /\ staged + TermLen < Len(stage)
  BY TheSizes DEF BytesOK, AppendOK, Writing
<1>3. \A i \in staged + 1 .. staged + TermLen : stage[i] \in Bytes
  BY <1>2 DEF Lengths
<1>4. staged + 1 \in Int /\ staged + TermLen \in Int /\ staged \in Nat /\ TermLen \in Nat \ {0}
  BY <1>2 DEF Lengths
<1> DEFINE m == staged + 1
           n == staged + TermLen
<1>5. m \in Int /\ n \in Int /\ \A i \in m .. n : stage[i] \in Bytes
  BY <1>3, <1>4
<1>6. /\ s \in Seq(Bytes)
      /\ Len(s) = IF m <= n THEN n - m + 1 ELSE 0
      /\ \A i \in 1 .. n - m + 1 : s[i] = stage[m + i - 1]
  <2> HIDE DEF m, n
  <2> QED
    BY <1>5, SubSeqProperties DEF m, n
<1> HIDE DEF s
<1>7. Len(s) = TermLen
  BY <1>4, <1>6
<1>8. ASSUME NEW i \in 1 .. TermLen PROVE s[i] = stage[staged + i]
  <2>1. i \in 1 .. n - m + 1 /\ m + i - 1 = staged + i
    BY <1>4
  <2> HIDE DEF m, n
  <2> QED
    BY <1>6, <2>1
<1> QED
  BY <1>1, <1>6, <1>7, <1>8
-----------------------------------------------------------------------------
LEMMA TermLength == Len(Item(TermId, TermLen)) = TermLen
<1>1. TermId \in Int /\ TermLen \in Nat \ {0}
  BY LayoutAssumption DEF TermId
<1> QED
  BY <1>1, ItemIs

\* A write behind the terminator, or one of no bytes, leaves what can be read.
LEMMA WriteBehind ==
  ASSUME TypeOK, BytesOK, NEW c \in Nat, DumpOK(c), header # "absent", pc # "closed",
         NEW s \in Seq(Bytes), NEW o \in 0 .. Len(dump),
         o >= end + TermLen \/ Len(s) = 0,
         NEW g, g = WriteAt(dump, o, s)
  PROVE  /\ g \in Seq(Bytes) /\ Len(dump) <= Len(g)
         /\ Stretch(g, 0, end, 0, c) /\ Stands(g, end, Item(TermId, TermLen))
<1>1. Lengths /\ dump \in Seq(Bytes)
  BY TheSizes DEF BytesOK
<1>2. /\ g \in Seq(Bytes) /\ Len(g) >= Len(dump)
      /\ \A x \in 1 .. Len(dump) : x <= o \/ x > o + Len(s) => g[x] = dump[x]
  BY <1>1, WriteIs
<1>3. Stretch(dump, 0, end, 0, c) /\ Stands(dump, end, Item(TermId, TermLen))
  BY DEF DumpOK
<1>4. end + TermLen <= Len(dump)
  <2>1. Len(Item(TermId, TermLen)) = TermLen
    BY TermLength
  <2> HIDE DEF Lengths
  <2> QED
    BY <1>1, <1>3, <2>1 DEF Stands, Lengths
<1>5. \A x \in 1 .. end + TermLen : g[x] = dump[x]
  <2> SUFFICES ASSUME NEW x \in 1 .. end + TermLen PROVE g[x] = dump[x]
    OBVIOUS
  <2>1. x \in 1 .. Len(dump)
    BY <1>1, <1>4 DEF Lengths
  <2>2. x <= o \/ x > o + Len(s)
    BY <1>1 DEF Lengths
  <2> QED
    BY <1>2, <2>1, <2>2
<1>6. end \in Nat /\ Len(dump) <= Len(g)
  BY <1>1, <1>2 DEF Lengths
<1> QED
  BY <1>1, <1>2, <1>3, <1>5, <1>6, TerminatorKept

\* The commit: with the head of the first body in place, everything is readable.
LEMMA HeadWritten ==
  ASSUME TypeOK, BytesOK, NEW c \in Nat, LiveOK(c), pc = "head",
         NEW g, g = WriteAt(dump, end, NextWrite.bytes),
         NEW o, o = Ending(base, TailAt).at
  PROVE  /\ g \in Seq(Bytes) /\ o \in Nat /\ o <= Len(g)
         /\ Stretch(g, 0, o, 0, produced) /\ Stands(g, o, Item(TermId, TermLen))
         /\ (base + o) % Page <= Page - TermLen
<1> DEFINE s == NextWrite.bytes
           d == end - staged
<1>1. Lengths /\ dump \in Seq(Bytes) /\ stage \in Seq(Bytes) /\ base \in Nat
      /\ produced \in Nat
  BY TheSizes DEF BytesOK, TypeOK
<1>2. AppendOK /\ StageOK(c) /\ DumpOK(c)
  BY DEF LiveOK
<1>3. /\ s \in Seq(Bytes) /\ Len(s) = TermLen
      /\ \A i \in 1 .. TermLen : s[i] = stage[staged + i]
  BY <1>2, HeadIs
<1> HIDE DEF s
<1>4. /\ staged + TermLen < Len(stage) /\ at = Len(stage)
      /\ end + at - staged <= Len(dump)
      /\ \A x \in staged + TermLen + 1 .. at : dump[x + (end - staged)] = stage[x]
      /\ Stands(dump, TailAt, Ending(base, TailAt).bytes)
  BY <1>2 DEF AppendOK, Writing
<1>5. end \in 0 .. Len(dump)
  BY <1>1 DEF Lengths
<1>6. /\ g \in Seq(Bytes) /\ Len(g) >= Len(dump)
      /\ \A i \in 1 .. TermLen : g[end + i] = s[i]
      /\ \A x \in 1 .. Len(dump) : x <= end \/ x > end + TermLen => g[x] = dump[x]
  <2>1. g = WriteAt(dump, end, s)
    BY DEF s
  <2>2. /\ g \in Seq(Bytes) /\ Len(g) >= Len(dump) /\ Stands(g, end, s)
        /\ \A x \in 1 .. Len(dump) : x <= end \/ x > end + Len(s) => g[x] = dump[x]
    BY <1>1, <1>3, <1>5, <2>1, WriteIs
  <2> QED
    BY <1>3, <2>2 DEF Stands
<1>7. TailAt \in Nat /\ TailAt >= end + TermLen /\ TailAt <= Len(dump) /\ TailAt = Len(stage) + d
  BY <1>1, <1>4 DEF Lengths, TailAt
<1>8. Stretch(g, 0, end, 0, c)
  <2>1. \A x \in 1 .. end : g[x] = dump[x]
    BY <1>5, <1>6
  <2>2. end \in Nat /\ end <= Len(dump) /\ end <= Len(g)
    BY <1>1, <1>6 DEF Lengths
  <2>3. Stretch(dump, 0, end, 0, c)
    BY <1>2 DEF DumpOK
  <2> QED
    BY <1>1, <1>6, <2>1, <2>2, <2>3, StretchKept
<1>9. Stretch(g, end, TailAt, c, produced)
  <2>1. ASSUME NEW x \in staged + 1 .. Len(stage) PROVE g[x + d] = stage[x]
    <3>1. CASE x <= staged + TermLen
      <4>1. x - staged \in 1 .. TermLen /\ x + d = end + (x - staged)
            /\ staged + (x - staged) = x
        BY <1>1, <3>1 DEF Lengths
      <4> QED
        BY <1>3, <1>6, <4>1
    <3>2. CASE x > staged + TermLen
      <4>1. x \in staged + TermLen + 1 .. at
        BY <1>1, <1>4, <3>2 DEF Lengths
      <4>2. x + d \in 1 .. Len(dump) /\ x + d > end + TermLen
        BY <1>1, <1>4, <3>2 DEF Lengths
      <4>3. g[x + d] = dump[x + d]
        BY <1>6, <4>2
      <4> QED
        BY <1>4, <4>1, <4>3
    <3> QED
      BY <1>1, <3>1, <3>2 DEF Lengths
  <2>2. /\ d \in Int /\ staged \in Nat /\ Len(stage) \in Nat /\ end \in Nat
        /\ end = staged + d /\ TailAt <= Len(g) /\ Len(stage) <= Len(stage)
    BY <1>1, <1>6, <1>7 DEF Lengths
  <2>3. Stretch(stage, staged, Len(stage), c, produced)
    BY <1>2 DEF StageOK
  <2> HIDE DEF d
  <2> QED
    BY <1>1, <1>6, <1>7, <2>1, <2>2, <2>3, StretchMoves
<1> DEFINE e == Ending(base, TailAt).bytes
<1>10. /\ o \in Nat /\ o >= TailAt /\ e \in Seq(Bytes) /\ Len(e) = o - TailAt + TermLen
       /\ (base + o) % Page <= Page - TermLen
       /\ \A f \in Seq(Bytes), i \in Nat :
             Stands(f, TailAt, e) => Stretch(f, TailAt, o, i, i)
                                   /\ Stands(f, o, Item(TermId, TermLen))
  BY <1>1, <1>7, EndingIs
<1> HIDE DEF e
<1>11. Stands(g, TailAt, e)
  <2>1. TailAt + Len(e) <= Len(dump) /\ \A i \in 1 .. Len(e) : dump[TailAt + i] = e[i]
    BY <1>4 DEF Stands, e
  <2>2. ASSUME NEW i \in 1 .. Len(e) PROVE g[TailAt + i] = e[i]
    <3>0. /\ TailAt \in Nat /\ Len(dump) \in Nat /\ end \in Nat /\ TermLen \in Nat
          /\ Len(e) \in Nat
      <4>1. Len(dump) \in Nat /\ end \in Nat /\ TermLen \in Nat
        BY <1>1 DEF Lengths
      <4>2. e \in Seq(Bytes)
        BY <1>10
      <4>3. Len(e) \in Nat
        BY <4>2
      <4> QED
        BY <1>7, <4>1, <4>3
    <3>1. TailAt + i \in 1 .. Len(dump) /\ TailAt + i > end + TermLen
      BY <1>7, <2>1, <3>0
    <3> QED
      BY <1>6, <2>1, <3>1
  <2>3. TailAt + Len(e) <= Len(g)
    <3>1. e \in Seq(Bytes) /\ g \in Seq(Bytes) /\ dump \in Seq(Bytes)
      BY <1>1, <1>6, <1>10
    <3>2. Len(e) \in Nat /\ Len(dump) \in Nat /\ Len(g) \in Nat
      BY <3>1
    <3>3. Len(g) >= Len(dump) /\ TailAt \in Nat
      BY <1>6, <1>7
    <3> QED
      BY <2>1, <3>2, <3>3
  <2> QED
    BY <2>2, <2>3 DEF Stands
<1>12. Stretch(g, TailAt, o, produced, produced) /\ Stands(g, o, Item(TermId, TermLen))
  BY <1>1, <1>6, <1>10, <1>11
<1>13. Stretch(g, 0, o, 0, produced)
  <2>1. PICK z \in Nat : z = 0
    OBVIOUS
  <2>2. Stretch(g, z, end, z, c) /\ end \in Nat
    BY <1>1, <1>8, <2>1 DEF Lengths
  <2>3. Stretch(g, z, TailAt, z, produced)
    <3>1. g \in Seq(Bytes) /\ TailAt \in Nat /\ produced \in Nat
      BY <1>1, <1>6, <1>7
    <3> QED
      BY <1>9, <2>2, <3>1, StretchesJoin
  <2>4. Stretch(g, z, o, z, produced)
    <3>1. g \in Seq(Bytes) /\ TailAt \in Nat /\ o \in Nat /\ produced \in Nat
      BY <1>1, <1>6, <1>7, <1>10
    <3>2. Stretch(g, TailAt, o, produced, produced)
      BY <1>12
    <3> QED
      BY <2>3, <3>1, <3>2, StretchesJoin
  <2> QED
    BY <2>1, <2>4
<1>14. o <= Len(g)
  <2>1. Len(Item(TermId, TermLen)) = TermLen
    BY TermLength
  <2>2. o + TermLen <= Len(g) /\ TermLen \in Nat /\ Len(g) \in Nat
    BY <1>1, <1>6, <1>12, <2>1 DEF Stands, Lengths
  <2> QED
    BY <1>10, <2>2
<1> QED
  BY <1>6, <1>10, <1>12, <1>13, <1>14
-----------------------------------------------------------------------------
(***************************************************************************)
(* The steps of a running program.                                         *)
(***************************************************************************)
Running(c) == TypeOK /\ BytesOK /\ alive /\ LiveOK(c)

\* With nothing left in the stage, the dump holds all blocks.
LEMMA Complete ==
  ASSUME TypeOK, BytesOK, NEW c \in Nat, StageOK(c), staged = Len(stage)
  PROVE  c = produced
<1>1. Stretch(stage, staged, staged, c, produced)
  BY DEF StageOK
<1>2. staged \in Nat /\ produced \in Nat
  BY TheSizes DEF Lengths, TypeOK
<1> QED
  BY <1>1, <1>2, EmptyStretch

\* The dump is created with a terminator and no blocks, or not at all.
LEMMA BeginStep ==
  ASSUME NEW c \in Nat, Running(c), Begin
  PROVE  Running(c)'
<1>1. /\ Lengths /\ base \in Nat /\ stage \in Seq(Bytes) /\ dump \in Seq(Bytes)
      /\ TypeOK /\ StageOK(c) /\ DumpOK(c)
  BY TheSizes DEF Running, BytesOK, LiveOK
<1>2. /\ pc' = "run" /\ header = "absent" /\ alive'
      /\ UNCHANGED <<base, stage, produced, staged, at, closing>>
  BY DEF Begin, Running, LiveOK, PhaseOK
<1>3. end = 0 /\ dump = <<>> /\ c = 0
  <2>1. end = 0 /\ dump = <<>> /\ Stretch(dump, 0, end, 0, c)
    BY <1>1, <1>2 DEF DumpOK
  <2>2. PICK z \in Nat : z = 0
    OBVIOUS
  <2>3. Stretch(dump, z, z, z, c)
    BY <2>1, <2>2
  <2> QED
    BY <2>1, <2>2, <2>3, EmptyStretch
<1>4. CASE UNCHANGED <<dump, end, header>>
  <2>1. TypeOK' /\ BytesOK'
    BY <1>1, <1>2, <1>4 DEF TypeOK, BytesOK
  <2>2. StageOK(c)'
    BY <1>1, <1>2 DEF StageOK
  <2>3. DumpOK(c)'
    BY <1>1, <1>2, <1>4 DEF DumpOK
  <2>4. AppendOK' /\ PhaseOK'
    BY <1>2, <1>4 DEF AppendOK, PhaseOK, Writing
  <2> QED
    BY <1>2, <2>1, <2>2, <2>3, <2>4 DEF Running, LiveOK
<1>5. CASE /\ dump' = TerminatorAt(0).bytes
           /\ end' = TerminatorAt(0).at
           /\ header' = "open"
  <2>1. PICK z \in Nat : z = 0
    OBVIOUS
  <2> DEFINE e == Ending(base, z).bytes
  <2>2. dump' = e /\ end' = Ending(base, z).at
    BY <1>5, <2>1, TerminatorIs
  <2>3. /\ end' \in Nat /\ end' >= z /\ e \in Seq(Bytes) /\ Len(e) = end' - z + TermLen
        /\ (base + end') % Page <= Page - TermLen
        /\ \A f \in Seq(Bytes), i \in Nat :
              Stands(f, z, e) => Stretch(f, z, end', i, i)
                                 /\ Stands(f, end', Item(TermId, TermLen))
    BY <1>1, <2>2, EndingIs
  <2> HIDE DEF e
  <2>4. Stands(dump', z, e)
    BY <2>1, <2>2, <2>3 DEF Stands
  <2>5. Stretch(dump', z, end', z, z) /\ Stands(dump', end', Item(TermId, TermLen))
    BY <2>2, <2>3, <2>4
  <2>6. end' \in 0 .. Len(dump')
    <3>1. Len(dump') = end' + TermLen /\ TermLen \in Nat
      BY <1>1, <2>1, <2>2, <2>3 DEF Lengths
    <3>2. end' \in Nat
      BY <2>3
    <3>3. \A u, v \in Nat : u \in 0 .. u + v
      OBVIOUS
    <3> QED
      BY <3>1, <3>2, <3>3, Zenon
  <2>7. TypeOK' /\ BytesOK'
    BY <1>1, <1>2, <1>5, <2>2, <2>3, <2>6 DEF TypeOK, BytesOK
  <2>8. StageOK(c)'
    BY <1>1, <1>2 DEF StageOK
  <2>9. DumpOK(c)'
    <3>1. Stretch(dump', 0, end', 0, c)
      BY <1>3, <2>1, <2>5
    <3> QED
      BY <1>2, <1>5, <2>3, <2>5, <3>1 DEF DumpOK
  <2>10. AppendOK' /\ PhaseOK'
    BY <1>2, <1>5 DEF AppendOK, PhaseOK, Writing
  <2> QED
    BY <1>2, <2>7, <2>8, <2>9, <2>10 DEF Running, LiveOK
<1> QED
  BY <1>4, <1>5 DEF Begin

\* Neither the dump nor what is moved into it changes.
DumpFrame == UNCHANGED <<base, dump, header, staged, end, alive>>

\* A commit begins, whatever blocks are new in the stage (Staged::commit).
LEMMA CommitStep ==
  ASSUME NEW c \in Nat, Running(c), pc = "run", DumpFrame,
         produced' \in 0 .. MaxBlocks, closing' \in BOOLEAN,
         stage' \in Seq(Bytes), Len(stage) <= Len(stage'),
         StageOK(c)', StartCommit(stage')
  PROVE  Running(c)'
<1>1. /\ Lengths /\ base \in Nat /\ dump \in Seq(Bytes)
      /\ TypeOK /\ DumpOK(c) /\ AppendOK /\ PhaseOK
  BY TheSizes DEF Running, BytesOK, LiveOK
<1>2. Len(stage') \in Nat /\ TermLen \in Nat \ {0} /\ staged \in Nat /\ staged' = staged
      /\ at \in Nat /\ at <= Len(stage) /\ Len(stage) \in Nat /\ staged <= Len(stage)
  BY <1>1 DEF Lengths, DumpFrame
<1>3. staged' = Len(stage') \/ staged' + TermLen < Len(stage')
  BY DEF StageOK
<1>4. alive' /\ DumpFrame
  BY DEF Running, DumpFrame
<1>5. header # "final"
  BY <1>1 DEF PhaseOK
<1>6. CASE at' = at /\ pc' = IF closing' THEN "gave_up" ELSE "run"
  <2>1. pc' \in {"gave_up", "run"}
    BY <1>6
  <2>2. at' \in 0 .. Len(stage') /\ staged' \in 0 .. Len(stage')
    BY <1>2, <1>6
  <2>3. TypeOK' /\ BytesOK'
    BY <1>1, <1>4, <2>1, <2>2 DEF TypeOK, BytesOK, DumpFrame
  <2>4. DumpOK(c)'
    BY <1>1, <1>4, <2>1 DEF DumpOK, DumpFrame
  <2>5. AppendOK' /\ PhaseOK'
    BY <1>4, <1>5, <2>1 DEF AppendOK, PhaseOK, Writing, DumpFrame
  <2> QED
    BY <1>4, <2>3, <2>4, <2>5 DEF Running, LiveOK
<1>7. CASE /\ header # "absent" /\ Len(stage') = staged
           /\ at' = at /\ pc' = IF closing' THEN "header" ELSE "run"
  <2>1. pc' \in {"header", "run"}
    BY <1>7
  <2>2. at' \in 0 .. Len(stage') /\ staged' \in 0 .. Len(stage')
    BY <1>2, <1>7
  <2>3. TypeOK' /\ BytesOK'
    BY <1>1, <1>4, <2>1, <2>2 DEF TypeOK, BytesOK, DumpFrame
  <2>4. DumpOK(c)'
    BY <1>1, <1>4, <1>7, <2>1 DEF DumpOK, DumpFrame
  <2>5. AppendOK' /\ PhaseOK'
    BY <1>2, <1>4, <1>5, <1>7, <2>1 DEF AppendOK, PhaseOK, Writing, DumpFrame
  <2> QED
    BY <1>4, <2>3, <2>4, <2>5 DEF Running, LiveOK
<1>8. CASE /\ header # "absent" /\ Len(stage') # staged
           /\ at' = staged + TermLen /\ pc' = "copy"
  <2>1. staged' + TermLen < Len(stage') /\ header = "open"
    BY <1>1, <1>2, <1>3, <1>5, <1>8 DEF TypeOK
  <2>2. at' \in 0 .. Len(stage') /\ staged' \in 0 .. Len(stage') /\ at' < Len(stage')
    BY <1>2, <1>8, <2>1
  <2>3. TypeOK' /\ BytesOK'
    BY <1>1, <1>4, <1>8, <2>2 DEF TypeOK, BytesOK, DumpFrame
  <2>4. DumpOK(c)'
    BY <1>1, <1>4, <1>8 DEF DumpOK, DumpFrame
  <2>5. end + at' - staged' <= Len(dump)
    <3>1. end + TermLen <= Len(dump)
      BY <1>1, <2>1, TermLength DEF DumpOK, Stands
    <3> QED
      BY <1>1, <1>2, <1>8, <3>1 DEF Lengths
  <2>6. staged' + TermLen + 1 .. at' = {}
    BY <1>2, <1>8
  <2>7. AppendOK' /\ PhaseOK'
    <3>1. AppendOK'
      BY <1>2, <1>4, <1>8, <2>1, <2>2, <2>5, <2>6 DEF AppendOK, Writing, DumpFrame
    <3>2. PhaseOK'
      BY <1>4, <1>8, <2>1 DEF PhaseOK, DumpFrame
    <3> QED
      BY <3>1, <3>2
  <2> QED
    BY <1>4, <2>3, <2>4, <2>7 DEF Running, LiveOK
<1> QED
  BY <1>6, <1>7, <1>8 DEF StartCommit

\* A block is flushed to the stage, and commit() called.
LEMMA FlushBlockStep ==
  ASSUME NEW c \in Nat, Running(c), FlushBlock
  PROVE  Running(c)'
<1>1. /\ Lengths /\ base \in Nat /\ stage \in Seq(Bytes) /\ dump \in Seq(Bytes)
      /\ TypeOK /\ StageOK(c)
  BY TheSizes DEF Running, BytesOK, LiveOK
<1>2. PICK n \in Sizes : stage' = stage \o Item(produced + 1, n)
  BY DEF FlushBlock
<1>3. /\ pc = "run" /\ produced < MaxBlocks /\ produced' = produced + 1
      /\ closing' \in BOOLEAN /\ StartCommit(stage') /\ DumpFrame
  BY DEF FlushBlock, DumpFrame
<1>4. /\ n \in Nat \ {0} /\ n > TermLen /\ produced \in Nat /\ produced + 1 \in Int
      /\ MaxBlocks \in Nat
  BY <1>1, LayoutAssumption DEF TypeOK
<1> DEFINE t == Item(produced + 1, n)
<1>5. t \in Seq(Bytes) /\ Len(t) = n
  BY <1>4, ItemIs
<1> HIDE DEF t
<1>6. /\ stage' \in Seq(Bytes) /\ Len(stage') = Len(stage) + n
      /\ \A i \in 1 .. Len(stage) + n :
            stage'[i] = IF i <= Len(stage) THEN stage[i] ELSE t[i - Len(stage)]
  <2>1. stage' = stage \o t
    BY <1>2 DEF t
  <2> QED
    BY <1>1, <1>5, <2>1, ConcatProperties
<1>7. Len(stage) \in Nat /\ staged \in Nat /\ staged <= Len(stage)
  BY <1>1 DEF Lengths
<1>8. Stretch(stage', staged, Len(stage), c, produced)
  <2>1. PICK d \in Int : d = 0
    OBVIOUS
  <2>2. \A x \in staged + 1 .. Len(stage) : stage'[x + d] = stage[x]
    BY <1>4, <1>6, <1>7, <2>1
  <2>3. /\ staged = staged + d /\ Len(stage) = Len(stage) + d
        /\ Len(stage) <= Len(stage') /\ Len(stage) <= Len(stage)
    BY <1>4, <1>6, <1>7, <2>1
  <2>4. Stretch(stage, staged, Len(stage), c, produced)
    BY <1>1 DEF StageOK
  <2>5. produced \in Nat /\ stage \in Seq(Bytes) /\ stage' \in Seq(Bytes)
    BY <1>1, <1>4, <1>6
  <2> QED
    BY <1>7, <2>2, <2>3, <2>4, <2>5, StretchMoves
<1>9. Stretch(stage', Len(stage), Len(stage'), produced, produced + 1)
  <2>1. ASSUME NEW i \in 1 .. n PROVE stage'[Len(stage) + i] = t[i]
    <3>1. /\ Len(stage) + i \in 1 .. Len(stage) + n /\ ~ (Len(stage) + i <= Len(stage))
          /\ (Len(stage) + i) - Len(stage) = i
      BY <1>4, <1>7
    <3> QED
      BY <1>6, <3>1
  <2>2. Stands(stage', Len(stage), t)
    BY <1>4, <1>5, <1>6, <1>7, <2>1 DEF Stands
  <2> QED
    BY <1>4, <1>6, <1>7, <2>2, ItemStretch DEF t
<1>10. StageOK(c)'
  <2>1. Len(stage') \in Nat /\ produced + 1 \in Nat
    BY <1>4, <1>6, <1>7
  <2>2. Stretch(stage', staged, Len(stage'), c, produced + 1)
    BY <1>4, <1>6, <1>7, <1>8, <1>9, <2>1, StretchesJoin
  <2>3. staged + TermLen < Len(stage')
    BY <1>1, <1>4, <1>6, <1>7 DEF Lengths
  <2> QED
    BY <1>3, <2>2, <2>3 DEF StageOK, DumpFrame
<1>11. produced' \in 0 .. MaxBlocks /\ Len(stage) <= Len(stage')
  BY <1>3, <1>4, <1>6, <1>7
<1> QED
  BY <1>3, <1>6, <1>10, <1>11, CommitStep

\* finish() commits what is left, with no block to flush.
LEMMA FinishEmptyStep ==
  ASSUME NEW c \in Nat, Running(c), FinishEmpty
  PROVE  Running(c)'
<1>1. /\ Lengths /\ stage \in Seq(Bytes) /\ TypeOK /\ StageOK(c)
  BY TheSizes DEF Running, BytesOK, LiveOK
<1>2. /\ pc = "run" /\ produced' = produced /\ stage' = stage
      /\ closing' \in BOOLEAN /\ StartCommit(stage') /\ DumpFrame
  <2>1. /\ pc = "run" /\ produced' = produced /\ stage' = stage
        /\ closing' = TRUE /\ StartCommit(stage) /\ DumpFrame
    BY DEF FinishEmpty, DumpFrame
  <2>2. StartCommit(stage')
    BY <2>1 DEF StartCommit
  <2> QED
    BY <2>1, <2>2
<1>3. StageOK(c)'
  BY <1>1, <1>2 DEF StageOK, DumpFrame
<1>4. produced' \in 0 .. MaxBlocks /\ Len(stage) <= Len(stage')
  BY <1>1, <1>2 DEF TypeOK, Lengths
<1> QED
  BY <1>1, <1>2, <1>3, <1>4, CommitStep

\* What the steps of an append leave alone.
AppendFrame == UNCHANGED <<base, stage, produced, header, staged, end, closing, alive>>

\* What remains to show of a write that does not commit.
LEMMA WriteStep ==
  ASSUME NEW c \in Nat, Running(c), Writing, AppendFrame,
         pc' \in {"copy", "term", "head", "run", "gave_up"}, at' \in 0 .. Len(stage),
         dump' \in Seq(Bytes), Len(dump) <= Len(dump'),
         Stretch(dump', 0, end, 0, c), Stands(dump', end, Item(TermId, TermLen)),
         AppendOK'
  PROVE  Running(c)'
<1>1. /\ Lengths /\ base \in Nat /\ stage \in Seq(Bytes)
      /\ TypeOK /\ StageOK(c) /\ DumpOK(c) /\ header = "open"
  BY TheSizes DEF Running, BytesOK, LiveOK, AppendOK
<1>2. end' \in 0 .. Len(dump')
  <2>1. Len(dump') \in Nat
    OBVIOUS
  <2> QED
    BY <1>1, <2>1 DEF Lengths, AppendFrame
<1>3. TypeOK' /\ BytesOK'
  BY <1>1, <1>2 DEF TypeOK, BytesOK, AppendFrame
<1>4. StageOK(c)'
  BY <1>1 DEF StageOK, AppendFrame
<1>5. DumpOK(c)'
  BY <1>1 DEF DumpOK, AppendFrame
<1>6. PhaseOK'
  BY <1>1 DEF PhaseOK, AppendFrame
<1>7. alive'
  BY DEF Running, AppendFrame
<1> QED
  BY <1>3, <1>4, <1>5, <1>6, <1>7 DEF Running, LiveOK

\* A piece more is behind the terminator.
LEMMA CopyStep ==
  ASSUME NEW c \in Nat, Running(c), CopyPiece
  PROVE  Running(c)'
<1>1. /\ Lengths /\ stage \in Seq(Bytes) /\ dump \in Seq(Bytes)
      /\ TypeOK /\ BytesOK /\ DumpOK(c) /\ AppendOK
  BY TheSizes DEF Running, BytesOK, LiveOK
<1>2. pc = "copy" /\ Writing /\ header = "open"
  BY <1>1 DEF CopyPiece, Writing, AppendOK
<1> DEFINE s == NextWrite.bytes
           o == NextWrite.to
<1>3. /\ dump' = WriteAt(dump, o, s) /\ at' = at + Len(s)
      /\ pc' = IF at' = Len(stage) THEN "term" ELSE "copy"
      /\ AppendFrame
  BY DEF CopyPiece, WriteLands, AppendFrame
<1>4. /\ o = end + at - staged /\ o \in end + TermLen .. Len(dump)
      /\ s \in Seq(Bytes) /\ Len(s) > 0 /\ at + Len(s) <= Len(stage)
      /\ \A i \in 1 .. Len(s) : s[i] = stage[at + i]
  BY <1>1, <1>2, CopyIs
<1> HIDE DEF s, o
<1>5. o \in 0 .. Len(dump) /\ o >= end + TermLen /\ Len(s) \in Nat
  BY <1>1, <1>4 DEF Lengths
<1>6. /\ dump' \in Seq(Bytes) /\ Len(dump) <= Len(dump')
      /\ Stretch(dump', 0, end, 0, c) /\ Stands(dump', end, Item(TermId, TermLen))
  BY <1>1, <1>2, <1>3, <1>4, <1>5, WriteBehind
<1>7. /\ Stands(dump', o, s)
      /\ \A x \in 1 .. Len(dump) : x <= o \/ x > o + Len(s) => dump'[x] = dump[x]
  BY <1>1, <1>3, <1>4, <1>5, WriteIs
<1>8. o + Len(s) <= Len(dump') /\ \A i \in 1 .. Len(s) : dump'[o + i] = s[i]
  BY <1>7 DEF Stands
<1>9. /\ staged + TermLen <= at /\ staged + TermLen < Len(stage)
      /\ \A x \in staged + TermLen + 1 .. at : dump[x + (end - staged)] = stage[x]
  BY <1>1, <1>2 DEF AppendOK
<1>10. at' \in Nat /\ at <= at' /\ at' <= Len(stage)
  BY <1>1, <1>3, <1>4, <1>5 DEF Lengths
<1>11. ASSUME NEW x \in staged + TermLen + 1 .. at'
       PROVE  dump'[x + (end - staged)] = stage[x]
  <2>1. CASE x <= at
    <3>0. /\ end \in Nat /\ staged \in Nat /\ at \in Nat /\ TermLen \in Nat
          /\ Len(dump) \in Nat /\ o = end + at - staged /\ o <= Len(dump)
      BY <1>1, <1>4 DEF Lengths
    <3>1. x \in staged + TermLen + 1 .. at /\ x + (end - staged) \in 1 .. Len(dump)
          /\ x + (end - staged) <= o
      BY <1>10, <2>1, <3>0
    <3> QED
      BY <1>7, <1>9, <3>1
  <2>2. CASE x > at
    <3>1. x - at \in 1 .. Len(s) /\ o + (x - at) = x + (end - staged) /\ at + (x - at) = x
      BY <1>1, <1>3, <1>4, <1>5, <1>10, <2>2 DEF Lengths
    <3> QED
      BY <1>4, <1>8, <3>1
  <2> QED
    BY <1>1, <1>10, <2>1, <2>2 DEF Lengths
<1>12. AppendOK'
  <2>1. end + at' - staged <= Len(dump')
    <3>1. end \in Nat /\ staged \in Nat /\ at \in Nat /\ at' = at + Len(s)
      BY <1>1, <1>3 DEF Lengths
    <3>2. o + Len(s) = end + at' - staged
      BY <1>4, <1>5, <3>1
    <3> QED
      BY <1>8, <3>2
  <2>2. staged + TermLen <= at'
    BY <1>1, <1>9, <1>10 DEF Lengths
  <2>3. pc' # "head" /\ (pc' = "copy" => at' < Len(stage)) /\ (pc' # "copy" => at' = Len(stage))
    BY <1>1, <1>3, <1>10 DEF Lengths
  <2> QED
    BY <1>2, <1>3, <1>9, <1>11, <2>1, <2>2, <2>3 DEF AppendOK, AppendFrame
<1>13. at' \in 0 .. Len(stage) /\ pc' \in {"copy", "term"}
  BY <1>1, <1>3, <1>10 DEF Lengths
<1> QED
  BY <1>2, <1>3, <1>6, <1>12, <1>13, WriteStep

\* All of the append is, and its own terminator.
LEMMA TermStep ==
  ASSUME NEW c \in Nat, Running(c), WriteTerminator
  PROVE  Running(c)'
<1>1. /\ Lengths /\ stage \in Seq(Bytes) /\ dump \in Seq(Bytes) /\ base \in Nat
      /\ TypeOK /\ BytesOK /\ DumpOK(c) /\ AppendOK
  BY TheSizes DEF Running, BytesOK, LiveOK
<1>2. pc = "term" /\ Writing /\ header = "open"
  BY <1>1 DEF WriteTerminator, Writing, AppendOK
<1> DEFINE s == Ending(base, TailAt).bytes
<1>3. TailAt \in end + TermLen .. Len(dump) /\ NextWrite.to = TailAt /\ NextWrite.bytes = s
  BY <1>1, <1>2, TermIs
<1>4. /\ dump' = WriteAt(dump, TailAt, s) /\ pc' = "head" /\ at' = at /\ AppendFrame
  BY <1>3 DEF WriteTerminator, WriteLands, AppendFrame
<1>5. TailAt \in Nat /\ TailAt \in 0 .. Len(dump) /\ TailAt >= end + TermLen
  BY <1>1, <1>3 DEF Lengths
<1>6. s \in Seq(Bytes)
  BY <1>1, <1>5, EndingIs
<1>7. base' = base /\ TailAt' = TailAt
  BY <1>4 DEF AppendFrame, TailAt
<1>8. s' = s
  BY <1>7 DEF Ending
<1> HIDE DEF s
<1>9. /\ dump' \in Seq(Bytes) /\ Len(dump) <= Len(dump')
      /\ Stretch(dump', 0, end, 0, c) /\ Stands(dump', end, Item(TermId, TermLen))
  BY <1>1, <1>2, <1>4, <1>5, <1>6, WriteBehind
<1>10. /\ Stands(dump', TailAt, s)
       /\ \A x \in 1 .. Len(dump) : x <= TailAt \/ x > TailAt + Len(s) => dump'[x] = dump[x]
  BY <1>1, <1>4, <1>5, <1>6, WriteIs
<1>11. /\ staged + TermLen <= at /\ staged + TermLen < Len(stage) /\ at = Len(stage)
       /\ end + at - staged <= Len(dump)
       /\ \A x \in staged + TermLen + 1 .. at : dump[x + (end - staged)] = stage[x]
  BY <1>1, <1>2 DEF AppendOK
<1>12. ASSUME NEW x \in staged + TermLen + 1 .. at
       PROVE  dump'[x + (end - staged)] = stage[x]
  <2>1. x + (end - staged) \in 1 .. Len(dump) /\ x + (end - staged) <= TailAt
    BY <1>1, <1>11 DEF Lengths, TailAt
  <2> QED
    BY <1>10, <1>11, <2>1
<1>13. AppendOK'
  <2>1. end + at - staged <= Len(dump')
    BY <1>1, <1>9, <1>11 DEF Lengths
  <2>2. Stands(dump', TailAt', s')
    BY <1>7, <1>8, <1>10
  <2> QED
    BY <1>2, <1>4, <1>11, <1>12, <2>1, <2>2 DEF AppendOK, AppendFrame, s
<1>14. at' \in 0 .. Len(stage)
  BY <1>1, <1>4 DEF Lengths
<1> QED
  BY <1>2, <1>4, <1>9, <1>13, <1>14, WriteStep

\* The commit makes every block of the stage readable.
LEMMA HeadStep ==
  ASSUME NEW c \in Nat, Running(c), WriteHead
  PROVE  /\ TypeOK' /\ BytesOK' /\ alive' /\ produced' = produced
         /\ \A k \in Nat : k = produced => LiveOK(k)'
<1>1. /\ Lengths /\ stage \in Seq(Bytes) /\ dump \in Seq(Bytes) /\ base \in Nat
      /\ TypeOK /\ BytesOK /\ AppendOK /\ LiveOK(c) /\ produced \in Nat
  BY TheSizes DEF Running, BytesOK, LiveOK, TypeOK
<1>2. pc = "head" /\ header = "open"
  BY <1>1 DEF WriteHead, Writing, AppendOK
<1> DEFINE o == Ending(base, TailAt).at
<1>3. NextWrite.to = end
  BY <1>1, <1>2, HeadIs
<1>4. /\ dump' = WriteAt(dump, end, NextWrite.bytes)
      /\ end' = o /\ staged' = Len(stage) /\ at' = at
      /\ pc' = IF closing THEN "header" ELSE "run"
      /\ UNCHANGED <<base, stage, produced, header, closing, alive>>
  BY <1>3, TerminatorIs DEF WriteHead, WriteLands, TailAt
<1> HIDE DEF o
<1>5. /\ dump' \in Seq(Bytes) /\ o \in Nat /\ o <= Len(dump')
      /\ Stretch(dump', 0, o, 0, produced) /\ Stands(dump', o, Item(TermId, TermLen))
      /\ (base + o) % Page <= Page - TermLen
  BY <1>1, <1>2, <1>4, HeadWritten DEF o
<1>6. TypeOK' /\ BytesOK'
  <2>1. /\ end' \in 0 .. Len(dump') /\ staged' \in 0 .. Len(stage)
        /\ at' \in 0 .. Len(stage) /\ pc' \in {"header", "run"}
    BY <1>1, <1>4, <1>5 DEF Lengths
  <2> QED
    BY <1>1, <1>4, <1>5, <2>1 DEF TypeOK, BytesOK
<1>7. ASSUME NEW k \in Nat, k = produced PROVE LiveOK(k)'
  <2>1. StageOK(k)'
    <3>1. Stretch(stage, Len(stage), Len(stage), produced, produced)
      BY <1>1, EmptyStretch DEF Lengths
    <3> QED
      BY <1>4, <1>7, <3>1 DEF StageOK
  <2>2. pc' \in {"header", "run"}
    BY <1>4
  <2>3. DumpOK(k)'
    BY <1>2, <1>4, <1>5, <1>7, <2>2 DEF DumpOK
  <2>4. AppendOK' /\ PhaseOK'
    BY <1>2, <1>4, <2>2 DEF AppendOK, PhaseOK, Writing
  <2> QED
    BY <2>1, <2>3, <2>4 DEF LiveOK
<1> QED
  BY <1>1, <1>4, <1>6, <1>7 DEF Running

\* What lands of a write.
LEMMA PrefixIs ==
  ASSUME NEW s \in Seq(Bytes), NEW n \in 0 .. Len(s)
  PROVE  /\ SubSeq(s, 1, n) \in Seq(Bytes) /\ Len(SubSeq(s, 1, n)) = n
         /\ n = Len(s) => SubSeq(s, 1, n) = s
<1>1. \A i \in 1 .. n : s[i] \in Bytes
  OBVIOUS
<1>2. 1 \in Int /\ n \in Int /\ n \in Nat
  OBVIOUS
<1> DEFINE t == SubSeq(s, 1, n)
<1>3. /\ t \in Seq(Bytes) /\ Len(t) = IF 1 <= n THEN n - 1 + 1 ELSE 0
      /\ \A i \in 1 .. n - 1 + 1 : t[i] = s[1 + i - 1]
  BY <1>1, <1>2, SubSeqProperties
<1> HIDE DEF t
<1>4. Len(t) = n
  BY <1>2, <1>3
<1>5. ASSUME n = Len(s) PROVE t = s
  <2>1. \A i \in 1 .. Len(t) : t[i] = s[i]
    <3> SUFFICES ASSUME NEW i \in 1 .. Len(t) PROVE t[i] = s[i]
      OBVIOUS
    <3>1. i \in 1 .. n - 1 + 1 /\ 1 + i - 1 = i
      BY <1>2, <1>4
    <3> QED
      BY <1>3, <3>1
  <2> QED
    BY <1>3, <1>4, <1>5, <2>1, SeqEqual
<1> QED
  BY <1>3, <1>4, <1>5 DEF t

\* A write that is cut short commits nothing; that of the head cannot be cut,
\* as it lies within one page.
LEMMA PartCommitsNothing ==
  ASSUME NEW c \in Nat, Running(c), Writing, NEW n \in Nat, NEW g,
         n \in Landed(NextWrite.to, NextWrite.bytes)
            \/ (n = Len(NextWrite.bytes) /\ pc # "head"),
         g = WriteAt(dump, NextWrite.to, SubSeq(NextWrite.bytes, 1, n))
  PROVE  /\ g \in Seq(Bytes) /\ Len(dump) <= Len(g)
         /\ Stretch(g, 0, end, 0, c) /\ Stands(g, end, Item(TermId, TermLen))
<1>1. /\ Lengths /\ dump \in Seq(Bytes) /\ base \in Nat
      /\ TypeOK /\ BytesOK /\ DumpOK(c) /\ AppendOK
  BY TheSizes DEF Running, BytesOK, LiveOK
<1>2. header # "absent" /\ pc # "closed"
  BY <1>1 DEF Writing, AppendOK
<1> DEFINE s == NextWrite.bytes
           o == NextWrite.to
           t == SubSeq(s, 1, n)
<1>3. s \in Seq(Bytes) /\ o \in 0 .. Len(dump)
      /\ (pc # "head" => o >= end + TermLen)
      /\ (pc = "head" => o = end /\ Len(s) = TermLen)
  <2>1. CASE pc = "copy"
    <3>1. o \in end + TermLen .. Len(dump) /\ s \in Seq(Bytes)
      BY <1>1, <2>1, CopyIs
    <3> HIDE DEF o, s
    <3> QED
      BY <1>1, <2>1, <3>1 DEF Lengths
  <2>2. CASE pc = "term"
    <3>1. TailAt \in end + TermLen .. Len(dump) /\ o = TailAt /\ s = Ending(base, TailAt).bytes
      BY <1>1, <2>2, TermIs
    <3>2. TailAt \in Nat
      BY <1>1, <3>1 DEF Lengths
    <3>3. s \in Seq(Bytes)
      BY <1>1, <3>1, <3>2, EndingIs
    <3> HIDE DEF o, s
    <3> QED
      BY <1>1, <2>2, <3>1, <3>2, <3>3 DEF Lengths
  <2>3. CASE pc = "head"
    <3>1. o = end /\ s \in Seq(Bytes) /\ Len(s) = TermLen
      BY <1>1, <2>3, HeadIs
    <3> HIDE DEF o, s
    <3> QED
      BY <1>1, <2>3, <3>1 DEF Lengths
  <2> QED
    BY <2>1, <2>2, <2>3 DEF Writing
<1>4. n \in Landed(o, s) \/ (n = Len(s) /\ pc # "head")
  OBVIOUS
<1> HIDE DEF s, o
<1>5. n \in 0 .. Len(s)
  BY <1>3, <1>4 DEF Landed
<1>6. t \in Seq(Bytes) /\ Len(t) = n
  BY <1>3, <1>5, PrefixIs
<1>7. ASSUME pc = "head" PROVE n = 0
  <2>1. SUFFICES ASSUME n # 0 PROVE FALSE
    OBVIOUS
  <2>2. (base + end + n) % Page = 0 /\ n < TermLen
    BY <1>1, <1>3, <1>4, <1>7, <2>1 DEF Landed, Lengths
  <2>3. (base + end) % Page <= Page - TermLen
    BY <1>1, <1>2 DEF DumpOK
  <2>4. /\ Page \in Nat \ {0} /\ TermLen \in Nat /\ Page > 2 * TermLen
        /\ base + end \in Nat
    BY <1>1, LayoutAssumption DEF Lengths
  <2>5. n < Page
    BY <2>2, <2>4
  <2> DEFINE x == base + end
             r == x % Page
  <2>6. (x + n) % Page = IF r + n < Page THEN r + n ELSE r + n - Page
    <3> HIDE DEF x
    <3> QED
      BY <2>4, <2>5, ModPlus DEF x
  <2>7. r \in Nat
    BY <2>4
  <2> HIDE DEF r
  <2>8. r + n < Page /\ (x + n) % Page = 0
    BY <2>2, <2>3, <2>4, <2>7 DEF r
  <2> HIDE DEF x
  <2> QED
    BY <2>1, <2>6, <2>7, <2>8
<1>8. o >= end + TermLen \/ Len(t) = 0
  BY <1>3, <1>6, <1>7
<1>9. g = WriteAt(dump, o, t)
  BY DEF o, s
<1> HIDE DEF t
<1> QED
  BY <1>1, <1>2, <1>3, <1>6, <1>8, <1>9, WriteBehind

\* A write fails: nothing that the append has copied counts.
LEMMA FailStep ==
  ASSUME NEW c \in Nat, Running(c), WriteFails
  PROVE  Running(c)'
<1>1. Writing /\ AppendFrame /\ at' = at /\ pc' \in {"run", "gave_up"}
  BY DEF WriteFails, FailedWrite, AppendFrame
<1>2. PICK n \in Landed(NextWrite.to, NextWrite.bytes) :
         dump' = WriteAt(dump, NextWrite.to, SubSeq(NextWrite.bytes, 1, n))
  BY DEF WriteFails, FailedWrite
<1>3. n \in Nat
  BY <1>2 DEF Landed
<1>4. /\ dump' \in Seq(Bytes) /\ Len(dump) <= Len(dump')
      /\ Stretch(dump', 0, end, 0, c) /\ Stands(dump', end, Item(TermId, TermLen))
  BY <1>1, <1>2, <1>3, PartCommitsNothing
<1>5. AppendOK' /\ at' \in 0 .. Len(stage)
  BY <1>1 DEF AppendOK, Writing, Running, TypeOK
<1> QED
  BY <1>1, <1>4, <1>5, WriteStep

\* The header with the totals of the run is written over the first one.
LEMMA HeaderStep ==
  ASSUME NEW c \in Nat, Running(c), WriteHeader
  PROVE  Running(c)'
<1>1. TypeOK /\ BytesOK /\ StageOK(c) /\ DumpOK(c) /\ PhaseOK /\ alive
  BY DEF Running, LiveOK
<1>2. /\ pc = "header" /\ pc' \in {"truncate", "gave_up"}
      /\ header' = "final" \/ header' = header
      /\ pc' = "truncate" => header' = "final"
      /\ UNCHANGED <<base, stage, produced, dump, staged, end, at, closing, alive>>
  BY DEF WriteHeader
<1>3. TypeOK' /\ BytesOK'
  BY <1>1, <1>2 DEF TypeOK, BytesOK
<1>4. StageOK(c)'
  BY <1>1, <1>2 DEF StageOK
<1>5. staged = Len(stage) /\ header # "absent" /\ header' # "absent"
  BY <1>1, <1>2 DEF PhaseOK
<1>6. DumpOK(c)'
  BY <1>1, <1>2, <1>5 DEF DumpOK
<1>7. AppendOK' /\ PhaseOK'
  BY <1>2, <1>5 DEF AppendOK, PhaseOK, Writing
<1> QED
  BY <1>1, <1>2, <1>3, <1>4, <1>6, <1>7 DEF Running, LiveOK

\* The file is cut behind its last block.
LEMMA TruncateStep ==
  ASSUME NEW c \in Nat, Running(c), Truncate
  PROVE  Running(c)'
<1>1. /\ Lengths /\ dump \in Seq(Bytes)
      /\ TypeOK /\ BytesOK /\ StageOK(c) /\ DumpOK(c) /\ PhaseOK /\ alive
  BY TheSizes DEF Running, LiveOK, BytesOK
<1>2. /\ pc = "truncate" /\ pc' \in {"closed", "gave_up"}
      /\ UNCHANGED <<base, stage, produced, header, staged, end, at, closing, alive>>
  BY DEF Truncate
<1>3. staged = Len(stage) /\ header = "final"
  BY <1>1, <1>2 DEF PhaseOK
<1>4. StageOK(c)' /\ AppendOK' /\ PhaseOK'
  BY <1>1, <1>2, <1>3 DEF StageOK, AppendOK, PhaseOK, Writing
<1>5. CASE dump' = dump /\ pc' = "gave_up"
  <2>1. TypeOK' /\ BytesOK'
    BY <1>1, <1>2, <1>5 DEF TypeOK, BytesOK
  <2>2. DumpOK(c)'
    BY <1>1, <1>2, <1>3, <1>5 DEF DumpOK
  <2> QED
    BY <1>1, <1>2, <1>4, <2>1, <2>2 DEF Running, LiveOK
<1>6. CASE dump' = SubSeq(dump, 1, end) /\ pc' = "closed"
  <2>1. end \in 0 .. Len(dump) /\ end \in Nat
    BY <1>1 DEF Lengths
  <2>2. dump' \in Seq(Bytes) /\ Len(dump') = end
    BY <1>1, <1>6, <2>1, PrefixIs
  <2>3. \A x \in 1 .. end : dump'[x] = dump[x]
    <3>1. \A i \in 1 .. end : dump[i] \in Bytes
      BY <1>1, <2>1
    <3>2. 1 \in Int /\ end \in Int
      BY <2>1
    <3>3. \A i \in 1 .. end - 1 + 1 : SubSeq(dump, 1, end)[i] = dump[1 + i - 1]
      BY <3>1, <3>2, SubSeqProperties
    <3> SUFFICES ASSUME NEW x \in 1 .. end PROVE dump'[x] = dump[x]
      OBVIOUS
    <3>4. x \in 1 .. end - 1 + 1 /\ 1 + x - 1 = x
      BY <2>1
    <3> QED
      BY <1>6, <3>3, <3>4
  <2>4. Stretch(dump', 0, end, 0, c)
    <3>1. Stretch(dump, 0, end, 0, c) /\ end <= Len(dump) /\ end <= Len(dump')
      BY <1>1, <2>1, <2>2 DEF DumpOK
    <3> QED
      BY <1>1, <2>1, <2>2, <2>3, <3>1, StretchKept
  <2>5. end' \in 0 .. Len(dump')
    BY <1>2, <2>1, <2>2
  <2>6. TypeOK' /\ BytesOK'
    BY <1>1, <1>2, <1>6, <2>2, <2>5 DEF TypeOK, BytesOK
  <2>7. DumpOK(c)'
    BY <1>1, <1>2, <1>3, <1>6, <2>2, <2>4 DEF DumpOK
  <2> QED
    BY <1>1, <1>2, <1>4, <2>6, <2>7 DEF Running, LiveOK
<1> QED
  BY <1>5, <1>6 DEF Truncate

\* A kill leaves what could be read, or what the write of the head commits.
LEMMA KillStep ==
  ASSUME NEW c \in Nat, Running(c), Kill
  PROVE  /\ TypeOK' /\ BytesOK' /\ ~ alive' /\ produced' = produced
         /\ \E k \in Nat : k \in {c, produced} /\ DeadOK(k)'
<1>1. /\ Lengths /\ dump \in Seq(Bytes) /\ base \in Nat /\ produced \in Nat
      /\ TypeOK /\ BytesOK /\ StageOK(c) /\ DumpOK(c) /\ LiveOK(c) /\ AppendOK /\ PhaseOK
  BY TheSizes DEF Running, LiveOK, BytesOK, TypeOK
<1>2. /\ alive' = FALSE
      /\ UNCHANGED <<base, stage, produced, header, staged, end, at, pc, closing>>
  BY DEF Kill
<1>3. header # "absent" /\ pc # "closed" => (base + end) % Page <= Page - TermLen
  BY <1>1 DEF DumpOK
<1>4. header = "final" => c = produced
  BY <1>1, Complete DEF PhaseOK
<1>5. ASSUME NEW k \in Nat, k \in {c, produced}, ReadFile(dump') = Accepted(k),
             dump' \in Seq(Bytes), Len(dump) <= Len(dump')
      PROVE  /\ TypeOK' /\ BytesOK' /\ ~ alive' /\ produced' = produced
             /\ \E n \in Nat : n \in {c, produced} /\ DeadOK(n)'
  <2>1. end' \in 0 .. Len(dump')
    <3>1. Len(dump') \in Nat
      BY <1>5
    <3> QED
      BY <1>1, <1>2, <1>5, <3>1 DEF Lengths
  <2>2. TypeOK' /\ BytesOK'
    BY <1>1, <1>2, <1>5, <2>1 DEF TypeOK, BytesOK
  <2>3. DeadOK(k)'
    BY <1>2, <1>3, <1>4, <1>5 DEF DeadOK
  <2> QED
    BY <1>2, <1>5, <2>2, <2>3
<1>6. CASE dump' = dump
  <2>1. ReadFile(dump) = Accepted(c)
    BY <1>1, LiveIsRead
  <2>2. Len(dump) <= Len(dump')
    BY <1>1, <1>6 DEF Lengths
  <2> QED
    BY <1>1, <1>5, <1>6, <2>1, <2>2
<1>7. ASSUME Writing,
             NEW n \in Landed(NextWrite.to, NextWrite.bytes) \cup {Len(NextWrite.bytes)},
             dump' = WriteAt(dump, NextWrite.to, SubSeq(NextWrite.bytes, 1, n))
      PROVE  /\ TypeOK' /\ BytesOK' /\ ~ alive' /\ produced' = produced
             /\ \E k \in Nat : k \in {c, produced} /\ DeadOK(k)'
  <2>1. CASE pc # "head" \/ n \in Landed(NextWrite.to, NextWrite.bytes)
    <3>1. n \in Nat
      <4>1. NextWrite.bytes \in Seq(Bytes) \/ n \in Landed(NextWrite.to, NextWrite.bytes)
        <5>1. CASE pc = "copy"
          BY <1>1, <5>1, CopyIs
        <5>2. CASE pc = "term"
          <6>1. NextWrite.bytes = Ending(base, TailAt).bytes /\ TailAt \in Nat
            BY <1>1, <5>2, TermIs DEF Lengths
          <6> QED
            BY <1>1, <6>1, EndingIs
        <5> QED
          BY <1>7, <2>1, <5>1, <5>2 DEF Writing
      <4>2. NextWrite.bytes \in Seq(Bytes) => Len(NextWrite.bytes) \in Nat
        OBVIOUS
      <4> QED
        BY <1>7, <4>1, <4>2 DEF Landed
    <3>2. /\ dump' \in Seq(Bytes) /\ Len(dump) <= Len(dump')
          /\ Stretch(dump', 0, end, 0, c) /\ Stands(dump', end, Item(TermId, TermLen))
      BY <1>7, <2>1, <3>1, PartCommitsNothing
    <3>3. end \in 0 .. Len(dump')
      BY <1>1, <3>2 DEF Lengths
    <3>4. ReadFile(dump') = Accepted(c)
      BY <3>2, <3>3, StretchIsRead
    <3> QED
      BY <1>5, <3>2, <3>4
  <2>2. CASE pc = "head" /\ n = Len(NextWrite.bytes)
    <3> DEFINE s == NextWrite.bytes
               o == Ending(base, TailAt).at
    <3>1. NextWrite.to = end /\ s \in Seq(Bytes) /\ Len(s) = TermLen
      BY <1>1, <2>2, HeadIs
    <3>2. n \in 0 .. Len(s) /\ n = Len(s)
      <4>1. Len(s) \in Nat
        BY <3>1
      <4> QED
        BY <2>2, <4>1
    <3>3. SubSeq(s, 1, n) = s
      <4> HIDE DEF s
      <4> QED
        BY <3>1, <3>2, PrefixIs
    <3>4. dump' = WriteAt(dump, end, NextWrite.bytes)
      BY <1>7, <3>1, <3>3
    <3>5. /\ dump' \in Seq(Bytes) /\ o \in Nat /\ o <= Len(dump')
          /\ Stretch(dump', 0, o, 0, produced) /\ Stands(dump', o, Item(TermId, TermLen))
      BY <1>1, <2>2, <3>4, HeadWritten
    <3> HIDE DEF o, s
    <3>6. ReadFile(dump') = Accepted(produced)
      <4>1. o \in 0 .. Len(dump')
        BY <3>5
      <4> QED
        BY <1>1, <3>5, <4>1, StretchIsRead
    <3>7. Len(dump) <= Len(dump')
      <4>1. dump' = WriteAt(dump, end, s) /\ end \in 0 .. Len(dump) /\ Len(dump) \in Nat
        BY <1>1, <3>4 DEF s, Lengths
      <4>2. dump' \in Seq(Bytes) /\ Len(dump') >= Len(dump)
        BY <1>1, <3>1, <4>1, WriteIs
      <4> QED
        BY <4>1, <4>2
    <3> QED
      BY <1>1, <1>5, <3>5, <3>6, <3>7
  <2> QED
    BY <1>7, <2>1, <2>2
<1> QED
  BY <1>6, <1>7 DEF Kill

-----------------------------------------------------------------------------
\* Where a step leads: only the write of the head and a kill change what can
\* be read, and they make all blocks readable if they change it.
LEMMA LiveStep ==
  ASSUME NEW c \in Nat, Running(c), Next
  PROVE  /\ TypeOK' /\ BytesOK'
         /\ \/ /\ Running(c)'
               /\ produced' \in {produced, produced + 1}
            \/ /\ produced' = produced /\ alive'
               /\ \E k \in Nat : k = produced /\ LiveOK(k)'
            \/ /\ produced' = produced /\ ~ alive'
               /\ \E k \in Nat : k \in {c, produced} /\ DeadOK(k)'
<1>1. CASE Begin
  BY <1>1, BeginStep DEF Running, Begin
<1>2. CASE FlushBlock
  BY <1>2, FlushBlockStep DEF Running, FlushBlock
<1>3. CASE FinishEmpty
  BY <1>3, FinishEmptyStep DEF Running, FinishEmpty
<1>4. CASE CopyPiece
  BY <1>4, CopyStep DEF Running, CopyPiece
<1>5. CASE WriteTerminator
  BY <1>5, TermStep DEF Running, WriteTerminator
<1>6. CASE WriteHead
  <2>1. produced \in Nat
    BY DEF Running, TypeOK
  <2> QED
    BY <1>6, <2>1, HeadStep
<1>7. CASE WriteFails
  BY <1>7, FailStep DEF Running, WriteFails
<1>8. CASE WriteHeader
  BY <1>8, HeaderStep DEF Running, WriteHeader
<1>9. CASE Truncate
  BY <1>9, TruncateStep DEF Running, Truncate
<1>10. CASE Kill
  BY <1>10, KillStep
<1> QED
  BY <1>1, <1>2, <1>3, <1>4, <1>5, <1>6, <1>7, <1>8, <1>9, <1>10 DEF Next

\* LiveIsRead in the next state.
LEMMA LiveIsReadNext ==
  ASSUME TypeOK', BytesOK', NEW c \in Nat, LiveOK(c)'
  PROVE  ReadFile(dump') = Accepted(c)
<1>1. dump' \in Seq(Bytes) /\ end' \in 0 .. Len(dump') /\ Stretch(dump', 0, end', 0, c)
  BY DEF BytesOK, TypeOK, LiveOK, DumpOK
<1>2. end' = Len(dump') \/ Stands(dump', end', Item(TermId, TermLen))
  <2>1. CASE header' = "absent"
    BY <2>1 DEF LiveOK, DumpOK
  <2>2. CASE header' # "absent"
    BY <2>2 DEF LiveOK, DumpOK
  <2> QED
    BY <2>1, <2>2
<1> QED
  BY <1>1, <1>2, StretchIsRead

\* Its blocks are those of BlockLog.
LEMMA AcceptedIs ==
  ASSUME NEW c \in Nat
  PROVE  Accepted(c).ok /\ Accepted(c).blocks = Log!FirstBlocks(c)
<1>1. \A i \in 1 .. c : 0 + i = i
  OBVIOUS
<1>2. After(0, c) = Log!FirstBlocks(c)
  BY <1>1 DEF After, Log!FirstBlocks
<1> HIDE DEF After
<1> QED
  BY <1>2 DEF Accepted

\* The file of any state is that of its first c blocks.
LEMMA FileIsRead ==
  ASSUME FileInv
  PROVE  \E c \in Nat : /\ ReadFile(dump) = Accepted(c)
                        /\ IF alive THEN Running(c) ELSE DeadOK(c)
<1>1. PICK c \in Nat : IF alive THEN LiveOK(c) ELSE DeadOK(c)
  BY DEF FileInv
<1>2. CASE alive
  BY <1>1, <1>2, LiveIsRead DEF FileInv, Running
<1>3. CASE ~ alive
  BY <1>1, <1>3 DEF DeadOK
<1> QED
  BY <1>1, <1>2, <1>3

\* Every step keeps FileInv, and is one of BlockLog or a stutter.
LEMMA FileStep ==
  ASSUME FileInv, [Next]_vars
  PROVE  FileInv' /\ [Log!Next]_Log!vars
<1>1. CASE UNCHANGED vars
  <2>1. /\ UNCHANGED <<base, stage, produced, dump, header, staged, end, at, pc>>
        /\ UNCHANGED <<closing, alive>>
    BY <1>1 DEF vars
  <2>2. FileInv'
    BY <2>1 DEF FileInv, TypeOK, BytesOK, LiveOK, DeadOK, StageOK, DumpOK, AppendOK,
                PhaseOK, Writing, TailAt
  <2>3. UNCHANGED Log!vars
    BY <2>1 DEF Log!vars, Blocks
  <2> QED
    BY <2>2, <2>3
<1>2. CASE Next
  <2>1. alive
    BY <1>2 DEF Next, Begin, FlushBlock, FinishEmpty, CopyPiece, WriteTerminator,
                WriteHead, WriteFails, FailedWrite, WriteHeader, Truncate, Kill
  <2>2. PICK c \in Nat : ReadFile(dump) = Accepted(c) /\ Running(c)
    BY <2>1, FileIsRead
  <2>3. Blocks = Log!FirstBlocks(c)
    BY <2>2, AcceptedIs DEF Blocks
  <2>4. produced \in Nat /\ alive = TRUE
    BY <2>1 DEF FileInv, TypeOK
  <2>5. TypeOK' /\ BytesOK'
    BY <1>2, <2>2, LiveStep
  <2>6. CASE Running(c)' /\ produced' \in {produced, produced + 1}
    <3>1. LiveOK(c)' /\ alive' = TRUE
      BY <2>6 DEF Running, TypeOK
    <3>2. Blocks' = Log!FirstBlocks(c)
      <4>1. ReadFile(dump') = Accepted(c)
        BY <2>5, <3>1, LiveIsReadNext
      <4> QED
        BY <4>1, AcceptedIs DEF Blocks
    <3>3. FileInv'
      BY <2>5, <3>1 DEF FileInv
    <3>4. [Log!Next]_Log!vars
      BY <2>3, <2>4, <2>6, <3>1, <3>2 DEF Log!Next, Log!Produce, Log!vars
    <3> QED
      BY <3>3, <3>4
  <2>7. CASE /\ produced' = produced /\ alive'
             /\ \E k \in Nat : k = produced /\ LiveOK(k)'
    <3>1. PICK k \in Nat : k = produced /\ LiveOK(k)'
      BY <2>7
    <3>2. Blocks' = Log!FirstBlocks(produced)
      <4>1. ReadFile(dump') = Accepted(k)
        BY <2>5, <3>1, LiveIsReadNext
      <4> QED
        BY <3>1, <4>1, AcceptedIs DEF Blocks
    <3>3. FileInv'
      BY <2>5, <2>7, <3>1 DEF FileInv
    <3>4. alive' = TRUE
      BY <2>5, <2>7 DEF TypeOK
    <3>5. Log!Commit
      BY <2>4, <2>7, <3>2, <3>4 DEF Log!Commit
    <3> QED
      BY <3>3, <3>5 DEF Log!Next
  <2>8. CASE /\ produced' = produced /\ ~ alive'
             /\ \E k \in Nat : k \in {c, produced} /\ DeadOK(k)'
    <3>1. PICK k \in Nat : k \in {c, produced} /\ DeadOK(k)'
      BY <2>8
    <3>2. Blocks' \in {Blocks, Log!FirstBlocks(produced)}
      <4>1. ReadFile(dump') = Accepted(k)
        BY <3>1 DEF DeadOK
      <4> QED
        BY <2>3, <3>1, <4>1, AcceptedIs DEF Blocks
    <3>3. FileInv'
      BY <2>5, <2>8, <3>1 DEF FileInv
    <3>4. alive' = FALSE
      BY <2>5, <2>8 DEF TypeOK
    <3>5. Log!Kill
      BY <2>4, <2>8, <3>2, <3>4 DEF Log!Kill
    <3> QED
      BY <3>3, <3>5 DEF Log!Next
  <2> QED
    BY <1>2, <2>2, <2>6, <2>7, <2>8, LiveStep
<1> QED
  BY <1>1, <1>2

\* FileInv is an invariant.
LEMMA FileInvariance == Spec => []FileInv
<1>1. FileInv /\ [Next]_vars => FileInv'
  BY FileStep
<1> QED
  BY <1>1, Initially, PTL DEF Spec

-----------------------------------------------------------------------------
(***************************************************************************)
(* Whenever the process dies, and whatever part of a write lands, a reader *)
(* accepts the file; and the terminator, over which the commit is written, *)
(* lies within a page (fst_sink.rs, "crash-safe output").                  *)
(***************************************************************************)
THEOREM ADumpIsReadable == Spec => []Readable
<1>1. ASSUME FileInv PROVE Readable
  <2>1. PICK c \in Nat : /\ ReadFile(dump) = Accepted(c)
                         /\ IF alive THEN Running(c) ELSE DeadOK(c)
    BY <1>1, FileIsRead
  <2>2. ReaderAccepts
    BY <2>1, AcceptedIs DEF ReaderAccepts
  <2>3. ASSUME header # "absent", pc # "closed"
        PROVE  (base + end) % Page <= Page - TermLen
    BY <2>1, <2>3 DEF Running, LiveOK, DumpOK, DeadOK
  <2>4. ASSUME header # "absent", pc # "closed", alive
        PROVE  SubSeq(dump, end + 1, end + TermLen) = Item(TermId, TermLen)
    <3> DEFINE term == Item(TermId, TermLen)
               m == end + 1
               n == end + TermLen
               s == SubSeq(dump, m, n)
    <3>1. Stands(dump, end, term) /\ dump \in Seq(Bytes) /\ Lengths
      BY <2>1, <2>4, TheSizes DEF Running, LiveOK, DumpOK, BytesOK
    <3>2. term \in Seq(Bytes) /\ Len(term) = TermLen
      <4>1. TermId \in Int /\ TermLen \in Nat \ {0}
        BY LayoutAssumption DEF TermId
      <4> QED
        BY <4>1, ItemIs
    <3> HIDE DEF term
    <3>3. end + TermLen <= Len(dump) /\ \A i \in 1 .. TermLen : dump[end + i] = term[i]
      BY <3>1, <3>2 DEF Stands
    <3>4. m \in Int /\ n \in Int /\ \A i \in m .. n : dump[i] \in Bytes
      BY <3>1, <3>3 DEF Lengths
    <3>5. /\ s \in Seq(Bytes)
          /\ Len(s) = IF m <= n THEN n - m + 1 ELSE 0
          /\ \A i \in 1 .. n - m + 1 : s[i] = dump[m + i - 1]
      <4> HIDE DEF m, n
      <4> QED
        BY <3>4, SubSeqProperties
    <3> HIDE DEF s
    <3>6. Len(s) = TermLen
      BY <3>1, <3>5 DEF Lengths
    <3>7. ASSUME NEW i \in 1 .. Len(s) PROVE s[i] = term[i]
      <4>1. i \in 1 .. n - m + 1 /\ m + i - 1 = end + i /\ i \in 1 .. TermLen
        BY <3>1, <3>6 DEF Lengths
      <4> HIDE DEF m, n
      <4> QED
        BY <3>3, <3>5, <4>1
    <3>8. s = term
      BY <3>2, <3>5, <3>6, <3>7, SeqEqual
    <3> QED
      BY <3>8 DEF s, term
  <2> QED
    BY <1>1, <2>2, <2>3, <2>4 DEF Readable, TerminatorInOnePage, FileInv
<1> QED
  BY <1>1, FileInvariance, PTL

(***************************************************************************)
(* Totals of the whole run stand only in a file that holds all its blocks  *)
(* (Staged::finish).                                                       *)
(***************************************************************************)
THEOREM TotalsMeanComplete == Spec => []FinalHeaderMeansComplete
<1>1. ASSUME FileInv PROVE FinalHeaderMeansComplete
  <2>1. PICK c \in Nat : /\ ReadFile(dump) = Accepted(c)
                         /\ IF alive THEN Running(c) ELSE DeadOK(c)
    BY <1>1, FileIsRead
  <2>2. ASSUME header = "final" PROVE c = produced
    <3>1. CASE alive
      <4>1. TypeOK /\ BytesOK /\ StageOK(c) /\ staged = Len(stage)
        BY <2>1, <2>2, <3>1 DEF Running, LiveOK, PhaseOK
      <4> QED
        BY <4>1, Complete
    <3>2. CASE ~ alive
      BY <2>1, <2>2, <3>2 DEF DeadOK
    <3> QED
      BY <3>1, <3>2
  <2>3. Blocks = Log!FirstBlocks(c)
    BY <2>1, AcceptedIs DEF Blocks
  <2> QED
    BY <2>2, <2>3 DEF FinalHeaderMeansComplete, Log!FirstBlocks
<1> QED
  BY <1>1, FileInvariance, PTL

(***************************************************************************)
(* What a reader finds is a log: it grows by whole blocks, in their order  *)
(* and with none missing between two, and what it once held it keeps.      *)
(***************************************************************************)
THEOREM TheDumpIsALog == Spec => ImplementsBlockLog
<1>1. Init => Log!Init
  <2> SUFFICES ASSUME Init PROVE Log!Init
    OBVIOUS
  <2>1. PICK c \in Nat : /\ ReadFile(dump) = Accepted(c)
                         /\ IF alive THEN Running(c) ELSE DeadOK(c)
    BY Initially, FileIsRead
  <2>2. alive /\ produced = 0 /\ alive = TRUE
    BY DEF Init
  <2>3. c = 0
    <3>1. StageOK(c) /\ TypeOK /\ BytesOK /\ staged = Len(stage)
      BY <2>1, <2>2 DEF Running, LiveOK, Init
    <3> QED
      BY <2>2, <3>1, Complete
  <2>4. Blocks = <<>>
    BY <2>1, <2>3 DEF Blocks, Accepted, After
  <2> QED
    BY <2>2, <2>4 DEF Log!Init
<1>2. FileInv /\ [Next]_vars => [Log!Next]_Log!vars
  BY FileStep
<1> QED
  BY <1>1, <1>2, FileInvariance, PTL DEF Spec, Log!Spec, ImplementsBlockLog

-----------------------------------------------------------------------------
(***************************************************************************)
(* Stopping on a signal.                                                   *)
(***************************************************************************)
Stop == INSTANCE Interrupt

(***************************************************************************)
(* The inductive invariant.  BackstopOffOnceTaken alone does not survive   *)
(* HandlerArms, and the promise of the `final` blocks does not survive     *)
(* HandlerStopsLoops: it takes FlagsFollowHandler and TakenAfterHandler to *)
(* know that the handler is done before the interrupt is taken.            *)
(***************************************************************************)
FlagsFollowHandler == /\ interrupted <=> handler # "none"
                      /\ loopStop => interrupted

TakenAfterHandler == acknowledged => handler = "done"

\* The interrupt was taken in the event loop, which has ended.
TakenBeforeFinal == sim \in {"final", "closing"} /\ acknowledged /\ from # "final"

OwnThread == /\ FlagsFollowHandler
             /\ TakenAfterHandler
             /\ acknowledged /\ Stop!Settled => ~ alarm
             /\ TakenBeforeFinal => ~ loopStop
             /\ cut # "loop"

StopInv == Stop!TypeOK /\ (thread = "simulation" => OwnThread)

-----------------------------------------------------------------------------
\* Each step keeps the flags Boolean (interrupt.rs, fst_sink.rs)...
LEMMA FlagTypesStep == Stop!FlagTypes /\ [Stop!Next]_Stop!vars => Stop!FlagTypes'
<1> SUFFICES ASSUME Stop!FlagTypes, [Stop!Next]_Stop!vars PROVE Stop!FlagTypes'
  OBVIOUS
<1> USE DEF Stop!FlagTypes, Stop!flagVars, Stop!sigVars, Stop!simVars,
     Stop!guardVars
<1>1. CASE Stop!FirstSignal \/ Stop!SecondSignal
  BY <1>1 DEF Stop!FirstSignal, Stop!SecondSignal
<1>2. CASE Stop!HandlerStoresSignal \/ Stop!HandlerStopsLoops \/ Stop!HandlerArms
  BY <1>2 DEF Stop!HandlerStoresSignal, Stop!HandlerStopsLoops, Stop!HandlerArms
<1>3. CASE Stop!AlarmFires
  BY <1>3 DEF Stop!AlarmFires
<1>4. CASE Stop!LoopPoll \/ Stop!BoundaryPoll \/ Stop!FinalPoll \/ Stop!SolverPoll
  BY <1>4 DEF Stop!LoopPoll, Stop!BoundaryPoll, Stop!FinalPoll, Stop!SolverPoll,
       Stop!TakeInterrupt
<1>5. CASE Stop!EndSlot \/ Stop!NextSlot \/ Stop!Disarm
  BY <1>5 DEF Stop!EndSlot, Stop!NextSlot, Stop!Disarm
<1>6. CASE Stop!EndLoopStop \/ Stop!FinalBlock \/ Stop!Close \/ Stop!Exit
  BY <1>6 DEF Stop!EndLoopStop, Stop!FinalBlock, Stop!Close, Stop!Exit
<1>7. CASE Stop!GuardLeaves \/ Stop!GuardStandsDown \/ Stop!GuardHolds
  BY <1>7 DEF Stop!GuardLeaves, Stop!GuardStandsDown, Stop!GuardHolds
<1>8. CASE Stop!GuardRearms \/ Stop!GuardRechecks \/ Stop!GuardDisarms
  BY <1>8 DEF Stop!GuardRearms, Stop!GuardRechecks, Stop!GuardDisarms
<1>9. CASE UNCHANGED Stop!vars
  BY <1>9 DEF Stop!vars
<1> QED
  BY <1>1, <1>2, <1>3, <1>4, <1>5, <1>6, <1>7, <1>8, <1>9
     DEF Stop!Next, Stop!Signal, Stop!Handler, Stop!Sim, Stop!Guard

\* ... and each thread at one of its program points.
LEMMA PlaceTypesStep == Stop!PlaceTypes /\ [Stop!Next]_Stop!vars => Stop!PlaceTypes'
<1> SUFFICES ASSUME Stop!PlaceTypes, [Stop!Next]_Stop!vars PROVE Stop!PlaceTypes'
  OBVIOUS
<1> USE DEF Stop!PlaceTypes, Stop!flagVars, Stop!sigVars, Stop!simVars,
     Stop!guardVars, Stop!HandlerStates, Stop!SimStates, Stop!GuardStates
<1>1. CASE Stop!FirstSignal \/ Stop!SecondSignal
  BY <1>1 DEF Stop!FirstSignal, Stop!SecondSignal
<1>2. CASE Stop!HandlerStoresSignal \/ Stop!HandlerStopsLoops \/ Stop!HandlerArms
  BY <1>2 DEF Stop!HandlerStoresSignal, Stop!HandlerStopsLoops, Stop!HandlerArms
<1>3. CASE Stop!AlarmFires
  BY <1>3 DEF Stop!AlarmFires
<1>4. CASE Stop!LoopPoll \/ Stop!BoundaryPoll \/ Stop!FinalPoll \/ Stop!SolverPoll
  BY <1>4 DEF Stop!LoopPoll, Stop!BoundaryPoll, Stop!FinalPoll, Stop!SolverPoll,
       Stop!TakeInterrupt
<1>5. CASE Stop!EndSlot \/ Stop!NextSlot \/ Stop!Disarm
  BY <1>5 DEF Stop!EndSlot, Stop!NextSlot, Stop!Disarm
<1>6. CASE Stop!EndLoopStop \/ Stop!FinalBlock \/ Stop!Close \/ Stop!Exit
  BY <1>6 DEF Stop!EndLoopStop, Stop!FinalBlock, Stop!Close, Stop!Exit
<1>7. CASE Stop!GuardLeaves \/ Stop!GuardStandsDown \/ Stop!GuardHolds
  BY <1>7 DEF Stop!GuardLeaves, Stop!GuardStandsDown, Stop!GuardHolds
<1>8. CASE Stop!GuardRearms \/ Stop!GuardRechecks \/ Stop!GuardDisarms
  BY <1>8 DEF Stop!GuardRearms, Stop!GuardRechecks, Stop!GuardDisarms
<1>9. CASE UNCHANGED Stop!vars
  BY <1>9 DEF Stop!vars
<1> QED
  BY <1>1, <1>2, <1>3, <1>4, <1>5, <1>6, <1>7, <1>8, <1>9
     DEF Stop!Next, Stop!Signal, Stop!Handler, Stop!Sim, Stop!Guard

\* The flags, the threads and the alarm keep their types (interrupt.rs).
THEOREM StopTypes == Stop!Spec => []Stop!TypeOK
<1>1. Stop!Init => Stop!TypeOK
  BY DEF Stop!Init, Stop!TypeOK, Stop!FlagTypes, Stop!PlaceTypes,
       Stop!HandlerStates, Stop!SimStates, Stop!GuardStates
<1>2. Stop!TypeOK /\ [Stop!Next]_Stop!vars => Stop!TypeOK'
  BY FlagTypesStep, PlaceTypesStep DEF Stop!TypeOK
<1> QED
  BY <1>1, <1>2, PTL DEF Stop!Spec

\* No step moves the handler to another thread, and each keeps OwnThread.
LEMMA ThreadStays == [Stop!Next]_Stop!vars => thread' = thread
BY DEF Stop!Next, Stop!Signal, Stop!Handler, Stop!Sim, Stop!Guard,
     Stop!FirstSignal, Stop!SecondSignal, Stop!HandlerStoresSignal,
     Stop!HandlerStopsLoops, Stop!HandlerArms, Stop!AlarmFires, Stop!LoopPoll,
     Stop!BoundaryPoll, Stop!FinalPoll, Stop!SolverPoll, Stop!EndSlot,
     Stop!NextSlot, Stop!Disarm, Stop!EndLoopStop, Stop!FinalBlock, Stop!Close,
     Stop!Exit, Stop!GuardLeaves, Stop!GuardStandsDown, Stop!GuardHolds,
     Stop!GuardRearms, Stop!GuardRechecks, Stop!GuardDisarms, Stop!vars,
     Stop!sigVars

LEMMA OwnThreadStep ==
  ASSUME Stop!TypeOK, Stop!TypeOK', OwnThread, thread = "simulation",
         [Stop!Next]_Stop!vars
  PROVE  OwnThread'
<1>0. handler \in Stop!HandlerStates
  BY DEF Stop!TypeOK, Stop!PlaceTypes
<1> USE <1>0 DEF OwnThread, FlagsFollowHandler, TakenAfterHandler, Stop!Settled,
     TakenBeforeFinal, Stop!flagVars, Stop!sigVars, Stop!simVars, Stop!guardVars
<1>1. CASE Stop!Signal
  <2>1. CASE Stop!FirstSignal
    <3>1. ~ acknowledged
      BY <2>1 DEF Stop!FirstSignal
    <3> QED
      BY <2>1, <3>1 DEF Stop!FirstSignal
  <2>2. CASE Stop!SecondSignal
    BY <2>2 DEF Stop!SecondSignal
  <2> QED
    BY <1>1, <2>1, <2>2 DEF Stop!Signal
<1>2. CASE Stop!Handler
  <2>1. ~ acknowledged /\ acknowledged' = acknowledged /\ cut' = cut
    BY <1>2 DEF Stop!Handler, Stop!HandlerStoresSignal, Stop!HandlerStopsLoops,
         Stop!HandlerArms
  <2>2. FlagsFollowHandler'
    BY <1>2 DEF Stop!Handler, Stop!HandlerStoresSignal, Stop!HandlerStopsLoops,
         Stop!HandlerArms
  <2> QED
    BY <2>1, <2>2
<1>3. CASE Stop!AlarmFires
  BY <1>3 DEF Stop!AlarmFires
<1>4. CASE Stop!Sim
  <2>1. CASE Stop!LoopPoll \/ Stop!BoundaryPoll \/ Stop!FinalPoll \/ Stop!SolverPoll
    <3>1. handler = "done"
      BY <2>1 DEF Stop!LoopPoll, Stop!BoundaryPoll, Stop!FinalPoll,
           Stop!SolverPoll, Stop!SimRuns, Stop!InHandler, Stop!HandlerStates
    <3>2. /\ UNCHANGED <<interrupted, loopStop, alarm, handler, guard>>
          /\ sim # "acking" /\ interrupted
      BY <2>1 DEF Stop!LoopPoll, Stop!BoundaryPoll, Stop!FinalPoll,
           Stop!SolverPoll
    <3>3. cut' # "loop"
      BY <2>1 DEF Stop!LoopPoll, Stop!BoundaryPoll, Stop!FinalPoll,
           Stop!SolverPoll
    <3>4. CASE finished
      <4>1. acknowledged' = acknowledged /\ sim' # "acking"
        BY <2>1, <3>4 DEF Stop!LoopPoll, Stop!BoundaryPoll, Stop!FinalPoll,
             Stop!SolverPoll, Stop!TakeInterrupt
      <4>2. TakenBeforeFinal' => TakenBeforeFinal
        BY <2>1, <3>4 DEF Stop!LoopPoll, Stop!BoundaryPoll, Stop!FinalPoll,
             Stop!SolverPoll, Stop!TakeInterrupt
      <4> QED
        BY <3>1, <3>2, <3>3, <4>1, <4>2
    <3>5. CASE ~ finished
      <4>1. sim' = "acking"
        BY <2>1, <3>5 DEF Stop!LoopPoll, Stop!BoundaryPoll, Stop!FinalPoll,
             Stop!SolverPoll, Stop!TakeInterrupt
      <4> QED
        BY <3>1, <3>2, <3>3, <4>1
    <3> QED
      BY <3>4, <3>5
  <2>2. CASE Stop!Disarm
    BY <2>2 DEF Stop!Disarm, Stop!TypeOK, Stop!PlaceTypes
  <2>3. CASE Stop!EndSlot \/ Stop!NextSlot \/ Stop!Close
    <3>1. UNCHANGED <<Stop!flagVars, alarm, Stop!sigVars, guard, from, cut>>
      <4>1. UNCHANGED <<interrupted, loopStop, acknowledged, alarm, handler, thread, from, cut>>
        BY <2>3 DEF Stop!EndSlot, Stop!NextSlot, Stop!Close
      <4>2. UNCHANGED guard
        BY <2>3 DEF Stop!EndSlot, Stop!NextSlot, Stop!Close
      <4> QED
        BY <4>1, <4>2
    <3>2. sim # "acking" /\ (sim' \in {"final", "closing"} => sim = "final")
      <4>1. CASE Stop!EndSlot
        BY <4>1 DEF Stop!EndSlot
      <4>2. CASE Stop!NextSlot
        BY <4>2 DEF Stop!NextSlot
      <4>3. CASE Stop!Close
        BY <4>3 DEF Stop!Close
      <4> QED
        BY <2>3, <4>1, <4>2, <4>3
    <3> QED
      BY <3>1, <3>2
  <2>4. CASE Stop!EndLoopStop \/ Stop!FinalBlock \/ Stop!Exit
    BY <2>4 DEF Stop!EndLoopStop, Stop!FinalBlock, Stop!Exit
  <2> QED
    BY <1>4, <2>1, <2>2, <2>3, <2>4 DEF Stop!Sim
<1>5. CASE Stop!Guard
  <2>1. CASE Stop!GuardLeaves \/ Stop!GuardStandsDown
    BY <2>1 DEF Stop!GuardLeaves, Stop!GuardStandsDown
  <2>2. CASE Stop!GuardHolds \/ Stop!GuardRearms
    BY <2>2 DEF Stop!GuardHolds, Stop!GuardRearms
  <2>3. CASE Stop!GuardRechecks \/ Stop!GuardDisarms
    BY <2>3 DEF Stop!GuardRechecks, Stop!GuardDisarms
  <2> QED
    BY <1>5, <2>1, <2>2, <2>3 DEF Stop!Guard
<1>6. CASE UNCHANGED Stop!vars
  BY <1>6 DEF Stop!vars
<1> QED
  BY <1>1, <1>2, <1>3, <1>4, <1>5, <1>6 DEF Stop!Next

\* StopInv is an invariant.
LEMMA StopInvariance == Stop!Spec => []StopInv
<1>1. Stop!Init => StopInv
  BY DEF Stop!Init, StopInv, OwnThread, Stop!TypeOK, Stop!FlagTypes,
       Stop!PlaceTypes, Stop!HandlerStates, Stop!SimStates, Stop!GuardStates,
       FlagsFollowHandler, TakenAfterHandler, TakenBeforeFinal
<1>2. Stop!TypeOK /\ Stop!TypeOK' /\ StopInv /\ [Stop!Next]_Stop!vars => StopInv'
  BY ThreadStays, OwnThreadStep DEF StopInv
<1> QED
  BY <1>1, <1>2, StopTypes, PTL DEF Stop!Spec

-----------------------------------------------------------------------------
(***************************************************************************)
(* The comment of acknowledge_interrupt, for the thread on which it holds: *)
(* with the handler on the simulation thread, an alarm that the handler or *)
(* the guard thread armed is off once the interrupt is taken.              *)
(***************************************************************************)
THEOREM BackstopNeverOutlives == Stop!Spec => []BackstopOffOnOwnThread
<1>1. StopInv => BackstopOffOnOwnThread
  BY DEF StopInv, OwnThread, BackstopOffOnOwnThread, BackstopOffOnceTaken,
       Settled, Stop!Settled
<1> QED
  BY <1>1, StopInvariance, PTL

(***************************************************************************)
(* The comment of LOOP_STOP in interrupt.rs, for the same thread: once the *)
(* event loop has taken the interrupt and ended, the back-edges of the     *)
(* `final` blocks never find LOOP_STOP set again.                          *)
(***************************************************************************)
THEOREM FinalLoopsRunInFull == Stop!Spec => []LoopsInFullOnOwnThread
<1>1. StopInv => LoopsInFullOnOwnThread
  BY DEF StopInv, OwnThread, LoopsInFullOnOwnThread
<1> QED
  BY <1>1, StopInvariance, PTL


-----------------------------------------------------------------------------
(***************************************************************************)
(* The lists of the event loop (TimeSlot.tla, the instance Slot): what is  *)
(* in a list, and that it is there once.                                   *)
(***************************************************************************)
Slot == INSTANCE TimeSlot

Members(s) == {s[i] : i \in DOMAIN s}
Once(s) == \A i, j \in DOMAIN s : s[i] = s[j] => i = j

\* A list of processes, each once.
Orderly(s) == s \in Seq(Procs) /\ Once(s)

LEMMA NoMembers ==
  ASSUME NEW s \in Seq(Procs)
  PROVE  (s = <<>>) <=> (Members(s) = {})
<1>1. s = <<>> => Members(s) = {}
  BY DEF Members
<1>2. ASSUME s # <<>> PROVE Members(s) # {}
  <2>1. 1 \in DOMAIN s
    BY <1>2
  <2> QED
    BY <2>1 DEF Members
<1> QED
  BY <1>1, <1>2

LEMMA NothingOnce == Orderly(<<>>) /\ Members(<<>>) = {}
BY DEF Orderly, Once, Members

LEMMA MembersAre ==
  ASSUME NEW s \in Seq(Procs)
  PROVE  Members(s) \subseteq Procs
BY DEF Members

\* What is in a list stays in it when more is appended.
LEMMA AppendHas ==
  ASSUME NEW s \in Seq(Procs), NEW p \in Procs
  PROVE  /\ Members(s) \subseteq Members(Append(s, p)) /\ p \in Members(Append(s, p))
         /\ Members(Append(s, p)) \subseteq Members(s) \cup {p}
<1> DEFINE r == Append(s, p)
<1>1. /\ Len(s) \in Nat /\ DOMAIN s = 1 .. Len(s) /\ DOMAIN r = 1 .. Len(s) + 1
      /\ r[Len(s) + 1] = p /\ \A i \in 1 .. Len(s) : r[i] = s[i]
  OBVIOUS
<1> HIDE DEF r
<1>2. ASSUME NEW i \in DOMAIN s PROVE s[i] \in Members(r)
  <2>1. i \in DOMAIN r /\ r[i] = s[i]
    BY <1>1
  <2> QED
    BY <2>1 DEF Members
<1>3. Len(s) + 1 \in DOMAIN r
  BY <1>1
<1>4. ASSUME NEW i \in DOMAIN r PROVE r[i] \in Members(s) \cup {p}
  BY <1>1 DEF Members
<1>5. Members(s) \subseteq Members(r)
  BY <1>2 DEF Members
<1>6. p \in Members(r)
  BY <1>1, <1>3 DEF Members
<1>7. Members(r) \subseteq Members(s) \cup {p}
  BY <1>4 DEF Members
<1> QED
  BY <1>5, <1>6, <1>7 DEF r

LEMMA JoinHas ==
  ASSUME NEW s \in Seq(Procs), NEW u \in Seq(Procs)
  PROVE  Members(s) \subseteq Members(s \o u)
<1> DEFINE r == s \o u
<1>1. /\ Len(s) \in Nat /\ Len(u) \in Nat /\ DOMAIN s = 1 .. Len(s)
      /\ DOMAIN r = 1 .. Len(s) + Len(u) /\ \A i \in 1 .. Len(s) : r[i] = s[i]
  BY ConcatProperties
<1> HIDE DEF r
<1>2. ASSUME NEW i \in DOMAIN s PROVE s[i] \in Members(r)
  <2>1. i \in DOMAIN r /\ r[i] = s[i]
    BY <1>1
  <2> QED
    BY <2>1 DEF Members
<1>3. Members(s) \subseteq Members(r)
  BY <1>2 DEF Members
<1> QED
  BY <1>3 DEF r

\* One more at the end.
LEMMA AppendOnce ==
  ASSUME NEW s, Orderly(s), NEW p \in Procs, p \notin Members(s)
  PROVE  Orderly(Append(s, p)) /\ Members(Append(s, p)) = Members(s) \cup {p}
<1> DEFINE r == Append(s, p)
<1>1. /\ s \in Seq(Procs) /\ r \in Seq(Procs) /\ Len(s) \in Nat /\ Len(r) = Len(s) + 1
      /\ DOMAIN s = 1 .. Len(s) /\ DOMAIN r = 1 .. Len(s) + 1
      /\ r[Len(s) + 1] = p /\ \A i \in 1 .. Len(s) : r[i] = s[i]
  BY DEF Orderly
<1> HIDE DEF r
<1>2. Members(r) = Members(s) \cup {p}
  <2>1. ASSUME NEW i \in DOMAIN r PROVE r[i] \in Members(s) \cup {p}
    BY <1>1 DEF Members
  <2>2. ASSUME NEW i \in DOMAIN s PROVE s[i] \in Members(r)
    <3>1. i \in DOMAIN r /\ r[i] = s[i]
      BY <1>1
    <3> QED
      BY <3>1 DEF Members
  <2>3. p \in Members(r)
    <3>1. Len(s) + 1 \in DOMAIN r
      BY <1>1
    <3> QED
      BY <1>1, <3>1 DEF Members
  <2>4. Members(r) \subseteq Members(s) \cup {p}
    BY <2>1 DEF Members
  <2>5. Members(s) \subseteq Members(r)
    BY <2>2 DEF Members
  <2> QED
    BY <2>3, <2>4, <2>5
<1>3. ASSUME NEW i \in DOMAIN r, NEW j \in DOMAIN r, r[i] = r[j] PROVE i = j
  <2>1. \A k \in 1 .. Len(s) : s[k] # p
    BY <1>1 DEF Members
  <2>2. \A k, m \in 1 .. Len(s) : s[k] = s[m] => k = m
    BY <1>1 DEF Orderly, Once
  <2> QED
    BY <1>1, <1>3, <2>1, <2>2
<1>4. Once(r)
  BY <1>3 DEF Once
<1> QED
  BY <1>1, <1>2, <1>4 DEF r, Orderly

\* Two lists, one behind the other.
LEMMA JoinOnce ==
  ASSUME NEW s, Orderly(s), NEW u, Orderly(u), Members(s) \cap Members(u) = {}
  PROVE  Orderly(s \o u) /\ Members(s \o u) = Members(s) \cup Members(u)
<1> DEFINE r == s \o u
<1>1. /\ s \in Seq(Procs) /\ u \in Seq(Procs) /\ r \in Seq(Procs)
      /\ Len(s) \in Nat /\ Len(u) \in Nat /\ Len(r) = Len(s) + Len(u)
      /\ DOMAIN s = 1 .. Len(s) /\ DOMAIN u = 1 .. Len(u)
      /\ DOMAIN r = 1 .. Len(s) + Len(u)
      /\ \A i \in 1 .. Len(s) + Len(u) : r[i] = IF i <= Len(s) THEN s[i] ELSE u[i - Len(s)]
  BY ConcatProperties DEF Orderly
<1> HIDE DEF r
<1>2. ASSUME NEW i \in DOMAIN r
      PROVE  /\ i <= Len(s) => i \in DOMAIN s /\ r[i] = s[i] /\ r[i] \in Members(s)
             /\ i > Len(s) => i - Len(s) \in DOMAIN u /\ r[i] = u[i - Len(s)]
                              /\ r[i] \in Members(u)
  <2>1. CASE i <= Len(s)
    BY <1>1, <2>1 DEF Members
  <2>2. CASE i > Len(s)
    <3>1. i - Len(s) \in DOMAIN u /\ r[i] = u[i - Len(s)]
      BY <1>1, <2>2
    <3> QED
      BY <1>1, <2>2, <3>1 DEF Members
  <2> QED
    BY <1>1, <2>1, <2>2
<1>3. Members(r) = Members(s) \cup Members(u)
  <2>1. Members(r) \subseteq Members(s) \cup Members(u)
    <3>1. \A i \in DOMAIN r : r[i] \in Members(s) \cup Members(u)
      BY <1>1, <1>2
    <3> QED
      BY <3>1 DEF Members
  <2>2. ASSUME NEW i \in DOMAIN s PROVE s[i] \in Members(r)
    <3>1. i \in DOMAIN r /\ r[i] = s[i]
      BY <1>1
    <3> QED
      BY <3>1 DEF Members
  <2>3. ASSUME NEW i \in DOMAIN u PROVE u[i] \in Members(r)
    <3>1. i + Len(s) \in DOMAIN r /\ r[i + Len(s)] = u[i]
      BY <1>1
    <3> QED
      BY <3>1 DEF Members
  <2>4. Members(s) \subseteq Members(r) /\ Members(u) \subseteq Members(r)
    BY <2>2, <2>3 DEF Members
  <2> QED
    BY <2>1, <2>4
<1>4. ASSUME NEW i \in DOMAIN r, NEW j \in DOMAIN r, r[i] = r[j] PROVE i = j
  <2>1. \A k, m \in DOMAIN s : s[k] = s[m] => k = m
    BY DEF Orderly, Once
  <2>2. \A k, m \in DOMAIN u : u[k] = u[m] => k = m
    BY DEF Orderly, Once
  <2>3. CASE i <= Len(s) /\ j <= Len(s)
    BY <1>2, <1>4, <2>1, <2>3
  <2>4. CASE i > Len(s) /\ j > Len(s)
    <3>1. i - Len(s) = j - Len(s)
      BY <1>2, <1>4, <2>2, <2>4
    <3> QED
      BY <1>1, <3>1
  <2>5. CASE (i <= Len(s) /\ j > Len(s)) \/ (i > Len(s) /\ j <= Len(s))
    BY <1>2, <1>4, <2>5
  <2>6. i \in Int /\ j \in Int /\ Len(s) \in Int
    BY <1>1
  <2>7. /\ i <= Len(s) \/ i > Len(s)
        /\ j <= Len(s) \/ j > Len(s)
    BY <2>6
  <2> QED
    BY <2>3, <2>4, <2>5, <2>7
<1>5. Once(r)
  BY <1>4 DEF Once
<1> QED
  BY <1>1, <1>3, <1>5 DEF r, Orderly

\* A list without its first.
LEMMA TailOnce ==
  ASSUME NEW s, Orderly(s), s # <<>>
  PROVE  /\ Orderly(Tail(s)) /\ Head(s) \in Members(s)
         /\ Members(Tail(s)) = Members(s) \ {Head(s)}
<1> DEFINE r == Tail(s)
<1>1. /\ s \in Seq(Procs) /\ r \in Seq(Procs) /\ Len(s) \in Nat \ {0}
      /\ DOMAIN s = 1 .. Len(s) /\ DOMAIN r = 1 .. Len(s) - 1
      /\ \A i \in 1 .. Len(s) - 1 : r[i] = s[i + 1]
      /\ Head(s) = s[1]
  BY DEF Orderly
<1> HIDE DEF r
<1>2. \A i, j \in 1 .. Len(s) : s[i] = s[j] => i = j
  BY <1>1 DEF Orderly, Once
<1>3. \A i \in 1 .. Len(s) - 1 : i + 1 \in 1 .. Len(s) /\ i + 1 # 1
  BY <1>1
<1>4. Once(r)
  <2>1. \A i, j \in 1 .. Len(s) - 1 : r[i] = r[j] => i + 1 = j + 1
    BY <1>1, <1>2, <1>3
  <2>2. \A i, j \in 1 .. Len(s) - 1 : i + 1 = j + 1 => i = j
    BY <1>1
  <2> QED
    BY <1>1, <2>1, <2>2 DEF Once
<1>5. 1 \in DOMAIN s
  BY <1>1
<1>6. Members(r) = Members(s) \ {s[1]}
  <2>1. ASSUME NEW i \in DOMAIN r PROVE r[i] \in Members(s) \ {s[1]}
    <3>1. i + 1 \in DOMAIN s /\ r[i] = s[i + 1] /\ i + 1 # 1
      BY <1>1
    <3> QED
      BY <1>1, <1>2, <1>5, <3>1 DEF Members
  <2>2. ASSUME NEW i \in DOMAIN s, s[i] # s[1] PROVE s[i] \in Members(r)
    <3>1. i - 1 \in DOMAIN r /\ r[i - 1] = s[i]
      BY <1>1, <2>2
    <3> QED
      BY <3>1 DEF Members
  <2>3. Members(r) \subseteq Members(s) \ {s[1]}
    BY <2>1 DEF Members
  <2>4. Members(s) \ {s[1]} \subseteq Members(r)
    BY <2>2 DEF Members
  <2> QED
    BY <2>3, <2>4
<1> QED
  BY <1>1, <1>4, <1>5, <1>6 DEF r, Orderly, Members

-----------------------------------------------------------------------------
(* Only.                                                                   *)
LEMMA OnlySame ==
  ASSUME NEW s, NEW S
  PROVE  Slot!Only(s, S) = Only(s, S)
BY Zenon DEF Slot!Only, Only

Sifts(g, s, S) ==
    g = [k \in 0 .. Len(s) |->
            IF k = 0 THEN <<>>
            ELSE IF s[k] \in S THEN Append(g[k - 1], s[k]) ELSE g[k - 1]]

Steps(g, b, s, n) ==
    g = [i \in 0 .. n |-> IF i = 0 THEN b ELSE s[<<i, g[i - 1]>>]]

LEMMA StepsExist ==
  ASSUME NEW X, NEW b \in X, NEW s \in [Nat \X X -> X], NEW n \in Nat
  PROVE  \E g \in [0 .. n -> X] : Steps(g, b, s, n)
<1> DEFINE T == {k \in Nat : \E g \in [0 .. k -> X] : Steps(g, b, s, k)}
<1>1. 0 \in T
  <2> DEFINE g == [i \in 0 .. 0 |-> b]
  <2>1. g \in [0 .. 0 -> X] /\ Steps(g, b, s, 0)
    BY DEF Steps
  <2> QED
    BY <2>1
<1>2. ASSUME NEW k \in Nat, k \in T PROVE k + 1 \in T
  <2>1. PICK g \in [0 .. k -> X] : Steps(g, b, s, k)
    BY <1>2
  <2> DEFINE h == [i \in 0 .. k + 1 |-> IF i \in 0 .. k THEN g[i] ELSE s[<<i, g[k]>>]]
  <2>2. h \in [0 .. k + 1 -> X]
    <3>1. g[k] \in X
      BY <2>1
    <3>2. \A i \in 0 .. k + 1 : s[<<i, g[k]>>] \in X
      BY <3>1
    <3> QED
      BY <2>1, <3>2
  <2>3. ASSUME NEW i \in 0 .. k + 1
        PROVE  h[i] = IF i = 0 THEN b ELSE s[<<i, h[i - 1]>>]
    <3>1. CASE i = 0
      BY <2>1, <3>1 DEF Steps
    <3>2. CASE i \in 1 .. k
      <4>1. i \in 0 .. k /\ i - 1 \in 0 .. k /\ i # 0 /\ i - 1 \in 0 .. k + 1
        BY <3>2
      <4>2. g[i] = s[<<i, g[i - 1]>>]
        BY <2>1, <4>1 DEF Steps
      <4>3. h[i] = g[i] /\ h[i - 1] = g[i - 1]
        BY <4>1
      <4> QED
        BY <4>1, <4>2, <4>3
    <3>3. CASE i = k + 1
      <4>1. h[i] = s[<<i, g[k]>>] /\ h[i - 1] = g[k] /\ i # 0
        BY <3>3
      <4> QED
        BY <4>1
    <3> QED
      BY <3>1, <3>2, <3>3
  <2>4. Steps(h, b, s, k + 1)
    <3>1. h = [i \in 0 .. k + 1 |-> h[i]]
      BY <2>2
    <3> HIDE DEF h
    <3>2. [i \in 0 .. k + 1 |-> h[i]]
          = [i \in 0 .. k + 1 |-> IF i = 0 THEN b ELSE s[<<i, h[i - 1]>>]]
      BY <2>3, Zenon
    <3> QED
      BY <3>1, <3>2 DEF Steps
  <2> HIDE DEF h
  <2>5. k + 1 \in Nat /\ \E f \in [0 .. k + 1 -> X] : Steps(f, b, s, k + 1)
    BY <2>2, <2>4
  <2> QED
    BY <2>5
<1>3. Nat \subseteq T
  <2> HIDE DEF T
  <2> QED
    BY <1>1, <1>2, SetInduction
<1> QED
  BY <1>3

LEMMA OnlySteps ==
  ASSUME NEW s \in Seq(Procs), NEW S
  PROVE  \E g : Sifts(g, s, S) /\ Only(s, S) = g[Len(s)]
<1> DEFINE X == Seq(Procs)
           P(i) == i \in 1 .. Len(s) /\ s[i] \in S
           f == [w \in Nat \X X |-> IF P(w[1]) THEN Append(w[2], s[w[1]]) ELSE w[2]]
<1>1. f \in [Nat \X X -> X] /\ <<>> \in X /\ Len(s) \in Nat
  OBVIOUS
<1>2. PICK g \in [0 .. Len(s) -> X] : Steps(g, <<>>, f, Len(s))
  <2> HIDE DEF f, X
  <2> QED
    BY <1>1, StepsExist
<1>3. ASSUME NEW i \in 0 .. Len(s)
      PROVE  g[i] = IF i = 0 THEN <<>>
                    ELSE IF s[i] \in S THEN Append(g[i - 1], s[i]) ELSE g[i - 1]
  <2>1. g[i] = IF i = 0 THEN <<>> ELSE f[<<i, g[i - 1]>>]
    BY <1>2 DEF Steps
  <2>2. CASE i # 0
    <3>1. i - 1 \in 0 .. Len(s) /\ i \in Nat /\ i \in 1 .. Len(s)
      BY <1>1, <2>2
    <3>2. <<i, g[i - 1]>> \in Nat \X X
      BY <3>1
    <3> QED
      BY <2>1, <2>2, <3>1, <3>2
  <2> QED
    BY <2>1, <2>2
<1>4. Sifts(g, s, S)
  <2>1. g = [i \in 0 .. Len(s) |-> g[i]]
    OBVIOUS
  <2>2. [i \in 0 .. Len(s) |-> g[i]]
        = [i \in 0 .. Len(s) |->
             IF i = 0 THEN <<>>
             ELSE IF s[i] \in S THEN Append(g[i - 1], s[i]) ELSE g[i - 1]]
    BY <1>3, Zenon
  <2> QED
    BY <2>1, <2>2 DEF Sifts
<1> DEFINE h == CHOOSE k : Sifts(k, s, S)
<1>5. Sifts(h, s, S)
  BY <1>4
<1>6. Only(s, S) = h[Len(s)]
  BY Zenon DEF Only, Sifts
<1> QED
  BY <1>5, <1>6

\* The entries in S are left.
LEMMA OnlyIs ==
  ASSUME NEW s, Orderly(s), NEW S
  PROVE  Orderly(Only(s, S)) /\ Members(Only(s, S)) = Members(s) \cap S
<1> DEFINE Upto(k) == {s[i] : i \in 1 .. k} \cap S
<1>1. PICK g : Sifts(g, s, S) /\ Only(s, S) = g[Len(s)]
  BY OnlySteps DEF Orderly
<1> DEFINE T == {k \in Nat : k <= Len(s) => Orderly(g[k]) /\ Members(g[k]) = Upto(k)}
<1>2. Len(s) \in Nat /\ DOMAIN s = 1 .. Len(s) /\ s \in Seq(Procs)
  BY DEF Orderly
<1>3. 0 \in T
  <2>1. g[0] = <<>>
    BY <1>1, <1>2 DEF Sifts
  <2>2. Upto(0) = {}
    OBVIOUS
  <2> QED
    BY <2>1, <2>2, NothingOnce
<1>4. ASSUME NEW k \in Nat, k \in T PROVE k + 1 \in T
  <2> SUFFICES ASSUME k + 1 <= Len(s)
               PROVE  Orderly(g[k + 1]) /\ Members(g[k + 1]) = Upto(k + 1)
    OBVIOUS
  <2>1. Orderly(g[k]) /\ Members(g[k]) = Upto(k)
    BY <1>2, <1>4
  <2>2. g[k + 1] = IF s[k + 1] \in S THEN Append(g[k], s[k + 1]) ELSE g[k]
    <3>1. k + 1 \in 0 .. Len(s) /\ k + 1 # 0 /\ (k + 1) - 1 = k
      BY <1>2
    <3> QED
      BY <1>1, <3>1 DEF Sifts
  <2>3. s[k + 1] \in Procs
    BY <1>2
  <2>4. s[k + 1] \notin Upto(k)
    <3>1. \A i \in 1 .. k : i \in 1 .. Len(s) /\ k + 1 \in 1 .. Len(s) /\ i # k + 1
      BY <1>2
    <3> QED
      BY <1>2, <3>1 DEF Orderly, Once
  <2>5. Upto(k + 1) = Upto(k) \cup ({s[k + 1]} \cap S)
    <3>1. 1 .. k + 1 = (1 .. k) \cup {k + 1}
      OBVIOUS
    <3> QED
      BY <3>1, Zenon
  <2> HIDE DEF Upto
  <2>6. CASE s[k + 1] \in S
    <3>1. Orderly(g[k]) /\ s[k + 1] \notin Members(g[k])
      BY <2>1, <2>4
    <3>2. /\ Orderly(Append(g[k], s[k + 1]))
          /\ Members(Append(g[k], s[k + 1])) = Members(g[k]) \cup {s[k + 1]}
      BY <2>3, <3>1, AppendOnce
    <3>3. {s[k + 1]} \cap S = {s[k + 1]}
      BY <2>6
    <3> QED
      BY <2>1, <2>2, <2>5, <2>6, <3>2, <3>3
  <2>7. CASE s[k + 1] \notin S
    BY <2>1, <2>2, <2>5, <2>7
  <2> QED
    BY <2>6, <2>7
<1>5. Nat \subseteq T
  <2> HIDE DEF T
  <2> QED
    BY <1>3, <1>4, SetInduction
<1>6. Orderly(g[Len(s)]) /\ Members(g[Len(s)]) = Upto(Len(s))
  BY <1>2, <1>5
<1>7. Upto(Len(s)) = Members(s) \cap S
  BY <1>2 DEF Members
<1> QED
  BY <1>1, <1>6, <1>7

-----------------------------------------------------------------------------
(***************************************************************************)
(* The regions that are still to come.                                     *)
(***************************************************************************)
Stages == {"active", "waitsPre", "inactive", "preNba", "commit", "edges", "waiters", "run",
           "cascade", "cascadeWaits", "cascadeCommit", "cascadeTest", "mark", "clocking",
           "clockingRun", "clockingEnd", "reactive", "hops", "postponed", "waitsEnd",
           "waitsRepass", "waitRound", "waitRun", "waitTest", "late", "promote", "loop",
           "spinner"}

\* B is the set of the stages to come: among them the end of a round of the cascade ...
InCascade(B) == "cascade" \in B \/ "cascadeCommit" \in B \/ "cascadeTest" \in B

\* ... one that looks at the waits ...
WaitsLater(B) == "waitsEnd" \in B \/ "waitsRepass" \in B

\* ... all the regions after the NBA region ...
Drains(B) == /\ "reactive" \in B /\ "hops" \in B /\ "late" \in B
             /\ "clocking" \in B \/ "clockingEnd" \in B
             /\ WaitsLater(B)

\* ... or the slot is past the point from which on it notes that it moved.
IsLate(B) == "late" \in B /\ "mark" \notin B /\ "commit" \notin B

InWait == {"waitRound", "waitRun", "waitTest"}

\* What there is below stage s.
Fits(s, B, mode) ==
    /\ s \in {"active", "waitsPre", "inactive", "commit"} =>
          Drains(B) /\ "cascade" \in B /\ "mark" \in B
    /\ s \in {"edges", "waiters", "preNba"} => Drains(B) /\ InCascade(B)
    /\ s \in {"cascade", "cascadeWaits", "cascadeCommit", "cascadeTest"} =>
          Drains(B) /\ "commit" \notin B
    /\ s = "cascadeWaits" => "cascadeCommit" \in B
    /\ s = "run" =>
          \/ Drains(B) /\ InCascade(B)
          \/ IsLate(B) /\ WaitsLater(B) /\ ("clockingRun" \in B => "hops" \in B)
    /\ s = "mark" => /\ Drains(B) /\ ~InCascade(B) /\ "mark" \notin B
                     /\ "clockingRun" \notin B /\ "clockingEnd" \notin B
    /\ s \in {"clocking", "clockingRun", "clockingEnd"} =>
          /\ IsLate(B) /\ "reactive" \in B /\ "hops" \in B /\ WaitsLater(B)
          /\ "clockingEnd" \notin B
    /\ s = "reactive" => IsLate(B) /\ "hops" \in B /\ WaitsLater(B)
    /\ s = "hops" => IsLate(B) /\ WaitsLater(B) /\ "clockingRun" \notin B
    /\ s = "postponed" => IsLate(B) /\ "waitsEnd" \in B
    /\ s \in {"waitsEnd", "waitsRepass"} => IsLate(B)
    /\ s \in InWait => IF mode \in {"pre", "cascade"} THEN Drains(B) /\ InCascade(B)
                                                     ELSE IsLate(B)
    /\ "waitRound" \notin B /\ "waitRun" \notin B
    /\ "waitTest" \in B <=> s = "waitRun"
    /\ s = "late" => B = {"promote", "loop"}
    /\ s = "promote" => B = {"loop"}
    /\ s \in {"loop", "spinner"} => B = {}
    /\ s \notin {"promote", "loop", "spinner"} => "promote" \in B
    /\ s \notin {"loop", "spinner"} => "loop" \in B

\* What may be right below stage s.
Adj(s, n, B) ==
    /\ n \notin {"run", "waitRound", "waitsPre", "waitRun"}
    /\ n = "inactive" => s \in {"waitsPre", "waitRound", "waitTest"}
    /\ n = "waitTest" <=> s = "waitRun"
    /\ n = "preNba" => s \in {"active", "inactive", "run"}
    /\ s = "preNba" => n = "commit" \/ "commit" \notin B

\* Of a stack of stages.
Under(st, i) == {st[j] : j \in i + 1 .. Len(st)}

ShapeOf(st, mode) ==
    /\ \A i \in DOMAIN st : Fits(st[i], Under(st, i), mode)
    /\ \A i \in 1 .. Len(st) - 1 : Adj(st[i], st[i + 1], Under(st, i))

Top   == Head(stack)
Below == Members(Tail(stack))
Has(st) == st \in Members(stack)

\* Who runs and what there is to do when a stage is the next.
Tops ==
    /\ running # 0 => stack # <<>> /\ Top \in {"run", "waitRun", "active"}
    /\ batch # <<>> => stack # <<>> /\ Top = "run"
    /\ stack # <<>> =>
          /\ Top \in {"waitsPre", "inactive", "waitTest"} => pass.defer \/ queue[time] = <<>>
          /\ Top = "waitRound" /\ stack[2] = "inactive" => pass.defer \/ queue[time] = <<>>
          /\ Top = "preNba" /\ "commit" \in Below =>
                pass.defer \/ (queue[time] = <<>> /\ lists["inactive"] = <<>>)
          /\ Top = "run" /\ stack[2] = "preNba" /\ "commit" \in Below => pass.defer
          /\ Top = "run" => \/ Drains(Below) /\ InCascade(Below)
                            \/ "clockingRun" \in Below \/ pass.moved
          /\ Top = "waitRun" /\ running # 0 => pass.moved
          /\ "clockingEnd" \in Below => pass.wrote

\* The late regions run again.
Again == pass.moved /\ Has("late") /\ ~Has("mark")

\* Nothing was noted for the waits that are parked and gated, and the others were looked
\* at by a re-pass of this time.
Seen == \A p \in Members(lists["conds"]) :
            IF wait[p].on = "prop" THEN ~pass.noted ELSE p \in pass.rechecked

\* Whatever waits for a region of this slot has one to come that takes it.
Owed ==
    /\ PendingData =>
          InCascade(Members(stack)) \/ Has("clockingRun") \/ Has("clockingEnd") \/ Again
    /\ lists["reactive"] # <<>> => Has("reactive") \/ Again
    /\ lists["clocking"] # <<>> =>
          \/ Has("clocking") \/ Has("clockingRun") \/ Again
          \/ Has("clockingEnd") /\ pass.wrote
    /\ lists["ready"] # <<>> =>
          WaitsLater(Members(stack)) \/ Has("waitRound") \/ Has("waitTest")
    /\ lists["hops"] # <<>> =>
          Has("hops") \/ Again \/ queue[time] # <<>> \/ lists["inactive"] # <<>>
    /\ Seen \/ WaitsLater(Members(stack)) \/ Has("waitRound") \/ Again
    /\ lists["inactive"] # <<>> => Has("promote")

\* That is so unless a process was put off.
Due == pass.defer \/ Owed

SlotInv ==
    /\ stack \in Seq(Stages)
    /\ ShapeOf(stack, pass.mode)
    /\ Tops
    /\ stack # <<>> /\ Top # "spinner" => Due

\* The other lists are what they were.
SameBut(ls, S) ==
    /\ "inactive" \in S \/ ls["inactive"] = lists["inactive"]
    /\ "conds"    \in S \/ ls["conds"]    = lists["conds"]
    /\ "ready"    \in S \/ ls["ready"]    = lists["ready"]
    /\ "events"   \in S \/ ls["events"]   = lists["events"]
    /\ "clocking" \in S \/ ls["clocking"] = lists["clocking"]
    /\ "reactive" \in S \/ ls["reactive"] = lists["reactive"]
    /\ "hops"     \in S \/ ls["hops"]     = lists["hops"]
LEMMA Popped ==
  ASSUME NEW q \in Seq(Stages), q # <<>>, NEW mode, ShapeOf(q, mode)
  PROVE  /\ Tail(q) \in Seq(Stages) /\ Head(q) \in Stages
         /\ ShapeOf(Tail(q), mode)
         /\ Members(q) = {Head(q)} \cup Members(Tail(q))
         /\ Members(Tail(q)) \subseteq Stages
         /\ Fits(Head(q), Members(Tail(q)), mode)
         /\ Tail(q) # <<>> =>
               /\ q[2] = Head(Tail(q)) /\ Head(Tail(q)) \in Members(Tail(q))
               /\ Adj(Head(q), Head(Tail(q)), Members(Tail(q)))
         /\ (Tail(q) = <<>>) <=> (Members(Tail(q)) = {})
<1> DEFINE r == Tail(q)
<1>1. /\ r \in Seq(Stages) /\ Head(q) = q[1] /\ q[1] \in Stages
      /\ Len(q) \in Nat \ {0} /\ Len(r) = Len(q) - 1
      /\ DOMAIN q = 1 .. Len(q) /\ DOMAIN r = 1 .. Len(r)
      /\ \A i \in 1 .. Len(r) : r[i] = q[i + 1]
      /\ r = <<>> <=> Len(r) = 0
      /\ r # <<>> => Head(r) = r[1]
  <2>1. /\ r \in Seq(Stages) /\ Head(q) = q[1] /\ q[1] \in Stages
        /\ Len(q) \in Nat \ {0} /\ Len(r) = Len(q) - 1
        /\ DOMAIN q = 1 .. Len(q) /\ \A i \in 1 .. Len(r) : r[i] = q[i + 1]
    OBVIOUS
  <2> HIDE DEF r
  <2> QED
    BY <2>1
<1>0. r = Tail(q)
  OBVIOUS
<1> HIDE DEF r
<1>2. ASSUME NEW i \in 0 .. Len(r) PROVE Under(r, i) = Under(q, i + 1)
  <2>1. ASSUME NEW j \in i + 1 .. Len(r) PROVE r[j] \in Under(q, i + 1)
    <3>1. j + 1 \in (i + 1) + 1 .. Len(q) /\ j \in 1 .. Len(r)
      BY <1>1
    <3> QED
      BY <1>1, <3>1 DEF Under
  <2>2. ASSUME NEW j \in (i + 1) + 1 .. Len(q) PROVE q[j] \in Under(r, i)
    <3>1. j - 1 \in i + 1 .. Len(r) /\ j - 1 \in 1 .. Len(r) /\ (j - 1) + 1 = j
      BY <1>1
    <3> QED
      BY <1>1, <3>1 DEF Under
  <2> QED
    BY <2>1, <2>2 DEF Under
<1>3. Members(r) = Under(r, 0)
  BY <1>1 DEF Members, Under
<1>4. Members(r) = Under(q, 1)
  <2>1. 0 \in 0 .. Len(r) /\ 0 + 1 = 1
    BY <1>1
  <2> QED
    BY <1>2, <1>3, <2>1
<1>5. Members(q) = {q[1]} \cup Under(q, 1)
  <2>1. DOMAIN q = {1} \cup (1 + 1 .. Len(q))
    BY <1>1
  <2> QED
    BY <2>1 DEF Members, Under
<1>6. Fits(q[1], Members(r), mode)
  <2>1. Fits(q[1], Under(q, 1), mode)
    <3>1. 1 \in DOMAIN q
      BY <1>1
    <3> QED
      BY <3>1 DEF ShapeOf
  <2> QED
    BY <1>4, <2>1
<1>7. ASSUME r # <<>>
      PROVE  q[2] = Head(r) /\ Head(r) \in Members(r) /\ Adj(q[1], Head(r), Members(r))
  <2>1. 1 \in 1 .. Len(q) - 1 /\ 1 \in DOMAIN r /\ 1 \in 1 .. Len(r)
    BY <1>1, <1>7
  <2>2. Adj(q[1], q[2], Under(q, 1))
    <3>1. Adj(q[1], q[1 + 1], Under(q, 1))
      BY <2>1 DEF ShapeOf
    <3> QED
      BY <3>1
  <2>3. q[2] = Head(r)
    BY <1>1, <1>7, <2>1
  <2> QED
    BY <1>1, <1>4, <1>7, <2>1, <2>2, <2>3 DEF Members
<1>8. ASSUME NEW i \in DOMAIN r PROVE Fits(r[i], Under(r, i), mode)
  <2>1. i + 1 \in DOMAIN q /\ r[i] = q[i + 1] /\ i \in 0 .. Len(r)
    BY <1>1
  <2>2. Fits(q[i + 1], Under(q, i + 1), mode)
    BY <2>1 DEF ShapeOf
  <2> QED
    BY <1>2, <2>1, <2>2
<1>9. ASSUME NEW i \in 1 .. Len(r) - 1 PROVE Adj(r[i], r[i + 1], Under(r, i))
  <2>1. /\ i + 1 \in 1 .. Len(q) - 1 /\ r[i] = q[i + 1] /\ r[i + 1] = q[(i + 1) + 1]
        /\ i \in 0 .. Len(r)
    BY <1>1
  <2>2. Adj(q[i + 1], q[(i + 1) + 1], Under(q, i + 1))
    BY <2>1 DEF ShapeOf
  <2> QED
    BY <1>2, <2>1, <2>2
<1>10. ShapeOf(r, mode)
  BY <1>8, <1>9 DEF ShapeOf
<1>11. (r = <<>>) <=> (Members(r) = {})
  <2>1. r # <<>> => 1 \in DOMAIN r
    BY <1>1
  <2>2. r = <<>> => DOMAIN r = {}
    BY <1>1
  <2> QED
    BY <2>1, <2>2 DEF Members
<1>12. Members(r) \subseteq Stages
  BY <1>1 DEF Members
<1>13. /\ Members(q) = {Head(q)} \cup Members(r) /\ Fits(Head(q), Members(r), mode)
       /\ r # <<>> => Adj(Head(q), Head(r), Members(r))
  BY <1>1, <1>4, <1>5, <1>6, <1>7
<1> QED
  BY <1>0, <1>1, <1>7, <1>10, <1>11, <1>12, <1>13, Zenon

LEMMA Pushed ==
  ASSUME NEW r \in Seq(Stages), NEW s \in Stages, NEW mode, ShapeOf(r, mode),
         Fits(s, Members(r), mode), r # <<>> => Adj(s, Head(r), Members(r))
  PROVE  /\ <<s>> \o r \in Seq(Stages) /\ <<s>> \o r # <<>>
         /\ Head(<<s>> \o r) = s /\ Tail(<<s>> \o r) = r
         /\ Members(<<s>> \o r) = {s} \cup Members(r)
         /\ ShapeOf(<<s>> \o r, mode)
         /\ r # <<>> => (<<s>> \o r)[2] = Head(r)
<1> DEFINE q == <<s>> \o r
<1>1. /\ q \in Seq(Stages) /\ Len(r) \in Nat /\ Len(q) = Len(r) + 1
      /\ DOMAIN q = 1 .. Len(q) /\ DOMAIN r = 1 .. Len(r)
      /\ q[1] = s /\ \A i \in 1 .. Len(r) : q[i + 1] = r[i]
      /\ r = <<>> <=> Len(r) = 0
      /\ r # <<>> => Head(r) = r[1]
  OBVIOUS
<1>2. Tail(q) = r /\ q # <<>> /\ Head(q) = s
  BY <1>1
<1> HIDE DEF q
<1>3. ASSUME NEW i \in 0 .. Len(r) PROVE Under(r, i) = Under(q, i + 1)
  <2>1. ASSUME NEW j \in i + 1 .. Len(r) PROVE r[j] \in Under(q, i + 1)
    <3>1. j + 1 \in (i + 1) + 1 .. Len(q) /\ j \in 1 .. Len(r)
      BY <1>1
    <3> QED
      BY <1>1, <3>1 DEF Under
  <2>2. ASSUME NEW j \in (i + 1) + 1 .. Len(q) PROVE q[j] \in Under(r, i)
    <3>1. j - 1 \in i + 1 .. Len(r) /\ j - 1 \in 1 .. Len(r) /\ (j - 1) + 1 = j
      BY <1>1
    <3> QED
      BY <1>1, <3>1 DEF Under
  <2> QED
    BY <2>1, <2>2 DEF Under
<1>4. Members(r) = Under(q, 1)
  <2>1. Members(r) = Under(r, 0)
    BY <1>1 DEF Members, Under
  <2>2. 0 \in 0 .. Len(r) /\ 0 + 1 = 1
    BY <1>1
  <2> QED
    BY <1>3, <2>1, <2>2
<1>5. Members(q) = {s} \cup Members(r)
  <2>1. DOMAIN q = {1} \cup (1 + 1 .. Len(q))
    BY <1>1
  <2> QED
    BY <1>1, <1>4, <2>1 DEF Members, Under
<1>6. ASSUME NEW i \in DOMAIN q PROVE Fits(q[i], Under(q, i), mode)
  <2>1. CASE i = 1
    BY <1>1, <1>4, <2>1
  <2>2. CASE i # 1
    <3>1. i - 1 \in DOMAIN r /\ q[i] = r[i - 1] /\ i - 1 \in 0 .. Len(r) /\ (i - 1) + 1 = i
      BY <1>1, <2>2
    <3>2. Fits(r[i - 1], Under(r, i - 1), mode)
      BY <3>1 DEF ShapeOf
    <3> QED
      BY <1>3, <3>1, <3>2
  <2> QED
    BY <2>1, <2>2
<1>7. ASSUME NEW i \in 1 .. Len(q) - 1 PROVE Adj(q[i], q[i + 1], Under(q, i))
  <2>1. CASE i = 1
    <3>1. r # <<>> /\ 1 \in 1 .. Len(r)
      BY <1>1, <2>1
    <3>2. q[i + 1] = Head(r) /\ q[i] = s
      BY <1>1, <2>1, <3>1
    <3> QED
      BY <1>4, <2>1, <3>1, <3>2
  <2>2. CASE i # 1
    <3>1. /\ i - 1 \in 1 .. Len(r) - 1 /\ q[i] = r[i - 1] /\ q[i + 1] = r[(i - 1) + 1]
          /\ i - 1 \in 0 .. Len(r) /\ (i - 1) + 1 = i
      BY <1>1, <2>2
    <3>2. Adj(r[i - 1], r[(i - 1) + 1], Under(r, i - 1))
      BY <3>1 DEF ShapeOf
    <3> QED
      BY <1>3, <3>1, <3>2
  <2> QED
    BY <2>1, <2>2
<1>8. ShapeOf(q, mode)
  BY <1>6, <1>7 DEF ShapeOf
<1>9. r # <<>> => q[2] = Head(r)
  <2>1. r # <<>> => 1 \in 1 .. Len(r) /\ 1 + 1 = 2
    BY <1>1
  <2> QED
    BY <1>1, <2>1
<1> QED
  BY <1>1, <1>2, <1>5, <1>8, <1>9 DEF q

LEMMA NoStage ==
  ASSUME NEW mode
  PROVE  <<>> \in Seq(Stages) /\ ShapeOf(<<>>, mode) /\ Members(<<>>) = {}
BY DEF ShapeOf, Members

\* The mode matters only while the waits are looked at.
LEMMA OtherMode ==
  ASSUME NEW r \in Seq(Stages), NEW m, NEW n, ShapeOf(r, m), InWait \cap Members(r) = {}
  PROVE  ShapeOf(r, n)
<1>1. \A i \in DOMAIN r : r[i] \notin InWait
  BY DEF Members
<1>2. ASSUME NEW i \in DOMAIN r, NEW B, Fits(r[i], B, m) PROVE Fits(r[i], B, n)
  BY <1>1, <1>2 DEF Fits
<1> QED
  BY <1>2 DEF ShapeOf

\* One, two or three stages in the place of the first.
LEMMA Gone ==
  ASSUME NEW r \in Seq(Stages)
  PROVE  <<>> \o r = r
OBVIOUS

LEMMA Pair ==
  ASSUME NEW a \in Stages, NEW b \in Stages
  PROVE  <<a, b>> = <<a>> \o <<b>>
<1> DEFINE u == <<a, b>>
           v == <<a>> \o <<b>>
<1>1. u \in Seq(Stages) /\ Len(u) = 2 /\ u[1] = a /\ u[2] = b
  OBVIOUS
<1>2. v \in Seq(Stages) /\ Len(v) = 2 /\ v[1] = a /\ v[2] = b
  <2>1. /\ <<a>> \in Seq(Stages) /\ <<b>> \in Seq(Stages)
        /\ Len(<<a>>) = 1 /\ Len(<<b>>) = 1
    OBVIOUS
  <2> QED
    BY <2>1, ConcatProperties
<1> HIDE DEF u, v
<1>3. \A i \in 1 .. Len(u) : u[i] = v[i]
  <2>1. \A i \in 1 .. 2 : i = 1 \/ i = 2
    OBVIOUS
  <2> QED
    BY <1>1, <1>2, <2>1
<1>4. u = v
  BY <1>1, <1>2, <1>3, SeqEqual
<1> QED
  BY <1>4 DEF u, v

LEMMA SplitTwo ==
  ASSUME NEW r \in Seq(Stages), NEW a \in Stages, NEW b \in Stages
  PROVE  <<a, b>> \o r = <<a>> \o (<<b>> \o r)
<1>1. <<a>> \in Seq(Stages) /\ <<b>> \in Seq(Stages)
  OBVIOUS
<1>2. <<a, b>> = <<a>> \o <<b>>
  BY Pair
<1>3. (<<a>> \o <<b>>) \o r = <<a>> \o (<<b>> \o r)
  BY <1>1, ConcatAssociative
<1> QED
  BY <1>2, <1>3

LEMMA SplitThree ==
  ASSUME NEW r \in Seq(Stages), NEW a \in Stages, NEW b \in Stages, NEW c \in Stages
  PROVE  <<a, b, c>> \o r = <<a>> \o (<<b>> \o (<<c>> \o r))
<1>1. <<a>> \in Seq(Stages) /\ <<b, c>> \in Seq(Stages)
  OBVIOUS
<1>2. (<<a>> \o <<b, c>>) \o r = <<a>> \o (<<b, c>> \o r)
  BY <1>1, ConcatAssociative
<1>3. <<b, c>> \o r = <<b>> \o (<<c>> \o r)
  BY SplitTwo
<1>4. <<a, b, c>> = <<a>> \o <<b, c>>
  OBVIOUS
<1> QED
  BY <1>2, <1>3, <1>4
\* A new tick has all the regions to come.
LEMMA TickShape ==
  ASSUME NEW m
  PROVE  /\ Slot!Tick \in Seq(Stages) /\ Slot!Tick # <<>> /\ ShapeOf(Slot!Tick, m)
         /\ Head(Slot!Tick) = "active"
         /\ Members(Slot!Tick) = {"active", "preNba", "commit", "edges",
                                         "cascade", "mark", "clocking", "reactive",
                                         "hops", "postponed", "waitsEnd", "late",
                                         "promote", "loop"}
         /\ Members(Tail(Slot!Tick)) = {"preNba", "commit", "edges", "cascade",
                                               "mark", "clocking", "reactive", "hops",
                                               "postponed", "waitsEnd", "late",
                                               "promote", "loop"}
<1>1. /\ DOMAIN Slot!Tick = 1 .. 14 /\ Len(Slot!Tick) = 14
      /\ Slot!Tick \in Seq(Stages) /\ Slot!Tick # <<>> /\ Head(Slot!Tick) = "active"
  BY DEF Slot!Tick, Stages
<1>2. /\ Slot!Tick[1] = "active"
      /\ Under(Slot!Tick, 1) = {"preNba", "commit", "edges", "cascade", "mark",
                                   "clocking", "reactive", "hops", "postponed",
                                   "waitsEnd", "late", "promote", "loop"}
  BY DEF Slot!Tick, Under
<1>3. /\ Slot!Tick[2] = "preNba"
      /\ Under(Slot!Tick, 2) = {"commit", "edges", "cascade", "mark", "clocking",
                                   "reactive", "hops", "postponed", "waitsEnd",
                                   "late", "promote", "loop"}
  BY DEF Slot!Tick, Under
<1>4. /\ Slot!Tick[3] = "commit"
      /\ Under(Slot!Tick, 3) = {"edges", "cascade", "mark", "clocking", "reactive",
                                   "hops", "postponed", "waitsEnd", "late", "promote",
                                   "loop"}
  BY DEF Slot!Tick, Under
<1>5. /\ Slot!Tick[4] = "edges"
      /\ Under(Slot!Tick, 4) = {"cascade", "mark", "clocking", "reactive", "hops",
                                   "postponed", "waitsEnd", "late", "promote", "loop"}
  BY DEF Slot!Tick, Under
<1>6. /\ Slot!Tick[5] = "cascade"
      /\ Under(Slot!Tick, 5) = {"mark", "clocking", "reactive", "hops",
                                   "postponed", "waitsEnd", "late", "promote", "loop"}
  BY DEF Slot!Tick, Under
<1>7. /\ Slot!Tick[6] = "mark"
      /\ Under(Slot!Tick, 6) = {"clocking", "reactive", "hops", "postponed",
                                   "waitsEnd", "late", "promote", "loop"}
  BY DEF Slot!Tick, Under
<1>8. /\ Slot!Tick[7] = "clocking"
      /\ Under(Slot!Tick, 7) = {"reactive", "hops", "postponed", "waitsEnd",
                                   "late", "promote", "loop"}
  BY DEF Slot!Tick, Under
<1>9. /\ Slot!Tick[8] = "reactive"
      /\ Under(Slot!Tick, 8) = {"hops", "postponed", "waitsEnd", "late", "promote",
                                   "loop"}
  BY DEF Slot!Tick, Under
<1>10. /\ Slot!Tick[9] = "hops"
      /\ Under(Slot!Tick, 9) = {"postponed", "waitsEnd", "late", "promote", "loop"}
  BY DEF Slot!Tick, Under
<1>11. /\ Slot!Tick[10] = "postponed"
      /\ Under(Slot!Tick, 10) = {"waitsEnd", "late", "promote", "loop"}
  BY DEF Slot!Tick, Under
<1>12. /\ Slot!Tick[11] = "waitsEnd"
      /\ Under(Slot!Tick, 11) = {"late", "promote", "loop"}
  BY DEF Slot!Tick, Under
<1>13. /\ Slot!Tick[12] = "late"
      /\ Under(Slot!Tick, 12) = {"promote", "loop"}
  BY DEF Slot!Tick, Under
<1>14. /\ Slot!Tick[13] = "promote"
      /\ Under(Slot!Tick, 13) = {"loop"}
  BY DEF Slot!Tick, Under
<1>15. /\ Slot!Tick[14] = "loop"
      /\ Under(Slot!Tick, 14) = {}
  BY DEF Slot!Tick, Under
<1>16. Fits(Slot!Tick[1], Under(Slot!Tick, 1), m)
  BY <1>2 DEF Fits, Drains, WaitsLater, IsLate, InCascade, InWait
<1>17. Fits(Slot!Tick[2], Under(Slot!Tick, 2), m)
  BY <1>3 DEF Fits, Drains, WaitsLater, IsLate, InCascade, InWait
<1>18. Fits(Slot!Tick[3], Under(Slot!Tick, 3), m)
  BY <1>4 DEF Fits, Drains, WaitsLater, IsLate, InCascade, InWait
<1>19. Fits(Slot!Tick[4], Under(Slot!Tick, 4), m)
  BY <1>5 DEF Fits, Drains, WaitsLater, IsLate, InCascade, InWait
<1>20. Fits(Slot!Tick[5], Under(Slot!Tick, 5), m)
  BY <1>6 DEF Fits, Drains, WaitsLater, IsLate, InCascade, InWait
<1>21. Fits(Slot!Tick[6], Under(Slot!Tick, 6), m)
  BY <1>7 DEF Fits, Drains, WaitsLater, IsLate, InCascade, InWait
<1>22. Fits(Slot!Tick[7], Under(Slot!Tick, 7), m)
  BY <1>8 DEF Fits, Drains, WaitsLater, IsLate, InCascade, InWait
<1>23. Fits(Slot!Tick[8], Under(Slot!Tick, 8), m)
  BY <1>9 DEF Fits, Drains, WaitsLater, IsLate, InCascade, InWait
<1>24. Fits(Slot!Tick[9], Under(Slot!Tick, 9), m)
  BY <1>10 DEF Fits, Drains, WaitsLater, IsLate, InCascade, InWait
<1>25. Fits(Slot!Tick[10], Under(Slot!Tick, 10), m)
  BY <1>11 DEF Fits, Drains, WaitsLater, IsLate, InCascade, InWait
<1>26. Fits(Slot!Tick[11], Under(Slot!Tick, 11), m)
  BY <1>12 DEF Fits, Drains, WaitsLater, IsLate, InCascade, InWait
<1>27. Fits(Slot!Tick[12], Under(Slot!Tick, 12), m)
  BY <1>13 DEF Fits, Drains, WaitsLater, IsLate, InCascade, InWait
<1>28. Fits(Slot!Tick[13], Under(Slot!Tick, 13), m)
  BY <1>14 DEF Fits, Drains, WaitsLater, IsLate, InCascade, InWait
<1>29. Fits(Slot!Tick[14], Under(Slot!Tick, 14), m)
  BY <1>15 DEF Fits, Drains, WaitsLater, IsLate, InCascade, InWait
<1>30. Adj(Slot!Tick[1], Slot!Tick[1 + 1], Under(Slot!Tick, 1))
  BY <1>2, <1>3 DEF Adj
<1>31. Adj(Slot!Tick[2], Slot!Tick[2 + 1], Under(Slot!Tick, 2))
  BY <1>3, <1>4 DEF Adj
<1>32. Adj(Slot!Tick[3], Slot!Tick[3 + 1], Under(Slot!Tick, 3))
  BY <1>4, <1>5 DEF Adj
<1>33. Adj(Slot!Tick[4], Slot!Tick[4 + 1], Under(Slot!Tick, 4))
  BY <1>5, <1>6 DEF Adj
<1>34. Adj(Slot!Tick[5], Slot!Tick[5 + 1], Under(Slot!Tick, 5))
  BY <1>6, <1>7 DEF Adj
<1>35. Adj(Slot!Tick[6], Slot!Tick[6 + 1], Under(Slot!Tick, 6))
  BY <1>7, <1>8 DEF Adj
<1>36. Adj(Slot!Tick[7], Slot!Tick[7 + 1], Under(Slot!Tick, 7))
  BY <1>8, <1>9 DEF Adj
<1>37. Adj(Slot!Tick[8], Slot!Tick[8 + 1], Under(Slot!Tick, 8))
  BY <1>9, <1>10 DEF Adj
<1>38. Adj(Slot!Tick[9], Slot!Tick[9 + 1], Under(Slot!Tick, 9))
  BY <1>10, <1>11 DEF Adj
<1>39. Adj(Slot!Tick[10], Slot!Tick[10 + 1], Under(Slot!Tick, 10))
  BY <1>11, <1>12 DEF Adj
<1>40. Adj(Slot!Tick[11], Slot!Tick[11 + 1], Under(Slot!Tick, 11))
  BY <1>12, <1>13 DEF Adj
<1>41. Adj(Slot!Tick[12], Slot!Tick[12 + 1], Under(Slot!Tick, 12))
  BY <1>13, <1>14 DEF Adj
<1>42. Adj(Slot!Tick[13], Slot!Tick[13 + 1], Under(Slot!Tick, 13))
  BY <1>14, <1>15 DEF Adj
<1>43. \A i \in 1 .. 14 : \/ i = 1 \/ i = 2 \/ i = 3 \/ i = 4 \/ i = 5 \/ i = 6 \/ i = 7
                         \/ i = 8 \/ i = 9 \/ i = 10 \/ i = 11 \/ i = 12 \/ i = 13 \/ i = 14
  OBVIOUS
<1>44. \A i \in 1 .. 13 : \/ i = 1 \/ i = 2 \/ i = 3 \/ i = 4 \/ i = 5 \/ i = 6 \/ i = 7
                         \/ i = 8 \/ i = 9 \/ i = 10 \/ i = 11 \/ i = 12 \/ i = 13
  OBVIOUS
<1>45. \A i \in 1 .. 14 : Fits(Slot!Tick[i], Under(Slot!Tick, i), m)
  BY <1>16, <1>17, <1>18, <1>19, <1>20, <1>21, <1>22, <1>23, <1>24, <1>25,
     <1>26, <1>27, <1>28, <1>29, <1>43
<1>46. \A i \in 1 .. 13 : Adj(Slot!Tick[i], Slot!Tick[i + 1], Under(Slot!Tick, i))
  BY <1>30, <1>31, <1>32, <1>33, <1>34, <1>35, <1>36, <1>37, <1>38, <1>39,
     <1>40, <1>41, <1>42, <1>44
<1>47. ShapeOf(Slot!Tick, m)
  BY <1>1, <1>45, <1>46 DEF ShapeOf
<1>48. Members(Slot!Tick) = {"active", "preNba", "commit", "edges", "cascade", "mark",
                            "clocking", "reactive", "hops", "postponed", "waitsEnd",
                            "late", "promote", "loop"}
  BY DEF Members, Slot!Tick
<1>49. Members(Tail(Slot!Tick)) = {"preNba", "commit", "edges", "cascade", "mark",
                                  "clocking", "reactive", "hops", "postponed",
                                  "waitsEnd", "late", "promote", "loop"}
  BY DEF Members, Slot!Tick
<1> QED
  BY <1>1, <1>47, <1>48, <1>49

\* A late pass comes before what is left of the tick.
LEMMA LateShape ==
  ASSUME NEW m, NEW r \in Seq(Stages), r # <<>>, ShapeOf(r, m),
         Members(r) = {"promote", "loop"}, Head(r) \in Members(r)
  PROVE  /\ Slot!LatePass \o r \in Seq(Stages) /\ Slot!LatePass \o r # <<>>
         /\ ShapeOf(Slot!LatePass \o r, m)
         /\ Head(Slot!LatePass \o r) = "edges"
         /\ Members(Slot!LatePass \o r) = {"edges", "cascade", "clocking", "reactive",
                                           "hops", "waitsRepass", "late", "promote",
                                           "loop"}
         /\ Members(Tail(Slot!LatePass \o r)) = {"cascade", "clocking", "reactive",
                                                 "hops", "waitsRepass", "late",
                                                 "promote", "loop"}
<1> USE DEF Stages
<1> DEFINE r7 == <<"late">> \o r
           r6 == <<"waitsRepass">> \o r7
           r5 == <<"hops">> \o r6
           r4 == <<"reactive">> \o r5
           r3 == <<"clocking">> \o r4
           r2 == <<"cascade">> \o r3
           r1 == <<"edges">> \o r2
<1>1. /\ r7 \in Seq(Stages) /\ r7 # <<>> /\ Head(r7) = "late" /\ Tail(r7) = r
      /\ ShapeOf(r7, m)
      /\ Members(r7) = {"late", "promote", "loop"}
  <2>1. Fits("late", Members(r), m) /\ Adj("late", Head(r), Members(r))
    BY DEF Fits, Adj, Drains, WaitsLater, IsLate, InCascade, InWait
  <2> HIDE DEF Stages
  <2>2. /\ "late" \in Stages /\ r \in Seq(Stages) /\ ShapeOf(r, m)
    BY DEF Stages
  <2>3. /\ r7 \in Seq(Stages) /\ r7 # <<>> /\ Head(r7) = "late" /\ Tail(r7) = r
        /\ ShapeOf(r7, m) /\ Members(r7) = {"late"} \cup Members(r)
    BY <2>1, <2>2, Pushed
  <2> HIDE DEF r7
  <2> QED
    BY <2>3
<1>2. /\ r6 \in Seq(Stages) /\ r6 # <<>> /\ Head(r6) = "waitsRepass" /\ Tail(r6) = r7
      /\ ShapeOf(r6, m)
      /\ Members(r6) = {"waitsRepass", "late", "promote", "loop"}
  <2>1. Fits("waitsRepass", Members(r7), m) /\ Adj("waitsRepass", Head(r7), Members(r7))
    BY <1>1 DEF Fits, Adj, Drains, WaitsLater, IsLate, InCascade, InWait
  <2> HIDE DEF Stages, r7
  <2>2. /\ "waitsRepass" \in Stages /\ r7 \in Seq(Stages) /\ ShapeOf(r7, m)
    BY <1>1 DEF Stages
  <2>3. /\ r6 \in Seq(Stages) /\ r6 # <<>> /\ Head(r6) = "waitsRepass" /\ Tail(r6) = r7
        /\ ShapeOf(r6, m) /\ Members(r6) = {"waitsRepass"} \cup Members(r7)
    BY <2>1, <2>2, Pushed
  <2> HIDE DEF r6
  <2> QED
    BY <1>1, <2>3
<1>3. /\ r5 \in Seq(Stages) /\ r5 # <<>> /\ Head(r5) = "hops" /\ Tail(r5) = r6
      /\ ShapeOf(r5, m)
      /\ Members(r5) = {"hops", "waitsRepass", "late", "promote", "loop"}
  <2>1. Fits("hops", Members(r6), m) /\ Adj("hops", Head(r6), Members(r6))
    BY <1>2 DEF Fits, Adj, Drains, WaitsLater, IsLate, InCascade, InWait
  <2> HIDE DEF Stages, r6, r7
  <2>2. /\ "hops" \in Stages /\ r6 \in Seq(Stages) /\ ShapeOf(r6, m)
    BY <1>2 DEF Stages
  <2>3. /\ r5 \in Seq(Stages) /\ r5 # <<>> /\ Head(r5) = "hops" /\ Tail(r5) = r6
        /\ ShapeOf(r5, m) /\ Members(r5) = {"hops"} \cup Members(r6)
    BY <2>1, <2>2, Pushed
  <2> HIDE DEF r5
  <2> QED
    BY <1>2, <2>3
<1>4. /\ r4 \in Seq(Stages) /\ r4 # <<>> /\ Head(r4) = "reactive" /\ Tail(r4) = r5
      /\ ShapeOf(r4, m)
      /\ Members(r4) = {"reactive", "hops", "waitsRepass", "late", "promote", "loop"}
  <2>1. Fits("reactive", Members(r5), m) /\ Adj("reactive", Head(r5), Members(r5))
    BY <1>3 DEF Fits, Adj, Drains, WaitsLater, IsLate, InCascade, InWait
  <2> HIDE DEF Stages, r5, r6, r7
  <2>2. /\ "reactive" \in Stages /\ r5 \in Seq(Stages) /\ ShapeOf(r5, m)
    BY <1>3 DEF Stages
  <2>3. /\ r4 \in Seq(Stages) /\ r4 # <<>> /\ Head(r4) = "reactive" /\ Tail(r4) = r5
        /\ ShapeOf(r4, m) /\ Members(r4) = {"reactive"} \cup Members(r5)
    BY <2>1, <2>2, Pushed
  <2> HIDE DEF r4
  <2> QED
    BY <1>3, <2>3
<1>5. /\ r3 \in Seq(Stages) /\ r3 # <<>> /\ Head(r3) = "clocking" /\ Tail(r3) = r4
      /\ ShapeOf(r3, m)
      /\ Members(r3) = {"clocking", "reactive", "hops", "waitsRepass", "late",
                       "promote", "loop"}
  <2>1. Fits("clocking", Members(r4), m) /\ Adj("clocking", Head(r4), Members(r4))
    BY <1>4 DEF Fits, Adj, Drains, WaitsLater, IsLate, InCascade, InWait
  <2> HIDE DEF Stages, r4, r5, r6, r7
  <2>2. /\ "clocking" \in Stages /\ r4 \in Seq(Stages) /\ ShapeOf(r4, m)
    BY <1>4 DEF Stages
  <2>3. /\ r3 \in Seq(Stages) /\ r3 # <<>> /\ Head(r3) = "clocking" /\ Tail(r3) = r4
        /\ ShapeOf(r3, m) /\ Members(r3) = {"clocking"} \cup Members(r4)
    BY <2>1, <2>2, Pushed
  <2> HIDE DEF r3
  <2> QED
    BY <1>4, <2>3
<1>6. /\ r2 \in Seq(Stages) /\ r2 # <<>> /\ Head(r2) = "cascade" /\ Tail(r2) = r3
      /\ ShapeOf(r2, m)
      /\ Members(r2) = {"cascade", "clocking", "reactive", "hops", "waitsRepass",
                       "late", "promote", "loop"}
  <2>1. Fits("cascade", Members(r3), m) /\ Adj("cascade", Head(r3), Members(r3))
    BY <1>5 DEF Fits, Adj, Drains, WaitsLater, IsLate, InCascade, InWait
  <2> HIDE DEF Stages, r3, r4, r5, r6, r7
  <2>2. /\ "cascade" \in Stages /\ r3 \in Seq(Stages) /\ ShapeOf(r3, m)
    BY <1>5 DEF Stages
  <2>3. /\ r2 \in Seq(Stages) /\ r2 # <<>> /\ Head(r2) = "cascade" /\ Tail(r2) = r3
        /\ ShapeOf(r2, m) /\ Members(r2) = {"cascade"} \cup Members(r3)
    BY <2>1, <2>2, Pushed
  <2> HIDE DEF r2
  <2> QED
    BY <1>5, <2>3
<1>7. /\ r1 \in Seq(Stages) /\ r1 # <<>> /\ Head(r1) = "edges" /\ Tail(r1) = r2
      /\ ShapeOf(r1, m)
      /\ Members(r1) = {"edges", "cascade", "clocking", "reactive", "hops",
                       "waitsRepass", "late", "promote", "loop"}
  <2>1. Fits("edges", Members(r2), m) /\ Adj("edges", Head(r2), Members(r2))
    BY <1>6 DEF Fits, Adj, Drains, WaitsLater, IsLate, InCascade, InWait
  <2> HIDE DEF Stages, r2, r3, r4, r5, r6, r7
  <2>2. /\ "edges" \in Stages /\ r2 \in Seq(Stages) /\ ShapeOf(r2, m)
    BY <1>6 DEF Stages
  <2>3. /\ r1 \in Seq(Stages) /\ r1 # <<>> /\ Head(r1) = "edges" /\ Tail(r1) = r2
        /\ ShapeOf(r1, m) /\ Members(r1) = {"edges"} \cup Members(r2)
    BY <2>1, <2>2, Pushed
  <2> HIDE DEF r1
  <2> QED
    BY <1>6, <2>3
<1>8. <<"late">> \o r = r7
  OBVIOUS
<1>9. <<"waitsRepass", "late">> \o r = r6
  <2>1. <<"waitsRepass", "late">>
        = <<"waitsRepass">> \o <<"late">>
    BY Pair
  <2>2. <<"waitsRepass">> \in Seq(Stages) /\ <<"late">> \in Seq(Stages)
    OBVIOUS
  <2>3. (<<"waitsRepass">> \o <<"late">>) \o r
        = <<"waitsRepass">> \o (<<"late">> \o r)
    BY <2>2, ConcatAssociative
  <2> QED
    BY <1>8, <2>1, <2>3
<1>10. <<"hops", "waitsRepass", "late">> \o r = r5
  <2>1. <<"hops", "waitsRepass", "late">>
        = <<"hops">> \o <<"waitsRepass", "late">>
    OBVIOUS
  <2>2. <<"hops">> \in Seq(Stages) /\ <<"waitsRepass", "late">> \in Seq(Stages)
    OBVIOUS
  <2>3. (<<"hops">> \o <<"waitsRepass", "late">>) \o r
        = <<"hops">> \o (<<"waitsRepass", "late">> \o r)
    BY <2>2, ConcatAssociative
  <2> QED
    BY <1>9, <2>1, <2>3
<1>11. <<"reactive", "hops", "waitsRepass", "late">> \o r = r4
  <2>1. <<"reactive", "hops", "waitsRepass", "late">>
        = <<"reactive">> \o <<"hops", "waitsRepass", "late">>
    OBVIOUS
  <2>2. <<"reactive">> \in Seq(Stages) /\ <<"hops", "waitsRepass", "late">> \in Seq(Stages)
    OBVIOUS
  <2>3. (<<"reactive">> \o <<"hops", "waitsRepass", "late">>) \o r
        = <<"reactive">> \o (<<"hops", "waitsRepass", "late">> \o r)
    BY <2>2, ConcatAssociative
  <2> QED
    BY <1>10, <2>1, <2>3
<1>12. <<"clocking", "reactive", "hops", "waitsRepass", "late">> \o r = r3
  <2>1. <<"clocking", "reactive", "hops", "waitsRepass", "late">>
        = <<"clocking">> \o <<"reactive", "hops", "waitsRepass", "late">>
    OBVIOUS
  <2>2. <<"clocking">> \in Seq(Stages) /\ <<"reactive", "hops", "waitsRepass", "late">> \in Seq(Stages)
    OBVIOUS
  <2>3. (<<"clocking">> \o <<"reactive", "hops", "waitsRepass", "late">>) \o r
        = <<"clocking">> \o (<<"reactive", "hops", "waitsRepass", "late">> \o r)
    BY <2>2, ConcatAssociative
  <2> QED
    BY <1>11, <2>1, <2>3
<1>13. <<"cascade", "clocking", "reactive", "hops", "waitsRepass", "late">> \o r = r2
  <2>1. <<"cascade", "clocking", "reactive", "hops", "waitsRepass", "late">>
        = <<"cascade">> \o <<"clocking", "reactive", "hops", "waitsRepass", "late">>
    OBVIOUS
  <2>2. <<"cascade">> \in Seq(Stages) /\ <<"clocking", "reactive", "hops", "waitsRepass", "late">> \in Seq(Stages)
    OBVIOUS
  <2>3. (<<"cascade">> \o <<"clocking", "reactive", "hops", "waitsRepass", "late">>) \o r
        = <<"cascade">> \o (<<"clocking", "reactive", "hops", "waitsRepass", "late">> \o r)
    BY <2>2, ConcatAssociative
  <2> QED
    BY <1>12, <2>1, <2>3
<1>14. <<"edges", "cascade", "clocking", "reactive", "hops", "waitsRepass", "late">> \o r = r1
  <2>1. <<"edges", "cascade", "clocking", "reactive", "hops", "waitsRepass", "late">>
        = <<"edges">> \o <<"cascade", "clocking", "reactive", "hops", "waitsRepass", "late">>
    OBVIOUS
  <2>2. <<"edges">> \in Seq(Stages) /\ <<"cascade", "clocking", "reactive", "hops", "waitsRepass", "late">> \in Seq(Stages)
    OBVIOUS
  <2>3. (<<"edges">> \o <<"cascade", "clocking", "reactive", "hops", "waitsRepass", "late">>) \o r
        = <<"edges">> \o (<<"cascade", "clocking", "reactive", "hops", "waitsRepass", "late">> \o r)
    BY <2>2, ConcatAssociative
  <2> QED
    BY <1>13, <2>1, <2>3
<1> HIDE DEF r1, r2, r3, r4, r5, r6, r7
<1> QED
  BY <1>6, <1>7, <1>14 DEF Slot!LatePass
\* What the invariant says of the first stage and of those below it.
LEMMA Standing ==
  ASSUME SlotInv, stack # <<>>
  PROVE  /\ Tail(stack) \in Seq(Stages) /\ Top \in Stages
         /\ ShapeOf(Tail(stack), pass.mode)
         /\ Members(stack) = {Top} \cup Below
         /\ Below \subseteq Stages
         /\ Fits(Top, Below, pass.mode)
         /\ Tail(stack) # <<>> =>
               /\ stack[2] = Head(Tail(stack)) /\ stack[2] \in Below
               /\ Adj(Top, stack[2], Below)
         /\ (Tail(stack) = <<>>) <=> (Below = {})
BY Popped DEF SlotInv, Top, Below

\* The first stage is over.
LEMMA Leaves ==
  ASSUME SlotInv, stack # <<>>, Top \notin {"loop", "spinner"},
         stack' = <<>> \o Tail(stack),
         pass'.mode = pass.mode \/ InWait \cap Below = {}
  PROVE  /\ stack' \in Seq(Stages) /\ stack' # <<>> /\ ShapeOf(stack', pass'.mode)
         /\ Members(stack') = Below /\ Top' = stack[2] /\ Below' \subseteq Below
         /\ Adj(Top, stack[2], Below)
<1>1. Tail(stack) \in Seq(Stages) /\ ShapeOf(Tail(stack), pass.mode) /\ "loop" \in Below
  BY Standing DEF Fits
<1>2. Tail(stack) # <<>> /\ stack[2] = Head(Tail(stack))
  BY <1>1, Standing
<1>3. stack' = Tail(stack)
  BY <1>1, Gone
<1>4. Members(Tail(Tail(stack))) \subseteq Members(Tail(stack))
  BY <1>1, <1>2, Popped
<1>5. ShapeOf(Tail(stack), pass'.mode)
  <2> DEFINE r == Tail(stack)
  <2>1. r \in Seq(Stages) /\ ShapeOf(r, pass.mode) /\ Below = Members(r)
    BY <1>1 DEF Below
  <2> HIDE DEF r
  <2>2. ShapeOf(r, pass'.mode)
    BY <2>1, OtherMode
  <2> QED
    BY <2>2 DEF r
<1> QED
  BY <1>1, <1>2, <1>3, <1>4, <1>5, Standing DEF Top, Below

\* Others come in its place.
LEMMA Enters ==
  ASSUME SlotInv, stack # <<>>, NEW a \in Stages, stack' = <<a>> \o Tail(stack),
         pass'.mode = pass.mode \/ InWait \cap Below = {},
         Fits(a, Below, pass'.mode),
         Tail(stack) # <<>> => Adj(a, stack[2], Below)
  PROVE  /\ stack' \in Seq(Stages) /\ stack' # <<>> /\ ShapeOf(stack', pass'.mode)
         /\ Members(stack') = {a} \cup Below /\ Top' = a /\ Below' = Below
         /\ Tail(stack) # <<>> => stack'[2] = stack[2]
<1> DEFINE r == Tail(stack)
<1>1. /\ r \in Seq(Stages) /\ Members(r) = Below
      /\ r # <<>> => stack[2] = Head(r)
      /\ Fits(a, Members(r), pass'.mode)
      /\ r # <<>> => Adj(a, Head(r), Members(r))
  BY Standing DEF Below
<1>2. ShapeOf(r, pass'.mode)
  <2>1. ShapeOf(r, pass.mode)
    BY Standing
  <2> HIDE DEF r
  <2> QED
    BY <1>1, <2>1, OtherMode
<1>3. /\ <<a>> \o r \in Seq(Stages) /\ <<a>> \o r # <<>>
      /\ Head(<<a>> \o r) = a /\ Tail(<<a>> \o r) = r
      /\ Members(<<a>> \o r) = {a} \cup Members(r)
      /\ ShapeOf(<<a>> \o r, pass'.mode)
      /\ r # <<>> => (<<a>> \o r)[2] = Head(r)
  <2> HIDE DEF r
  <2> QED
    BY <1>1, <1>2, Pushed
<1> QED
  BY <1>1, <1>3 DEF Top, Below

LEMMA EntersTwo ==
  ASSUME SlotInv, stack # <<>>, NEW a \in Stages, NEW b \in Stages,
         stack' = <<a, b>> \o Tail(stack), pass'.mode = pass.mode,
         Fits(b, Below, pass.mode), Fits(a, {b} \cup Below, pass.mode),
         Tail(stack) # <<>> => Adj(b, stack[2], Below),
         Adj(a, b, {b} \cup Below)
  PROVE  /\ stack' \in Seq(Stages) /\ stack' # <<>> /\ ShapeOf(stack', pass'.mode)
         /\ Members(stack') = {a, b} \cup Below /\ Top' = a /\ Below' = {b} \cup Below
         /\ stack'[2] = b
<1> DEFINE r == Tail(stack)
           s == <<b>> \o r
<1>1. /\ r \in Seq(Stages) /\ Members(r) = Below /\ ShapeOf(r, pass.mode)
      /\ r # <<>> => stack[2] = Head(r)
  BY Standing DEF Below
<1>2. stack' = <<a>> \o s
  BY <1>1, SplitTwo
<1> HIDE DEF r
<1>3. /\ s \in Seq(Stages) /\ s # <<>> /\ Head(s) = b
      /\ Members(s) = {b} \cup Members(r) /\ ShapeOf(s, pass.mode)
  BY <1>1, Pushed DEF r
<1> HIDE DEF s
<1>4. /\ <<a>> \o s \in Seq(Stages) /\ <<a>> \o s # <<>>
      /\ Head(<<a>> \o s) = a /\ Tail(<<a>> \o s) = s
      /\ Members(<<a>> \o s) = {a} \cup Members(s)
      /\ ShapeOf(<<a>> \o s, pass.mode)
      /\ (<<a>> \o s)[2] = Head(s)
  BY <1>1, <1>3, Pushed
<1> QED
  BY <1>1, <1>2, <1>3, <1>4 DEF Top, Below

LEMMA EntersThree ==
  ASSUME SlotInv, stack # <<>>, NEW a \in Stages, NEW b \in Stages, NEW c \in Stages,
         stack' = <<a, b, c>> \o Tail(stack), pass'.mode = pass.mode,
         Fits(c, Below, pass.mode), Fits(b, {c} \cup Below, pass.mode),
         Fits(a, {b, c} \cup Below, pass.mode),
         Tail(stack) # <<>> => Adj(c, stack[2], Below),
         Adj(b, c, {c} \cup Below), Adj(a, b, {b, c} \cup Below)
  PROVE  /\ stack' \in Seq(Stages) /\ stack' # <<>> /\ ShapeOf(stack', pass'.mode)
         /\ Members(stack') = {a, b, c} \cup Below /\ Top' = a
         /\ Below' = {b, c} \cup Below
         /\ stack'[2] = b
<1> DEFINE r == Tail(stack)
           s == <<c>> \o r
           u == <<b>> \o s
<1>1. /\ r \in Seq(Stages) /\ Members(r) = Below /\ ShapeOf(r, pass.mode)
      /\ r # <<>> => stack[2] = Head(r)
  BY Standing DEF Below
<1>2. stack' = <<a>> \o u
  <2> HIDE DEF r
  <2>1. <<a, b, c>> \o r = <<a>> \o (<<b>> \o (<<c>> \o r))
    <3>1. \A x, y, z \in Stages : <<x, y, z>> \o r = <<x>> \o (<<y>> \o (<<z>> \o r))
      BY <1>1, SplitThree
    <3> QED
      BY <3>1, Zenon
  <2> QED
    BY <2>1 DEF r
<1> HIDE DEF r
<1>3. /\ s \in Seq(Stages) /\ s # <<>> /\ Head(s) = c
      /\ Members(s) = {c} \cup Below /\ ShapeOf(s, pass.mode)
  BY <1>1, Pushed DEF r
<1> HIDE DEF s
<1>4. /\ u \in Seq(Stages) /\ u # <<>> /\ Head(u) = b
      /\ Members(u) = {b} \cup Members(s) /\ ShapeOf(u, pass.mode)
  BY <1>3, Pushed
<1>5. Members(u) = {b, c} \cup Below
  BY <1>3, <1>4
<1> HIDE DEF u
<1>6. /\ <<a>> \o u \in Seq(Stages) /\ <<a>> \o u # <<>>
      /\ Head(<<a>> \o u) = a /\ Tail(<<a>> \o u) = u
      /\ Members(<<a>> \o u) = {a} \cup Members(u)
      /\ ShapeOf(<<a>> \o u, pass.mode)
      /\ (<<a>> \o u)[2] = Head(u)
  BY <1>4, <1>5, Pushed
<1> QED
  BY <1>2, <1>4, <1>5, <1>6 DEF Top, Below

LEMMA EdgesKeep ==
  ASSUME SlotTypes, SlotInv, Slot!Edges
  PROVE  SlotInv'
<1>1. /\ running = 0 /\ stack # <<>> /\ Top = "edges"
      /\ stack' = <<"waiters">> \o Tail(stack)
      /\ UNCHANGED <<time, wait, queue, lists, batch, running>>
      /\ pass'.mode = pass.mode /\ pass'.moved = pass.moved /\ pass'.wrote = pass.wrote
      /\ pass'.rechecked = pass.rechecked
      /\ pass'.defer = pass.defer /\ pass'.noted = pass.noted
      /\ sig'.nba = sig.nba /\ sig'.hops = sig.hops
  BY DEF Slot!Edges, Slot!At, Slot!Goto, Slot!output, Slot!places, Top, SlotTypes, Passes, Sigs
<1>2. Fits("waiters", Below, pass.mode) /\ (Tail(stack) # <<>> => Adj("waiters", stack[2], Below))
  BY <1>1, Standing DEF Fits, Adj, InWait
<1>3. /\ stack' \in Seq(Stages) /\ stack' # <<>> /\ ShapeOf(stack', pass'.mode)
      /\ Members(stack') = {"waiters"} \cup Below /\ Top' = "waiters" /\ Below' = Below
  BY <1>1, <1>2, Enters DEF Stages
<1>4. Tops'
  BY <1>1, <1>3 DEF Tops, SlotInv
<1>5. Due'
  BY <1>1, <1>3, Standing DEF Due, Owed, Seen, SlotInv, Has, Again, PendingData, InCascade, WaitsLater
<1> QED
  BY <1>3, <1>4, <1>5 DEF SlotInv

LEMMA RunBatchKeeps ==
  ASSUME SlotTypes, SlotInv, Slot!RunBatch
  PROVE  SlotInv'
<1>1. /\ running = 0 /\ stack # <<>> /\ Top = "run"
      /\ UNCHANGED <<time, wait, queue, lists, sig, pass>>
  BY DEF Slot!RunBatch, Slot!At, Top
<1>2. CASE batch = <<>>
  <2>1. stack' = <<>> \o Tail(stack) /\ UNCHANGED <<running, batch>>
    BY <1>2 DEF Slot!RunBatch, Slot!Goto
  <2>2. /\ stack' \in Seq(Stages) /\ stack' # <<>> /\ ShapeOf(stack', pass'.mode)
        /\ Members(stack') = Below /\ Top' = stack[2] /\ Below' \subseteq Below
        /\ Adj(Top, stack[2], Below)
    BY <1>1, <2>1, Leaves
  <2>3. Tops'
    BY <1>1, <1>2, <2>1, <2>2 DEF Tops, Adj, SlotInv
  <2>4. Due'
    BY <1>1, <2>2, Standing DEF Due, Owed, Seen, SlotInv, Has, Again, PendingData, InCascade, WaitsLater
  <2> QED
    BY <2>2, <2>3, <2>4 DEF SlotInv
<1>3. CASE batch # <<>>
  <2>1. UNCHANGED stack /\ batch' = Tail(batch)
    BY <1>3 DEF Slot!RunBatch
  <2>2. Tops'
    BY <1>1, <2>1 DEF Tops, SlotInv, Top, Below
  <2>3. Due'
    BY <1>1, <2>1 DEF Due, Owed, Seen, SlotInv, Has, Again, PendingData
  <2> QED
    BY <1>1, <2>1, <2>2, <2>3 DEF SlotInv
<1> QED
  BY <1>2, <1>3

LEMMA WaitersKeep ==
  ASSUME SlotTypes, SlotInv, Slot!Waiters
  PROVE  SlotInv'
<1>1. /\ running = 0 /\ stack # <<>> /\ Top = "waiters" /\ batch = <<>>
      /\ UNCHANGED <<time, wait, sig, pass>>
  BY DEF Slot!Waiters, Slot!At, Top, Tops, SlotInv
<1>2. Drains(Below) /\ InCascade(Below) /\ "promote" \in Below
  BY <1>1, Standing DEF Fits
<1>3. CASE /\ stack' = <<"run", "waiters">> \o Tail(stack)
           /\ UNCHANGED <<queue, running>>
           /\ SameBut(lists', {"events", "clocking"})
  <2>1. /\ Fits("waiters", Below, pass.mode)
        /\ Tail(stack) # <<>> => Adj("waiters", stack[2], Below)
        /\ Fits("run", {"waiters"} \cup Below, pass.mode)
        /\ Adj("run", "waiters", {"waiters"} \cup Below)
    <3>1. Fits("waiters", Below, pass.mode)
      BY <1>1, Standing
    <3>2. Tail(stack) # <<>> => Adj("waiters", stack[2], Below)
      BY <1>1, Standing
    <3>3. Fits("run", {"waiters"} \cup Below, pass.mode)
      BY <1>2, <3>1 DEF Fits, Drains, WaitsLater, InCascade, InWait
    <3>4. Adj("run", "waiters", {"waiters"} \cup Below)
      BY DEF Adj
    <3> QED
      BY <3>1, <3>2, <3>3, <3>4
  <2>2. /\ stack' \in Seq(Stages) /\ stack' # <<>> /\ ShapeOf(stack', pass'.mode)
        /\ Members(stack') = {"run", "waiters"} \cup Below /\ Top' = "run"
        /\ Below' = {"waiters"} \cup Below
    BY <1>1, <1>3, <2>1, EntersTwo DEF Stages
  <2>3. Tops'
    BY <1>1, <1>2, <1>3, <2>2 DEF Tops, InCascade, Drains, WaitsLater, SlotInv
  <2>4. Due'
    BY <1>1, <1>2, <1>3, <2>2, Standing
       DEF Due, Owed, Seen, SlotInv, Has, Again, PendingData, InCascade, WaitsLater, SameBut, Drains, Tops
  <2> QED
    BY <2>2, <2>3, <2>4 DEF SlotInv
<1>4. CASE /\ UNCHANGED <<queue, lists, batch, running>>
           /\ stack' = <<"edges">> \o Tail(stack)
  <2>1. /\ Fits("edges", Below, pass.mode)
        /\ Tail(stack) # <<>> => Adj("edges", stack[2], Below)
    BY <1>1, Standing DEF Fits, Adj, InWait
  <2>2. /\ stack' \in Seq(Stages) /\ stack' # <<>> /\ ShapeOf(stack', pass'.mode)
        /\ Members(stack') = {"edges"} \cup Below /\ Top' = "edges" /\ Below' = Below
    BY <1>1, <1>4, <2>1, Enters DEF Stages
  <2>3. Tops'
    BY <1>1, <1>4, <2>2 DEF Tops, SlotInv
  <2>4. Due'
    BY <1>1, <1>4, <2>2, Standing
       DEF Due, Owed, Seen, SlotInv, Has, Again, PendingData, InCascade, WaitsLater
  <2> QED
    BY <2>2, <2>3, <2>4 DEF SlotInv
<1>5. CASE /\ UNCHANGED <<queue, lists, batch, running>>
           /\ stack' = <<>> \o Tail(stack)
  <2>1. /\ stack' \in Seq(Stages) /\ stack' # <<>> /\ ShapeOf(stack', pass'.mode)
        /\ Members(stack') = Below /\ Top' = stack[2] /\ Below' \subseteq Below
        /\ Adj(Top, stack[2], Below)
    BY <1>1, <1>5, Leaves
  <2>2. Tops'
    BY <1>1, <1>5, <2>1 DEF Tops, Adj, SlotInv
  <2>3. Due'
    BY <1>1, <1>5, <2>1, Standing
       DEF Due, Owed, Seen, SlotInv, Has, Again, PendingData, InCascade, WaitsLater
  <2> QED
    BY <2>1, <2>2, <2>3 DEF SlotInv
<1> QED
  BY <1>1, <1>3, <1>4, <1>5
     DEF Slot!Waiters, Slot!Goto, Slot!places, SlotTypes, ListNames, SameBut

\* How the waits are looked at: the mode is that of the caller.
LEMMA WaitsKeep ==
  ASSUME SlotTypes, SlotInv, NEW s, NEW m, Slot!WaitsAs(s, m),
         <<s, m>> \in {<<"waitsPre", "pre">>, <<"cascadeWaits", "cascade">>,
                       <<"waitsEnd", "end">>, <<"waitsRepass", "repass">>}
  PROVE  SlotInv'
<1>1. /\ running = 0 /\ stack # <<>> /\ Top = s /\ batch = <<>>
      /\ UNCHANGED <<time, wait, queue, lists, batch, running, sig>>
      /\ pass'.moved = pass.moved /\ pass'.wrote = pass.wrote /\ pass'.mode = m
      /\ pass'.rechecked = pass.rechecked
      /\ pass'.defer = pass.defer /\ pass'.noted = pass.noted
  BY DEF Slot!WaitsAs, Slot!At, Slot!places, Slot!output, Top, Tops, SlotInv, SlotTypes, Passes
<1>2. InWait \cap Below = {}
  BY <1>1, Standing DEF Fits, InWait
<1>3. CASE /\ s = "cascadeWaits" /\ lists["ready"] = <<>>
           /\ stack' = <<>> \o Tail(stack)
  <2>1. /\ stack' \in Seq(Stages) /\ stack' # <<>> /\ ShapeOf(stack', pass'.mode)
        /\ Members(stack') = Below /\ Top' = stack[2] /\ Below' \subseteq Below
        /\ Adj(Top, stack[2], Below)
    BY <1>1, <1>2, <1>3, Leaves
  <2>2. Tops'
    BY <1>1, <1>3, <2>1 DEF Tops, Adj, SlotInv
  <2>3. Due'
    BY <1>1, <1>3, <2>1, Standing
       DEF Due, Owed, Seen, SlotInv, Has, Again, PendingData, InCascade, WaitsLater, Fits, Drains
  <2> QED
    BY <2>1, <2>2, <2>3 DEF SlotInv
<1>4. CASE stack' = <<"waitRound">> \o Tail(stack)
  <2>1. Fits("waitRound", Below, m)
    BY <1>1, Standing DEF Fits, InWait, InCascade, Drains, WaitsLater, IsLate
  <2>2. Tail(stack) # <<>> => Adj("waitRound", stack[2], Below)
    BY <1>1, Standing DEF Adj
  <2>3. /\ stack' \in Seq(Stages) /\ stack' # <<>> /\ ShapeOf(stack', pass'.mode)
        /\ Members(stack') = {"waitRound"} \cup Below /\ Top' = "waitRound" /\ Below' = Below
        /\ Tail(stack) # <<>> => stack'[2] = stack[2]
    BY <1>1, <1>2, <1>4, <2>1, <2>2, Enters DEF Stages
  <2>4. Tail(stack) # <<>>
    BY <1>1, Standing DEF Fits
  <2>5. stack[2] = "inactive" => s = "waitsPre"
    BY <1>1, <2>4, Standing DEF Adj
  <2>6. Tops'
    BY <1>1, <2>3, <2>4, <2>5 DEF Tops, SlotInv
  <2>7. Due'
    BY <1>1, <2>3, Standing
       DEF Due, Owed, Seen, SlotInv, Has, Again, PendingData, InCascade, WaitsLater
  <2> QED
    BY <2>3, <2>6, <2>7 DEF SlotInv
<1> QED
  BY <1>1, <1>3, <1>4 DEF Slot!WaitsAs, Slot!Goto

LEMMA WaitRoundKeeps ==
  ASSUME SlotTypes, SlotInv, Slot!WaitRound, Orderly(lists["conds"])
  PROVE  SlotInv'
<1> DEFINE still == {p \in Procs : Slot!Kept(p)}
           wakes == Slot!Only(lists["conds"], Procs \ still)
<1>1. /\ running = 0 /\ stack # <<>> /\ Top = "waitRound" /\ batch = <<>>
      /\ stack' = <<"waitRun", "waitTest">> \o Tail(stack)
      /\ UNCHANGED <<time, wait, batch, running, sig>>
      /\ SameBut(lists', {"ready", "conds"}) /\ lists'["ready"] = <<>>
      /\ lists'["conds"] = Slot!Only(lists["conds"], still)
      /\ queue'[time] = queue[time] \o lists["ready"] \o wakes
      /\ pass'.moved = pass.moved /\ pass'.wrote = pass.wrote /\ pass'.mode = pass.mode
      /\ pass'.rechecked = IF pass.mode = "repass"
                           THEN pass.rechecked \cup {wakes[i] : i \in DOMAIN wakes}
                           ELSE pass.rechecked
      /\ pass'.defer = pass.defer /\ pass'.noted = FALSE
  <2>1. /\ running = 0 /\ stack # <<>> /\ Top = "waitRound" /\ batch = <<>>
        /\ stack' = <<"waitRun", "waitTest">> \o Tail(stack)
        /\ UNCHANGED <<time, wait, batch, running, sig>>
    BY DEF Slot!WaitRound, Slot!At, Slot!Goto, Top, Tops, SlotInv
  <2>2. /\ lists' = [lists EXCEPT !["ready"] = <<>>,
                                  !["conds"] = Slot!Only(lists["conds"], still)]
        /\ queue' = [queue EXCEPT ![time] = queue[time] \o lists["ready"] \o wakes]
        /\ pass' = [pass EXCEPT !.progress = FALSE, !.noted = FALSE,
                    !.rechecked = IF pass.mode = "repass"
                                  THEN pass.rechecked \cup {wakes[i] : i \in DOMAIN wakes}
                                  ELSE pass.rechecked]
    BY DEF Slot!WaitRound, Slot!Procs, Procs
  <2> HIDE DEF wakes, still
  <2>3. /\ SameBut(lists', {"ready", "conds"}) /\ lists'["ready"] = <<>>
        /\ lists'["conds"] = Slot!Only(lists["conds"], still)
    BY <2>2 DEF SlotTypes, ListNames, SameBut
  <2>4. queue'[time] = queue[time] \o lists["ready"] \o wakes
    BY <2>2 DEF SlotTypes
  <2> QED
    BY <2>1, <2>2, <2>3, <2>4 DEF SlotTypes, Passes
<1>2. Fits("waitRound", Below, pass.mode)
  BY <1>1, Standing
<1>3. /\ Fits("waitTest", Below, pass.mode)
      /\ Tail(stack) # <<>> => Adj("waitTest", stack[2], Below)
      /\ Fits("waitRun", {"waitTest"} \cup Below, pass.mode)
      /\ Adj("waitRun", "waitTest", {"waitTest"} \cup Below)
  <2>1. Fits("waitTest", Below, pass.mode)
    BY <1>2 DEF Fits, InWait
  <2>2. Tail(stack) # <<>> => Adj("waitTest", stack[2], Below)
    BY <1>1, Standing DEF Adj
  <2>3. Fits("waitRun", {"waitTest"} \cup Below, pass.mode)
    BY <1>2 DEF Fits, Drains, WaitsLater, InCascade, InWait, IsLate
  <2>4. Adj("waitRun", "waitTest", {"waitTest"} \cup Below)
    BY DEF Adj
  <2> QED
    BY <2>1, <2>2, <2>3, <2>4
<1>4. /\ stack' \in Seq(Stages) /\ stack' # <<>> /\ ShapeOf(stack', pass'.mode)
      /\ Members(stack') = {"waitRun", "waitTest"} \cup Below /\ Top' = "waitRun"
      /\ Below' = {"waitTest"} \cup Below
  BY <1>1, <1>3, EntersTwo DEF Stages
<1>5. Seen'
  <2>1. Members(lists'["conds"]) \subseteq still
    <3> HIDE DEF still
    <3>1. Members(Slot!Only(lists["conds"], still)) = Members(lists["conds"]) \cap still
      BY OnlyIs, OnlySame
    <3> QED
      BY <1>1, <3>1
  <2>2. ASSUME NEW p \in still
        PROVE  wait[p].on # "prop" => pass.mode = "repass" /\ p \in pass.rechecked
    BY DEF Slot!Kept
  <2> HIDE DEF still
  <2>3. ASSUME NEW p \in Members(lists'["conds"])
        PROVE  IF wait'[p].on = "prop" THEN ~pass'.noted ELSE p \in pass'.rechecked
    <3>1. p \in still
      BY <2>1
    <3> QED
      BY <1>1, <2>2, <3>1
  <2> QED
    BY <2>3 DEF Seen
<1>6. queue[time] # <<>> => queue'[time] # <<>>
  <2>1. /\ queue[time] \in Seq(Procs) /\ lists["ready"] \in Seq(Procs)
        /\ lists["conds"] \in Seq(Procs)
    BY DEF SlotTypes, ListNames
  <2>2. wakes \in Seq(Procs)
    BY OnlyIs, OnlySame DEF Orderly
  <2> HIDE DEF wakes
  <2> QED
    BY <1>1, <2>1, <2>2
<1>7. Tops'
  BY <1>1, <1>4 DEF Tops, SlotInv
<1>8. Due'
  BY <1>1, <1>4, <1>5, <1>6, Standing
     DEF Due, Owed, SlotInv, Has, Again, PendingData, InCascade, WaitsLater, SameBut
<1> QED
  BY <1>4, <1>7, <1>8 DEF SlotInv

LEMMA WaitNoneKeeps ==
  ASSUME SlotTypes, SlotInv, Slot!WaitNone
  PROVE  SlotInv'
<1>1. /\ running = 0 /\ stack # <<>> /\ Top = "waitRound" /\ batch = <<>>
      /\ stack' = <<>> \o Tail(stack)
      /\ pass.defer \/ (lists["conds"] = <<>> /\ lists["ready"] = <<>>)
      /\ UNCHANGED <<time, wait, queue, lists, batch, running, sig, pass>>
  BY DEF Slot!WaitNone, Slot!At, Slot!Goto, Slot!Skip, Slot!places, Top, Tops, SlotInv
<1>2. /\ stack' \in Seq(Stages) /\ stack' # <<>> /\ ShapeOf(stack', pass'.mode)
      /\ Members(stack') = Below /\ Top' = stack[2] /\ Below' \subseteq Below
      /\ Adj(Top, stack[2], Below)
  BY <1>1, Leaves
<1>3. Tops'
  BY <1>1, <1>2 DEF Tops, Adj, SlotInv
<1>4. pass.defer \/ Seen'
  BY <1>1, NothingOnce DEF Seen
<1>5. Due'
  BY <1>1, <1>2, <1>4, Standing
     DEF Due, Owed, SlotInv, Has, Again, PendingData, InCascade, WaitsLater
<1> QED
  BY <1>2, <1>3, <1>5 DEF SlotInv

LEMMA WaitRunKeeps ==
  ASSUME SlotTypes, SlotInv, Slot!WaitRun
  PROVE  SlotInv'
<1>1. /\ running = 0 /\ stack # <<>> /\ Top = "waitRun" /\ batch = <<>>
      /\ UNCHANGED <<time, wait, lists, batch, sig>>
      /\ pass'.wrote = pass.wrote /\ pass'.mode = pass.mode
      /\ pass'.rechecked = pass.rechecked
      /\ pass'.defer = pass.defer /\ pass'.noted = pass.noted
  BY DEF Slot!WaitRun, Slot!At, Top, Tops, SlotInv, SlotTypes, Passes
<1>2. CASE pass.defer \/ queue[time] = <<>>
  <2>1. stack' = <<>> \o Tail(stack) /\ UNCHANGED <<queue, running, pass>>
    BY <1>2 DEF Slot!WaitRun, Slot!Goto
  <2>2. /\ stack' \in Seq(Stages) /\ stack' # <<>> /\ ShapeOf(stack', pass'.mode)
        /\ Members(stack') = Below /\ Top' = stack[2] /\ Below' \subseteq Below
        /\ Adj(Top, stack[2], Below)
    BY <1>1, <2>1, Leaves
  <2>3. Tops'
    BY <1>1, <1>2, <2>1, <2>2 DEF Tops, Adj, SlotInv
  <2>4. Due'
    BY <1>1, <2>1, <2>2, Standing
       DEF Due, Owed, Seen, SlotInv, Has, Again, PendingData, InCascade, WaitsLater
  <2> QED
    BY <2>2, <2>3, <2>4 DEF SlotInv
<1>3. CASE ~pass.defer /\ queue[time] # <<>>
  <2>1. UNCHANGED stack /\ pass'.moved
    BY <1>3 DEF Slot!WaitRun, SlotTypes, Passes
  <2>2. Tops'
    BY <1>1, <2>1 DEF Tops, SlotInv, Top, Below
  <2>3. Fits("waitRun", Below, pass.mode) /\ Members(stack) = {"waitRun"} \cup Below
    BY <1>1, Standing
  <2>4. Due'
    BY <1>1, <2>1, <2>3
       DEF Due, Owed, Seen, SlotInv, Has, Again, PendingData, Fits, Drains, IsLate, InWait
  <2> QED
    BY <1>1, <2>1, <2>2, <2>4 DEF SlotInv
<1> QED
  BY <1>2, <1>3

LEMMA AppliedIs ==
  ASSUME SlotTypes
  PROVE  Slot!Applied.nba = NoNba /\ Slot!Applied.hops = {}
BY DEF Slot!Applied, Slot!NoNba, NoNba, SlotTypes, Sigs

LEMMA WaitTestKeeps ==
  ASSUME SlotTypes, SlotInv, Slot!WaitTest
  PROVE  SlotInv'
<1> DEFINE early == pass.mode \in {"pre", "cascade"}
<1>1. /\ running = 0 /\ stack # <<>> /\ Top = "waitTest" /\ batch = <<>>
      /\ UNCHANGED <<time, wait, queue, lists, batch, running, pass>>
      /\ early => UNCHANGED sig
      /\ ~early => ~PendingData'
  <2>1. ~early => sig' = Slot!Applied
    BY DEF Slot!WaitTest
  <2>2. ~early => ~PendingData'
    BY <2>1, AppliedIs DEF PendingData
  <2> QED
    BY <2>2 DEF Slot!WaitTest, Slot!At, Slot!places, Top, Tops, SlotInv
<1>2. Fits("waitTest", Below, pass.mode) /\ (pass.defer \/ queue[time] = <<>>)
  BY <1>1, Standing DEF Tops, SlotInv
<1>3. PendingData' => InCascade(Below)
  BY <1>1, <1>2 DEF Fits, InWait, PendingData
<1>4. CASE stack' = <<"waitRound">> \o Tail(stack)
  <2>1. /\ Fits("waitRound", Below, pass.mode)
        /\ Tail(stack) # <<>> => Adj("waitRound", stack[2], Below)
    <3>1. Fits("waitRound", Below, pass.mode)
      BY <1>2 DEF Fits, InWait
    <3>2. Tail(stack) # <<>> => Adj("waitRound", stack[2], Below)
      BY <1>1, Standing DEF Adj
    <3> QED
      BY <3>1, <3>2
  <2>2. /\ stack' \in Seq(Stages) /\ stack' # <<>> /\ ShapeOf(stack', pass'.mode)
        /\ Members(stack') = {"waitRound"} \cup Below /\ Top' = "waitRound" /\ Below' = Below
    BY <1>1, <1>4, <2>1, Enters DEF Stages
  <2>3. Tops'
    BY <1>1, <1>2, <2>2 DEF Tops, SlotInv
  <2>4. Due'
    BY <1>1, <1>3, <2>2, Standing DEF Due, Owed, Seen, SlotInv, Has, Again, InCascade, WaitsLater
  <2> QED
    BY <2>2, <2>3, <2>4 DEF SlotInv
<1>5. CASE /\ stack' = <<>> \o Tail(stack)
           /\ lists["ready"] # <<>> => early
  <2>1. /\ stack' \in Seq(Stages) /\ stack' # <<>> /\ ShapeOf(stack', pass'.mode)
        /\ Members(stack') = Below /\ Top' = stack[2] /\ Below' \subseteq Below
        /\ Adj(Top, stack[2], Below)
    BY <1>1, <1>5, Leaves
  <2>2. Tops'
    BY <1>1, <1>2, <2>1 DEF Tops, Adj, SlotInv
  <2>3. lists["ready"] # <<>> => WaitsLater(Below)
    BY <1>2, <1>5 DEF Fits, InWait, Drains
  <2>4. Due'
    BY <1>1, <1>3, <2>1, <2>3, Standing DEF Due, Owed, Seen, SlotInv, Has, Again, InCascade, WaitsLater
  <2> QED
    BY <2>1, <2>2, <2>4 DEF SlotInv
<1> QED
  BY <1>4, <1>5 DEF Slot!WaitTest, Slot!Goto

LEMMA PreNbaKeeps ==
  ASSUME SlotTypes, SlotInv, Slot!PreNba
  PROVE  SlotInv'
<1>1. /\ running = 0 /\ stack # <<>> /\ Top = "preNba" /\ batch = <<>>
      /\ UNCHANGED <<time, wait, queue, running, sig, pass>>
  BY DEF Slot!PreNba, Slot!At, Slot!TakeAll, Slot!Skip, Slot!places, Top, Tops, SlotInv
<1>2. Drains(Below) /\ InCascade(Below)
  BY <1>1, Standing DEF Fits
<1>3. CASE /\ stack' = <<"run", "preNba">> \o Tail(stack)
           /\ lists["inactive"] # <<>> /\ lists'["inactive"] = <<>>
           /\ SameBut(lists', {"inactive"})
  <2>1. Fits("preNba", Below, pass.mode)
    BY <1>1, <1>2, <1>3, Standing DEF Fits, Drains, WaitsLater, InCascade, InWait, IsLate
  <2>2. Tail(stack) # <<>> => Adj("preNba", stack[2], Below)
    BY <1>1, <1>2, <1>3, Standing DEF Adj
  <2>3. Fits("run", {"preNba"} \cup Below, pass.mode)
    BY <2>1 DEF Fits, Drains, WaitsLater, InCascade, InWait, IsLate
  <2>4. Adj("run", "preNba", {"preNba"} \cup Below)
    BY DEF Adj
  <2>5. /\ stack' \in Seq(Stages) /\ stack' # <<>> /\ ShapeOf(stack', pass'.mode)
        /\ Members(stack') = {"run", "preNba"} \cup Below /\ Top' = "run"
        /\ Below' = {"preNba"} \cup Below /\ stack'[2] = "preNba"
    BY <1>1, <1>2, <1>3, <2>1, <2>2, <2>3, <2>4, EntersTwo DEF Stages
  <2>6. Tops'
    BY <1>1, <1>2, <1>3, <2>5 DEF Tops, SlotInv, Drains, InCascade, WaitsLater, InCascade
  <2>7. Due'
    BY <1>1, <1>2, <1>3, <2>5, Standing
       DEF Due, Owed, Seen, SlotInv, Has, Again, PendingData, InCascade, WaitsLater, SameBut, Drains
  <2> QED
    BY <2>5, <2>6, <2>7 DEF SlotInv
<1>4. CASE /\ stack' = <<>> \o Tail(stack)
           /\ UNCHANGED <<lists, batch>>
  <2>1. /\ stack' \in Seq(Stages) /\ stack' # <<>> /\ ShapeOf(stack', pass'.mode)
        /\ Members(stack') = Below /\ Top' = stack[2] /\ Below' \subseteq Below
        /\ Adj(Top, stack[2], Below)
    BY <1>1, <1>4, Leaves
  <2>2. Tops'
    BY <1>1, <1>4, <2>1 DEF Tops, Adj, SlotInv
  <2>3. Due'
    BY <1>1, <1>4, <2>1, Standing
       DEF Due, Owed, Seen, SlotInv, Has, Again, PendingData, InCascade, WaitsLater
  <2> QED
    BY <2>1, <2>2, <2>3 DEF SlotInv
<1>5. CASE /\ stack' = <<"edges">> \o Tail(stack)
           /\ UNCHANGED <<lists, batch>>
  <2>1. Fits("edges", Below, pass.mode)
    BY <1>1, <1>5, Standing DEF Fits, Drains, WaitsLater, InCascade, InWait, IsLate
  <2>2. Tail(stack) # <<>> => Adj("edges", stack[2], Below)
    BY <1>1, <1>5, Standing DEF Adj
  <2>3. /\ stack' \in Seq(Stages) /\ stack' # <<>> /\ ShapeOf(stack', pass'.mode)
        /\ Members(stack') = {"edges"} \cup Below /\ Top' = "edges" /\ Below' = Below
    BY <1>1, <1>5, <2>1, <2>2, Enters DEF Stages
  <2>4. Tops'
    BY <1>1, <1>5, <2>3 DEF Tops, SlotInv, Drains, InCascade, WaitsLater
  <2>5. Due'
    BY <1>1, <1>5, <2>3, Standing
       DEF Due, Owed, Seen, SlotInv, Has, Again, PendingData, InCascade, WaitsLater
  <2> QED
    BY <2>3, <2>4, <2>5 DEF SlotInv
<1>6. <<"run">> \o <<"preNba">> = <<"run", "preNba">>
  BY Pair DEF Stages
<1>7. CASE lists["inactive"] # <<>>
  BY <1>3, <1>6, <1>7
     DEF Slot!PreNba, Slot!TakeAll, Slot!Goto, Slot!Skip, SlotTypes, ListNames, SameBut
<1>8. CASE lists["inactive"] = <<>>
  BY <1>4, <1>5, <1>8 DEF Slot!PreNba, Slot!TakeAll, Slot!Goto, Slot!Skip, Slot!places
<1> QED
  BY <1>7, <1>8

LEMMA CascadeKeeps ==
  ASSUME SlotTypes, SlotInv, Slot!Cascade
  PROVE  SlotInv'
<1>1. /\ running = 0 /\ stack # <<>> /\ Top = "cascade" /\ batch = <<>>
      /\ UNCHANGED <<time, wait, queue, lists, batch, running, sig, pass>>
      /\ stack' = <<"preNba", "cascadeWaits", "cascadeCommit">> \o Tail(stack)
  BY DEF Slot!Cascade, Slot!At, Slot!Goto, Slot!Skip, Slot!places, Top, Tops, SlotInv
<1>2. CASE TRUE
  <2>1. Fits("cascadeCommit", Below, pass.mode)
    BY <1>1, <1>2, Standing DEF Fits, Drains, WaitsLater, InCascade, InWait, IsLate
  <2>2. Tail(stack) # <<>> => Adj("cascadeCommit", stack[2], Below)
    BY <1>1, <1>2, Standing DEF Adj
  <2>3. Fits("cascadeWaits", {"cascadeCommit"} \cup Below, pass.mode)
    BY <2>1, <1>1, <1>2, Standing DEF Fits, Drains, WaitsLater, InCascade, InWait, IsLate
  <2>4. Fits("preNba", {"cascadeWaits", "cascadeCommit"} \cup Below, pass.mode)
    BY <2>1, <2>3, <1>1, <1>2, Standing
       DEF Fits, Drains, WaitsLater, InCascade, InWait, IsLate
  <2>5. Adj("cascadeWaits", "cascadeCommit", {"cascadeCommit"} \cup Below) /\ Adj("preNba", "cascadeWaits", {"cascadeWaits", "cascadeCommit"} \cup Below)
    BY <1>1, <1>2, Standing DEF Adj, Fits, IsLate
  <2>6. /\ stack' \in Seq(Stages) /\ stack' # <<>> /\ ShapeOf(stack', pass'.mode)
        /\ Members(stack') = {"preNba", "cascadeWaits", "cascadeCommit"} \cup Below /\ Top' = "preNba"
        /\ Below' = {"cascadeWaits", "cascadeCommit"} \cup Below /\ stack'[2] = "cascadeWaits"
    <3>1. "preNba" \in Stages /\ "cascadeWaits" \in Stages /\ "cascadeCommit" \in Stages
      BY DEF Stages
    <3> QED
      BY <1>1, <1>2, <2>1, <2>2, <2>3, <2>4, <2>5, <3>1, EntersThree
  <2>7. Tops'
    BY <1>1, <1>2, <2>6, Standing DEF Tops, SlotInv, Drains, InCascade, WaitsLater, Fits
  <2>8. Due'
    BY <1>1, <1>2, <2>6, Standing
       DEF Due, Owed, Seen, SlotInv, Has, Again, PendingData, InCascade, WaitsLater
  <2> QED
    BY <2>6, <2>7, <2>8 DEF SlotInv
<1> QED
  BY <1>2

LEMMA CascadeCommitKeeps ==
  ASSUME SlotTypes, SlotInv, Slot!CascadeCommit
  PROVE  SlotInv'
<1>1. /\ running = 0 /\ stack # <<>> /\ Top = "cascadeCommit" /\ batch = <<>>
      /\ UNCHANGED <<time, wait, queue, lists, batch, running>>
      /\ pass'.moved = pass.moved /\ pass'.wrote = pass.wrote /\ pass'.mode = pass.mode
      /\ pass'.rechecked = pass.rechecked
      /\ pass'.defer = pass.defer /\ pass'.noted = pass.noted
  BY DEF Slot!CascadeCommit, Slot!At, Slot!Skip, Slot!places, Top, Tops, SlotInv, SlotTypes, Passes
<1>2. CASE /\ stack' = <<"edges", "cascadeTest">> \o Tail(stack)
           /\ ~PendingData' 
  <2>1. Fits("cascadeTest", Below, pass.mode)
    BY <1>1, <1>2, Standing DEF Fits, Drains, WaitsLater, InCascade, InWait, IsLate
  <2>2. Tail(stack) # <<>> => Adj("cascadeTest", stack[2], Below)
    BY <1>1, <1>2, Standing DEF Adj
  <2>3. Fits("edges", {"cascadeTest"} \cup Below, pass.mode)
    BY <2>1 DEF Fits, Drains, WaitsLater, InCascade, InWait, IsLate
  <2>4. Adj("edges", "cascadeTest", {"cascadeTest"} \cup Below)
    BY DEF Adj
  <2>5. /\ stack' \in Seq(Stages) /\ stack' # <<>> /\ ShapeOf(stack', pass'.mode)
        /\ Members(stack') = {"edges", "cascadeTest"} \cup Below /\ Top' = "edges"
        /\ Below' = {"cascadeTest"} \cup Below /\ stack'[2] = "cascadeTest"
    BY <1>1, <1>2, <2>1, <2>2, <2>3, <2>4, EntersTwo DEF Stages
  <2>6. Tops'
    BY <1>1, <1>2, <2>5 DEF Tops, SlotInv, Drains, InCascade, WaitsLater
  <2>7. Due'
    BY <1>1, <1>2, <2>5, Standing
       DEF Due, Owed, Seen, SlotInv, Has, Again, PendingData, InCascade, WaitsLater
  <2> QED
    BY <2>5, <2>6, <2>7 DEF SlotInv
<1>3. CASE /\ stack' = <<>> \o Tail(stack)
           /\ UNCHANGED sig /\ ~PendingData
  <2>1. /\ stack' \in Seq(Stages) /\ stack' # <<>> /\ ShapeOf(stack', pass'.mode)
        /\ Members(stack') = Below /\ Top' = stack[2] /\ Below' \subseteq Below
        /\ Adj(Top, stack[2], Below)
    BY <1>1, <1>3, Leaves
  <2>2. Tops'
    BY <1>1, <1>3, <2>1 DEF Tops, Adj, SlotInv
  <2>3. Due'
    BY <1>1, <1>3, <2>1, Standing
       DEF Due, Owed, Seen, SlotInv, Has, Again, PendingData, InCascade, WaitsLater
  <2> QED
    BY <2>1, <2>2, <2>3 DEF SlotInv
<1>4. CASE PendingData \/ lists["inactive"] # <<>>
  <2>1. /\ sig' = [Slot!Applied EXCEPT !.prev = Slot!Snapshot]
        /\ stack' = <<"edges", "cascadeTest">> \o Tail(stack)
    BY <1>4 DEF Slot!CascadeCommit, Slot!Goto, Slot!Skip, PendingData, Slot!PendingData, Slot!NoNba, NoNba
  <2>2. ~PendingData'
    BY <2>1, AppliedIs DEF PendingData, NoNba, Slot!Applied, SlotTypes, Sigs
  <2> QED
    BY <1>2, <2>1, <2>2
<1>5. CASE ~PendingData /\ lists["inactive"] = <<>>
  BY <1>3, <1>5
     DEF Slot!CascadeCommit, Slot!Goto, Slot!Skip, PendingData, Slot!PendingData, Slot!NoNba, NoNba
<1> QED
  BY <1>4, <1>5

LEMMA CascadeTestKeeps ==
  ASSUME SlotTypes, SlotInv, Slot!CascadeTest
  PROVE  SlotInv'
<1>1. /\ running = 0 /\ stack # <<>> /\ Top = "cascadeTest" /\ batch = <<>>
      /\ UNCHANGED <<time, wait, queue, lists, batch, running, sig, pass>>
  BY DEF Slot!CascadeTest, Slot!At, Slot!Skip, Slot!places, Top, Tops, SlotInv
<1>2. CASE stack' = <<"cascade">> \o Tail(stack)
  <2>1. Fits("cascade", Below, pass.mode)
    BY <1>1, <1>2, Standing DEF Fits, Drains, WaitsLater, InCascade, InWait, IsLate
  <2>2. Tail(stack) # <<>> => Adj("cascade", stack[2], Below)
    BY <1>1, <1>2, Standing DEF Adj
  <2>3. /\ stack' \in Seq(Stages) /\ stack' # <<>> /\ ShapeOf(stack', pass'.mode)
        /\ Members(stack') = {"cascade"} \cup Below /\ Top' = "cascade" /\ Below' = Below
    BY <1>1, <1>2, <2>1, <2>2, Enters DEF Stages
  <2>4. Tops'
    BY <1>1, <1>2, <2>3 DEF Tops, SlotInv, Drains, InCascade, WaitsLater
  <2>5. Due'
    BY <1>1, <1>2, <2>3, Standing
       DEF Due, Owed, Seen, SlotInv, Has, Again, PendingData, InCascade, WaitsLater
  <2> QED
    BY <2>3, <2>4, <2>5 DEF SlotInv
<1>3. CASE /\ stack' = <<>> \o Tail(stack)
           /\ ~PendingData
  <2>1. /\ stack' \in Seq(Stages) /\ stack' # <<>> /\ ShapeOf(stack', pass'.mode)
        /\ Members(stack') = Below /\ Top' = stack[2] /\ Below' \subseteq Below
        /\ Adj(Top, stack[2], Below)
    BY <1>1, <1>3, Leaves
  <2>2. Tops'
    BY <1>1, <1>3, <2>1 DEF Tops, Adj, SlotInv
  <2>3. Due'
    BY <1>1, <1>3, <2>1, Standing
       DEF Due, Owed, Seen, SlotInv, Has, Again, PendingData, InCascade, WaitsLater
  <2> QED
    BY <2>1, <2>2, <2>3 DEF SlotInv
<1> QED
  BY <1>2, <1>3
     DEF Slot!CascadeTest, Slot!Goto, Slot!Skip, PendingData, Slot!PendingData, Slot!NoNba, NoNba

\* A list that was not empty is not when others come behind it.
LEMMA JoinNotEmpty ==
  ASSUME NEW s \in Seq(Procs), NEW u \in Seq(Procs)
  PROVE  /\ s \o u = <<>> => s = <<>> /\ u = <<>>
         /\ s \o u \in Seq(Procs)
BY ConcatEqualIffEmpty

LEMMA ActiveKeeps ==
  ASSUME SlotTypes, SlotInv, Slot!Active
  PROVE  SlotInv'
<1>1. /\ running = 0 /\ stack # <<>> /\ Top = "active" /\ batch = <<>>
      /\ UNCHANGED <<time, wait, lists, batch, sig, pass>>
  BY
       DEF Slot!Active, Slot!At, Slot!Skip, Slot!TakeAll, Slot!places, Slot!output, Top,
           Tops, SlotInv
<1>2. CASE /\ stack' = <<"waitsPre", "inactive">> \o Tail(stack)
           /\ queue[time] = <<>> /\ UNCHANGED <<queue, running>>
  <2>1. Fits("inactive", Below, pass.mode)
    BY <1>1, <1>2, Standing DEF Fits, Drains, WaitsLater, InCascade, InWait, IsLate
  <2>2. Tail(stack) # <<>> => Adj("inactive", stack[2], Below)
    BY <1>1, <1>2, Standing DEF Adj
  <2>3. Fits("waitsPre", {"inactive"} \cup Below, pass.mode)
    BY <2>1 DEF Fits, Drains, WaitsLater, InCascade, InWait, IsLate
  <2>4. Adj("waitsPre", "inactive", {"inactive"} \cup Below)
    BY DEF Adj
  <2>5. /\ stack' \in Seq(Stages) /\ stack' # <<>> /\ ShapeOf(stack', pass'.mode)
        /\ Members(stack') = {"waitsPre", "inactive"} \cup Below /\ Top' = "waitsPre"
        /\ Below' = {"inactive"} \cup Below /\ stack'[2] = "inactive"
    BY <1>1, <1>2, <2>1, <2>2, <2>3, <2>4, EntersTwo DEF Stages
  <2>6. Tops'
    BY <1>1, <1>2, <2>5 DEF Tops, SlotInv, Drains, InCascade, WaitsLater
  <2>7. Due'
    BY <1>1, <1>2, <2>5, Standing
       DEF Due, Owed, Seen, SlotInv, Has, Again, PendingData, InCascade, WaitsLater
  <2> QED
    BY <2>5, <2>6, <2>7 DEF SlotInv
<1>4. CASE stack' = <<>> \o Tail(stack) /\ pass.defer /\ UNCHANGED <<queue, running>>
  <2>1. /\ stack' \in Seq(Stages) /\ stack' # <<>> /\ ShapeOf(stack', pass'.mode)
        /\ Members(stack') = Below /\ Top' = stack[2] /\ Below' \subseteq Below
        /\ Adj(Top, stack[2], Below)
    BY <1>1, <1>4, Leaves
  <2>2. Tops'
    BY <1>1, <1>4, <2>1 DEF Tops, Adj, SlotInv
  <2>3. Due'
    BY <1>1, <1>4 DEF Due
  <2> QED
    BY <2>1, <2>2, <2>3 DEF SlotInv
<1>3. CASE ~pass.defer /\ queue[time] # <<>>
  <2>1. UNCHANGED stack
    BY <1>3 DEF Slot!Active
  <2>2. Tops'
    BY <1>1, <2>1 DEF Tops, SlotInv, Top, Below
  <2>3. Fits("active", Below, pass.mode) /\ Members(stack) = {"active"} \cup Below
    BY <1>1, Standing
  <2>4. Due'
    BY <1>1, <2>1, <2>3 DEF Due, Owed, Seen, SlotInv, Has, Again, PendingData, Fits, Drains
  <2> QED
    BY <1>1, <2>1, <2>2, <2>4 DEF SlotInv
<1> QED
  BY <1>1, <1>2, <1>3, <1>4 DEF Slot!Active, Slot!Goto

LEMMA InactiveKeeps ==
  ASSUME SlotTypes, SlotInv, Slot!Inactive
  PROVE  SlotInv'
<1>1. /\ running = 0 /\ stack # <<>> /\ Top = "inactive" /\ batch = <<>>
      /\ UNCHANGED <<time, wait, batch, running, sig, pass>>
      /\ pass.defer \/ queue[time] = <<>>
  BY DEF Slot!Inactive, Slot!At, Slot!Skip, Slot!Promote, Slot!places, Top, Tops, SlotInv
<1>2. Drains(Below)
  BY <1>1, Standing DEF Fits
<1>3. CASE /\ stack' = <<>> \o Tail(stack)
           /\ lists["inactive"] = <<>> /\ UNCHANGED <<queue, lists>>
  <2>1. /\ stack' \in Seq(Stages) /\ stack' # <<>> /\ ShapeOf(stack', pass'.mode)
        /\ Members(stack') = Below /\ Top' = stack[2] /\ Below' \subseteq Below
        /\ Adj(Top, stack[2], Below)
    BY <1>1, <1>3, Leaves
  <2>2. Tops'
    BY <1>1, <1>3, <2>1 DEF Tops, Adj, SlotInv
  <2>3. Due'
    BY <1>1, <1>3, <2>1, Standing
       DEF Due, Owed, Seen, SlotInv, Has, Again, PendingData, InCascade, WaitsLater
  <2> QED
    BY <2>1, <2>2, <2>3 DEF SlotInv
<1>4. CASE /\ stack' = <<"edges", "active">> \o Tail(stack)
           /\ lists'["inactive"] = <<>> /\ SameBut(lists', {"inactive"})
  <2>1. Fits("active", Below, pass.mode)
    BY <1>1, <1>2, <1>4, Standing DEF Fits, Drains, WaitsLater, InCascade, InWait, IsLate
  <2>2. Tail(stack) # <<>> => Adj("active", stack[2], Below)
    BY <1>1, <1>2, <1>4, Standing DEF Adj
  <2>3. Fits("edges", {"active"} \cup Below, pass.mode)
    BY <2>1 DEF Fits, Drains, WaitsLater, InCascade, InWait, IsLate
  <2>4. Adj("edges", "active", {"active"} \cup Below)
    BY DEF Adj
  <2>5. /\ stack' \in Seq(Stages) /\ stack' # <<>> /\ ShapeOf(stack', pass'.mode)
        /\ Members(stack') = {"edges", "active"} \cup Below /\ Top' = "edges"
        /\ Below' = {"active"} \cup Below /\ stack'[2] = "active"
    BY <1>1, <1>2, <1>4, <2>1, <2>2, <2>3, <2>4, EntersTwo DEF Stages
  <2>6. Tops'
    BY <1>1, <1>2, <1>4, <2>5 DEF Tops, SlotInv, Drains, InCascade, WaitsLater
  <2>7. Due'
    BY <1>1, <1>2, <1>4, <2>5, Standing
       DEF Due, Owed, Seen, SlotInv, Has, Again, PendingData, InCascade, WaitsLater, SameBut, Drains
  <2> QED
    BY <2>5, <2>6, <2>7 DEF SlotInv
<1>5. CASE lists["inactive"] = <<>>
  BY <1>3, <1>5 DEF Slot!Inactive, Slot!Skip, Slot!Goto, Slot!places
<1>6. CASE lists["inactive"] # <<>>
  BY <1>4, <1>6 DEF Slot!Inactive, Slot!Promote, Slot!Goto, SlotTypes, ListNames, SameBut
<1> QED
  BY <1>5, <1>6

LEMMA CommitKeeps ==
  ASSUME SlotTypes, SlotInv, Slot!Commit
  PROVE  SlotInv'
<1>1. /\ running = 0 /\ stack # <<>> /\ Top = "commit" /\ batch = <<>>
      /\ UNCHANGED <<time, wait, queue, lists, batch, running, pass>>
      /\ sig' = Slot!Applied
  BY
       DEF Slot!Commit, Slot!At, Slot!Skip, Slot!TakeAll, Slot!places, Slot!output, Top,
           Tops, SlotInv
<1>2. ~PendingData'
  BY <1>1, AppliedIs DEF PendingData
<1>3. CASE stack' = <<>> \o Tail(stack)
  <2>1. /\ stack' \in Seq(Stages) /\ stack' # <<>> /\ ShapeOf(stack', pass'.mode)
        /\ Members(stack') = Below /\ Top' = stack[2] /\ Below' \subseteq Below
        /\ Adj(Top, stack[2], Below)
    BY <1>1, <1>2, <1>3, Leaves
  <2>2. Tops'
    BY <1>1, <1>2, <1>3, <2>1 DEF Tops, Adj, SlotInv
  <2>3. Due'
    BY <1>1, <1>2, <1>3, <2>1, Standing
       DEF Due, Owed, Seen, SlotInv, Has, Again, InCascade, WaitsLater
  <2> QED
    BY <2>1, <2>2, <2>3 DEF SlotInv
<1> QED
  BY <1>3 DEF Slot!Commit, Slot!Goto

LEMMA MarkKeeps ==
  ASSUME SlotTypes, SlotInv, Slot!Mark
  PROVE  SlotInv'
<1>1. /\ running = 0 /\ stack # <<>> /\ Top = "mark" /\ batch = <<>>
      /\ UNCHANGED <<time, wait, queue, lists, batch, running>>
      /\ pass'.wrote = pass.wrote /\ pass'.mode = pass.mode
      /\ pass'.rechecked = pass.rechecked
      /\ pass'.defer = pass.defer /\ pass'.noted = pass.noted
      /\ sig'.nba = sig.nba /\ sig'.hops = sig.hops
  BY
       DEF Slot!Mark, Slot!At, Slot!Skip, Slot!TakeAll, Slot!places, Slot!output, Top,
           Tops, SlotInv, SlotTypes, Passes, Sigs
<1>2. Fits("mark", Below, pass.mode) /\ Members(stack) = {"mark"} \cup Below
  BY <1>1, Standing
<1>3. CASE stack' = <<>> \o Tail(stack)
  <2>1. /\ stack' \in Seq(Stages) /\ stack' # <<>> /\ ShapeOf(stack', pass'.mode)
        /\ Members(stack') = Below /\ Top' = stack[2] /\ Below' \subseteq Below
        /\ Adj(Top, stack[2], Below)
    BY <1>1, <1>2, <1>3, Leaves
  <2>2. Tops'
    BY <1>1, <1>2, <1>3, <2>1 DEF Tops, Adj, SlotInv, Fits
  <2>3. Due'
    BY <1>1, <1>2, <1>3, <2>1, Standing
       DEF Due, Owed, Seen, SlotInv, Has, Again, PendingData, InCascade, WaitsLater, Fits, Drains
  <2> QED
    BY <2>1, <2>2, <2>3 DEF SlotInv
<1> QED
  BY <1>3 DEF Slot!Mark, Slot!Goto

LEMMA ClockingKeeps ==
  ASSUME SlotTypes, SlotInv, Slot!Clocking
  PROVE  SlotInv'
<1>1. /\ running = 0 /\ stack # <<>> /\ Top = "clocking" /\ batch = <<>>
      /\ UNCHANGED <<time, wait, queue, lists, batch, running, sig>>
      /\ pass'.moved = pass.moved /\ pass'.mode = pass.mode
      /\ pass'.rechecked = pass.rechecked
      /\ pass'.defer = pass.defer /\ pass'.noted = pass.noted
  BY
       DEF Slot!Clocking, Slot!At, Slot!Skip, Slot!TakeAll, Slot!places, Slot!output,
           Top, Tops, SlotInv, SlotTypes, Passes
<1>2. "clockingEnd" \notin Below
  BY <1>1, Standing DEF Fits
<1>3. CASE stack' = <<"clockingRun">> \o Tail(stack)
  <2>1. Fits("clockingRun", Below, pass.mode)
    BY <1>1, <1>2, <1>3, Standing DEF Fits, Drains, WaitsLater, InCascade, InWait, IsLate
  <2>2. Tail(stack) # <<>> => Adj("clockingRun", stack[2], Below)
    BY <1>1, <1>2, <1>3, Standing DEF Adj
  <2>3. /\ stack' \in Seq(Stages) /\ stack' # <<>> /\ ShapeOf(stack', pass'.mode)
        /\ Members(stack') = {"clockingRun"} \cup Below /\ Top' = "clockingRun" /\ Below' = Below
    BY <1>1, <1>2, <1>3, <2>1, <2>2, Enters DEF Stages
  <2>4. Tops'
    BY <1>1, <1>2, <1>3, <2>3 DEF Tops, SlotInv, Drains, InCascade, WaitsLater
  <2>5. Due'
    BY <1>1, <1>2, <1>3, <2>3, Standing
       DEF Due, Owed, Seen, SlotInv, Has, Again, PendingData, InCascade, WaitsLater
  <2> QED
    BY <2>3, <2>4, <2>5 DEF SlotInv
<1> QED
  BY <1>3 DEF Slot!Clocking, Slot!Goto

LEMMA ClockingNoneKeeps ==
  ASSUME SlotTypes, SlotInv, Slot!ClockingNone
  PROVE  SlotInv'
<1>1. /\ running = 0 /\ stack # <<>> /\ Top = "clocking" /\ batch = <<>>
      /\ UNCHANGED <<time, wait, queue, lists, batch, running, sig, pass>>
      /\ lists["clocking"] = <<>>
  BY
       DEF Slot!ClockingNone, Slot!At, Slot!Skip, Slot!TakeAll, Slot!places, Slot!output,
           Top, Tops, SlotInv
<1>2. CASE stack' = <<>> \o Tail(stack)
  <2>1. /\ stack' \in Seq(Stages) /\ stack' # <<>> /\ ShapeOf(stack', pass'.mode)
        /\ Members(stack') = Below /\ Top' = stack[2] /\ Below' \subseteq Below
        /\ Adj(Top, stack[2], Below)
    BY <1>1, <1>2, Leaves
  <2>2. Tops'
    BY <1>1, <1>2, <2>1 DEF Tops, Adj, SlotInv
  <2>3. Due'
    BY <1>1, <1>2, <2>1, Standing
       DEF Due, Owed, Seen, SlotInv, Has, Again, PendingData, InCascade, WaitsLater
  <2> QED
    BY <2>1, <2>2, <2>3 DEF SlotInv
<1> QED
  BY <1>2 DEF Slot!ClockingNone, Slot!Skip, Slot!Goto

LEMMA ClockingRunKeeps ==
  ASSUME SlotTypes, SlotInv, Slot!ClockingRun
  PROVE  SlotInv'
<1>1. /\ running = 0 /\ stack # <<>> /\ Top = "clockingRun" /\ batch = <<>>
      /\ UNCHANGED <<time, wait, queue, running, sig, pass>>
  BY
       DEF Slot!ClockingRun, Slot!At, Slot!Skip, Slot!TakeAll, Slot!places, Slot!output,
           Top, Tops, SlotInv
<1>2. "clockingEnd" \notin Below
  BY <1>1, Standing DEF Fits
<1>3. CASE /\ stack' = <<"run", "clockingRun">> \o Tail(stack)
           /\ lists'["clocking"] = <<>> /\ SameBut(lists', {"clocking"})
  <2>1. Fits("clockingRun", Below, pass.mode)
    BY <1>1, <1>2, <1>3, Standing DEF Fits, Drains, WaitsLater, InCascade, InWait, IsLate
  <2>2. Tail(stack) # <<>> => Adj("clockingRun", stack[2], Below)
    BY <1>1, <1>2, <1>3, Standing DEF Adj
  <2>3. Fits("run", {"clockingRun"} \cup Below, pass.mode)
    BY <2>1 DEF Fits, Drains, WaitsLater, InCascade, InWait, IsLate
  <2>4. Adj("run", "clockingRun", {"clockingRun"} \cup Below)
    BY DEF Adj
  <2>5. /\ stack' \in Seq(Stages) /\ stack' # <<>> /\ ShapeOf(stack', pass'.mode)
        /\ Members(stack') = {"run", "clockingRun"} \cup Below /\ Top' = "run"
        /\ Below' = {"clockingRun"} \cup Below /\ stack'[2] = "clockingRun"
    BY <1>1, <1>2, <1>3, <2>1, <2>2, <2>3, <2>4, EntersTwo DEF Stages
  <2>6. Tops'
    BY <1>1, <1>2, <1>3, <2>5 DEF Tops, SlotInv, Drains, InCascade, WaitsLater
  <2>7. Due'
    BY <1>1, <1>2, <1>3, <2>5, Standing
       DEF Due, Owed, Seen, SlotInv, Has, Again, PendingData, InCascade, WaitsLater, SameBut
  <2> QED
    BY <2>5, <2>6, <2>7 DEF SlotInv
<1>4. CASE /\ stack' = <<"edges", "cascade", "clockingEnd">> \o Tail(stack)
           /\ pass.wrote /\ lists["clocking"] = <<>> /\ UNCHANGED <<lists, batch>>
  <2>1. Fits("clockingEnd", Below, pass.mode)
    BY <1>1, <1>2, <1>4, Standing DEF Fits, Drains, WaitsLater, InCascade, InWait, IsLate
  <2>2. Tail(stack) # <<>> => Adj("clockingEnd", stack[2], Below)
    BY <1>1, <1>2, <1>4, Standing DEF Adj
  <2>3. Fits("cascade", {"clockingEnd"} \cup Below, pass.mode)
    BY <2>1, <1>1, <1>2, <1>4, Standing
       DEF Fits, Drains, WaitsLater, InCascade, InWait, IsLate
  <2>4. Fits("edges", {"cascade", "clockingEnd"} \cup Below, pass.mode)
    BY <2>1, <2>3, <1>1, <1>2, <1>4, Standing
       DEF Fits, Drains, WaitsLater, InCascade, InWait, IsLate
  <2>5. Adj("cascade", "clockingEnd", {"clockingEnd"} \cup Below) /\ Adj("edges", "cascade", {"cascade", "clockingEnd"} \cup Below)
    BY <1>1, <1>2, <1>4, Standing DEF Adj, Fits, IsLate
  <2>6. /\ stack' \in Seq(Stages) /\ stack' # <<>> /\ ShapeOf(stack', pass'.mode)
        /\ Members(stack') = {"edges", "cascade", "clockingEnd"} \cup Below /\ Top' = "edges"
        /\ Below' = {"cascade", "clockingEnd"} \cup Below /\ stack'[2] = "cascade"
    <3>1. "edges" \in Stages /\ "cascade" \in Stages /\ "clockingEnd" \in Stages
      BY DEF Stages
    <3> QED
      BY <1>1, <1>2, <1>4, <2>1, <2>2, <2>3, <2>4, <2>5, <3>1, EntersThree
  <2>7. Tops'
    BY <1>1, <1>2, <1>4, <2>6 DEF Tops, SlotInv, Drains, InCascade, WaitsLater
  <2>8. Due'
    BY <1>1, <1>2, <1>4, <2>6, Standing
       DEF Due, Owed, Seen, SlotInv, Has, Again, PendingData, InCascade, WaitsLater
  <2> QED
    BY <2>6, <2>7, <2>8 DEF SlotInv
<1>5. CASE /\ stack' = <<"clockingEnd">> \o Tail(stack)
           /\ lists["clocking"] = <<>> /\ UNCHANGED <<lists, batch>>
  <2>1. Fits("clockingEnd", Below, pass.mode)
    BY <1>1, <1>2, <1>5, Standing DEF Fits, Drains, WaitsLater, InCascade, InWait, IsLate
  <2>2. Tail(stack) # <<>> => Adj("clockingEnd", stack[2], Below)
    BY <1>1, <1>2, <1>5, Standing DEF Adj
  <2>3. /\ stack' \in Seq(Stages) /\ stack' # <<>> /\ ShapeOf(stack', pass'.mode)
        /\ Members(stack') = {"clockingEnd"} \cup Below /\ Top' = "clockingEnd" /\ Below' = Below
    BY <1>1, <1>2, <1>5, <2>1, <2>2, Enters DEF Stages
  <2>4. Tops'
    BY <1>1, <1>2, <1>5, <2>3 DEF Tops, SlotInv, Drains, InCascade, WaitsLater
  <2>5. Due'
    BY <1>1, <1>2, <1>5, <2>3, Standing
       DEF Due, Owed, Seen, SlotInv, Has, Again, PendingData, InCascade, WaitsLater
  <2> QED
    BY <2>3, <2>4, <2>5 DEF SlotInv
<1>6. <<"run">> \o <<"clockingRun">> = <<"run", "clockingRun">>
  BY Pair DEF Stages
<1>7. CASE lists["clocking"] # <<>>
  BY <1>3, <1>6, <1>7
     DEF Slot!ClockingRun, Slot!TakeAll, Slot!Goto, Slot!Skip, SlotTypes, ListNames, SameBut
<1>8. CASE lists["clocking"] = <<>>
  BY <1>4, <1>5, <1>8 DEF Slot!ClockingRun, Slot!TakeAll, Slot!Goto, Slot!Skip, Slot!places
<1> QED
  BY <1>7, <1>8

LEMMA ClockingEndKeeps ==
  ASSUME SlotTypes, SlotInv, Slot!ClockingEnd
  PROVE  SlotInv'
<1>1. /\ running = 0 /\ stack # <<>> /\ Top = "clockingEnd" /\ batch = <<>>
      /\ UNCHANGED <<time, wait, queue, lists, batch, running, sig>>
      /\ pass'.wrote = pass.wrote /\ pass'.mode = pass.mode
      /\ pass'.rechecked = pass.rechecked
      /\ pass'.defer = pass.defer /\ pass'.noted = pass.noted
      /\ pass.moved \/ pass.wrote => pass'.moved
  BY
       DEF Slot!ClockingEnd, Slot!At, Slot!Skip, Slot!TakeAll, Slot!places, Slot!output,
           Top, Tops, SlotInv, SlotTypes, Passes
<1>2. PendingData => pass'.moved
  BY DEF Slot!ClockingEnd, Slot!Pending, Slot!PendingData, PendingData, NoNba, Slot!NoNba,
         SlotTypes, Passes
<1>3. IsLate(Below)
  BY <1>1, Standing DEF Fits
<1>4. CASE stack' = <<>> \o Tail(stack)
  <2>1. /\ stack' \in Seq(Stages) /\ stack' # <<>> /\ ShapeOf(stack', pass'.mode)
        /\ Members(stack') = Below /\ Top' = stack[2] /\ Below' \subseteq Below
        /\ Adj(Top, stack[2], Below)
    BY <1>1, <1>2, <1>3, <1>4, Leaves
  <2>2. Tops'
    BY <1>1, <1>2, <1>3, <1>4, <2>1 DEF Tops, Adj, SlotInv, IsLate
  <2>3. Due'
    BY <1>1, <1>2, <1>3, <1>4, <2>1, Standing
       DEF Due, Owed, Seen, SlotInv, Has, Again, PendingData, InCascade, WaitsLater, IsLate
  <2> QED
    BY <2>1, <2>2, <2>3 DEF SlotInv
<1> QED
  BY <1>4 DEF Slot!ClockingEnd, Slot!Goto

LEMMA ReactiveKeeps ==
  ASSUME SlotTypes, SlotInv, Slot!Reactive
  PROVE  SlotInv'
<1>1. /\ running = 0 /\ stack # <<>> /\ Top = "reactive" /\ batch = <<>>
      /\ UNCHANGED <<time, wait, queue, running, sig>>
      /\ pass'.wrote = pass.wrote /\ pass'.mode = pass.mode
      /\ pass'.rechecked = pass.rechecked
      /\ pass'.defer = pass.defer /\ pass'.noted = pass.noted
  BY
       DEF Slot!Reactive, Slot!At, Slot!Skip, Slot!TakeAll, Slot!places, Slot!output,
           Top, Tops, SlotInv, SlotTypes, Passes
<1>2. CASE /\ stack' = <<"run", "reactive">> \o Tail(stack) /\ pass'.moved
           /\ lists'["reactive"] = <<>> /\ SameBut(lists', {"reactive"})
  <2>1. Fits("reactive", Below, pass.mode)
    BY <1>1, <1>2, Standing DEF Fits, Drains, WaitsLater, InCascade, InWait, IsLate
  <2>2. Tail(stack) # <<>> => Adj("reactive", stack[2], Below)
    BY <1>1, <1>2, Standing DEF Adj
  <2>3. Fits("run", {"reactive"} \cup Below, pass.mode)
    BY <2>1 DEF Fits, Drains, WaitsLater, InCascade, InWait, IsLate
  <2>4. Adj("run", "reactive", {"reactive"} \cup Below)
    BY DEF Adj
  <2>5. /\ stack' \in Seq(Stages) /\ stack' # <<>> /\ ShapeOf(stack', pass'.mode)
        /\ Members(stack') = {"run", "reactive"} \cup Below /\ Top' = "run"
        /\ Below' = {"reactive"} \cup Below /\ stack'[2] = "reactive"
    BY <1>1, <1>2, <2>1, <2>2, <2>3, <2>4, EntersTwo DEF Stages
  <2>6. Tops'
    BY <1>1, <1>2, <2>5 DEF Tops, SlotInv, Drains, InCascade, WaitsLater
  <2>7. Due'
    BY <1>1, <1>2, <2>5, Standing
       DEF Due, Owed, Seen, SlotInv, Has, Again, PendingData, InCascade, WaitsLater, SameBut
  <2> QED
    BY <2>5, <2>6, <2>7 DEF SlotInv
<1>3. CASE /\ stack' = <<>> \o Tail(stack) /\ UNCHANGED <<lists, batch, pass>>
           /\ lists["reactive"] = <<>>
  <2>1. /\ stack' \in Seq(Stages) /\ stack' # <<>> /\ ShapeOf(stack', pass'.mode)
        /\ Members(stack') = Below /\ Top' = stack[2] /\ Below' \subseteq Below
        /\ Adj(Top, stack[2], Below)
    BY <1>1, <1>3, Leaves
  <2>2. Tops'
    BY <1>1, <1>3, <2>1 DEF Tops, Adj, SlotInv
  <2>3. Due'
    BY <1>1, <1>3, <2>1, Standing
       DEF Due, Owed, Seen, SlotInv, Has, Again, PendingData, InCascade, WaitsLater
  <2> QED
    BY <2>1, <2>2, <2>3 DEF SlotInv
<1>4. <<"run">> \o <<"reactive">> = <<"run", "reactive">>
  BY Pair DEF Stages
<1>5. CASE lists["reactive"] # <<>>
  <2>1. pass'.moved
    BY <1>5 DEF Slot!Reactive, SlotTypes, Passes
  <2> QED
    BY <1>2, <1>4, <1>5, <2>1
       DEF Slot!Reactive, Slot!TakeAll, Slot!Goto, Slot!Skip, SlotTypes, ListNames, SameBut
<1>6. CASE lists["reactive"] = <<>>
  BY <1>3, <1>6 DEF Slot!Reactive, Slot!TakeAll, Slot!Goto, Slot!Skip, Slot!places
<1> QED
  BY <1>5, <1>6

LEMMA HopsKeep ==
  ASSUME SlotTypes, SlotInv, Slot!Hops
  PROVE  SlotInv'
<1>1. /\ running = 0 /\ stack # <<>> /\ Top = "hops" /\ batch = <<>>
      /\ UNCHANGED <<time, wait, queue, running, sig>>
      /\ pass'.wrote = pass.wrote /\ pass'.mode = pass.mode
      /\ pass'.rechecked = pass.rechecked
      /\ pass'.defer = pass.defer /\ pass'.noted = pass.noted
  BY
       DEF Slot!Hops, Slot!At, Slot!Skip, Slot!TakeAll, Slot!places, Slot!output, Top,
           Tops, SlotInv, SlotTypes, Passes
<1>2. CASE /\ stack' = <<"run">> \o Tail(stack) /\ pass'.moved
           /\ lists'["hops"] = <<>> /\ SameBut(lists', {"hops"})
  <2>1. Fits("run", Below, pass.mode)
    BY <1>1, <1>2, Standing DEF Fits, Drains, WaitsLater, InCascade, InWait, IsLate
  <2>2. Tail(stack) # <<>> => Adj("run", stack[2], Below)
    BY <1>1, <1>2, Standing DEF Adj
  <2>3. /\ stack' \in Seq(Stages) /\ stack' # <<>> /\ ShapeOf(stack', pass'.mode)
        /\ Members(stack') = {"run"} \cup Below /\ Top' = "run" /\ Below' = Below
    BY <1>1, <1>2, <2>1, <2>2, Enters DEF Stages
  <2>4. Tops'
    <3>1. "commit" \notin Below
      BY <1>1, Standing DEF Fits, IsLate
    <3> QED
      BY <1>1, <1>2, <2>3, <3>1 DEF Tops, SlotInv, Drains, InCascade, WaitsLater
  <2>5. Due'
    BY <1>1, <1>2, <2>3, Standing
       DEF Due, Owed, Seen, SlotInv, Has, Again, PendingData, InCascade, WaitsLater, SameBut
  <2> QED
    BY <2>3, <2>4, <2>5 DEF SlotInv
<1>3. CASE /\ stack' = <<>> \o Tail(stack) /\ UNCHANGED <<lists, batch, pass>>
           /\ \/ lists["hops"] = <<>> \/ queue[time] # <<>> \/ lists["inactive"] # <<>>
  <2>1. /\ stack' \in Seq(Stages) /\ stack' # <<>> /\ ShapeOf(stack', pass'.mode)
        /\ Members(stack') = Below /\ Top' = stack[2] /\ Below' \subseteq Below
        /\ Adj(Top, stack[2], Below)
    BY <1>1, <1>3, Leaves
  <2>2. Tops'
    BY <1>1, <1>3, <2>1 DEF Tops, Adj, SlotInv
  <2>3. Due'
    BY <1>1, <1>3, <2>1, Standing
       DEF Due, Owed, Seen, SlotInv, Has, Again, PendingData, InCascade, WaitsLater
  <2> QED
    BY <2>1, <2>2, <2>3 DEF SlotInv
<1> DEFINE due == lists["hops"] # <<>> /\ queue[time] = <<>> /\ lists["inactive"] = <<>>
<1>4. CASE due
  <2>1. pass'.moved
    BY <1>4 DEF Slot!Hops, SlotTypes, Passes
  <2>2. <<"run">> \o <<>> = <<"run">>
    OBVIOUS
  <2>3. /\ stack' = <<"run">> \o Tail(stack)
        /\ lists'["hops"] = <<>> /\ SameBut(lists', {"hops"})
    BY <1>4, <2>2 DEF Slot!Hops, Slot!TakeAll, Slot!Goto, SlotTypes, ListNames, SameBut
  <2> QED
    BY <1>2, <2>1, <2>3
<1>5. CASE ~due
  BY <1>3, <1>5 DEF Slot!Hops, Slot!Goto, Slot!Skip, Slot!places
<1> QED
  BY <1>4, <1>5

LEMMA PostponedKeeps ==
  ASSUME SlotTypes, SlotInv, Slot!Postponed
  PROVE  SlotInv'
<1>1. /\ running = 0 /\ stack # <<>> /\ Top = "postponed" /\ batch = <<>>
      /\ UNCHANGED <<time, wait, queue, lists, batch, running, sig, pass>>
  BY
       DEF Slot!Postponed, Slot!At, Slot!Skip, Slot!TakeAll, Slot!places, Slot!output,
           Top, Tops, SlotInv
<1>2. CASE stack' = <<>> \o Tail(stack)
  <2>1. /\ stack' \in Seq(Stages) /\ stack' # <<>> /\ ShapeOf(stack', pass'.mode)
        /\ Members(stack') = Below /\ Top' = stack[2] /\ Below' \subseteq Below
        /\ Adj(Top, stack[2], Below)
    BY <1>1, <1>2, Leaves
  <2>2. Tops'
    BY <1>1, <1>2, <2>1 DEF Tops, Adj, SlotInv
  <2>3. Due'
    BY <1>1, <1>2, <2>1, Standing
       DEF Due, Owed, Seen, SlotInv, Has, Again, PendingData, InCascade, WaitsLater
  <2> QED
    BY <2>1, <2>2, <2>3 DEF SlotInv
<1> QED
  BY <1>2 DEF Slot!Postponed, Slot!Goto

LEMMA LateKeeps ==
  ASSUME SlotTypes, SlotInv, Slot!Late
  PROVE  SlotInv'
<1>1. /\ running = 0 /\ stack # <<>> /\ Top = "late" /\ batch = <<>>
      /\ UNCHANGED <<time, wait, queue, lists, batch, running, sig>>
      /\ pass'.wrote = pass.wrote /\ pass'.mode = pass.mode
      /\ pass'.rechecked = pass.rechecked
      /\ pass'.defer = pass.defer /\ pass'.noted = pass.noted
  BY
       DEF Slot!Late, Slot!At, Slot!Skip, Slot!TakeAll, Slot!places, Slot!output, Top,
           Tops, SlotInv, SlotTypes, Passes
<1>2. Below = {"promote", "loop"}
  BY <1>1, Standing DEF Fits
<1>3. CASE pass.moved /\ (pass.defer => pass.mode = "repass")
  <2>1. stack' = Slot!LatePass \o Tail(stack)
    BY <1>3 DEF Slot!Late, Slot!Goto
  <2>2. /\ stack' \in Seq(Stages) /\ stack' # <<>> /\ ShapeOf(stack', pass'.mode)
        /\ Top' = "edges"
        /\ Members(stack') = {"edges", "cascade", "clocking", "reactive", "hops",
                              "waitsRepass", "late", "promote", "loop"}
        /\ Below' = {"cascade", "clocking", "reactive", "hops", "waitsRepass", "late",
                     "promote", "loop"}
    <3> DEFINE r == Tail(stack)
    <3>1. /\ r \in Seq(Stages) /\ r # <<>> /\ ShapeOf(r, pass.mode)
          /\ Members(r) = {"promote", "loop"} /\ Head(r) \in Members(r)
      BY <1>1, <1>2, Standing DEF Below
    <3>2. stack' = Slot!LatePass \o r
      BY <2>1
    <3> HIDE DEF r
    <3> QED
      BY <1>1, <3>1, <3>2, LateShape DEF Top, Below
  <2>3. Tops'
    BY <1>1, <2>2 DEF Tops
  <2>4. Due'
    BY <1>1, <1>2, <2>2, Standing DEF Due, Owed, Seen, SlotInv, Has, Again, PendingData, InCascade, WaitsLater
  <2> QED
    BY <2>2, <2>3, <2>4 DEF SlotInv
<1>4. CASE (pass.moved => pass.defer) /\ stack' = <<>> \o Tail(stack)
  <2>1. /\ stack' \in Seq(Stages) /\ stack' # <<>> /\ ShapeOf(stack', pass'.mode)
        /\ Members(stack') = Below /\ Top' = stack[2] /\ Below' \subseteq Below
        /\ Adj(Top, stack[2], Below)
    BY <1>1, <1>2, <1>4, Leaves
  <2>2. Tops'
    BY <1>1, <1>2, <1>4, <2>1 DEF Tops, Adj, SlotInv
  <2>3. Due'
    BY <1>1, <1>2, <1>4, <2>1, Standing
       DEF Due, Owed, Seen, SlotInv, Has, Again, PendingData, InCascade, WaitsLater
  <2> QED
    BY <2>1, <2>2, <2>3 DEF SlotInv
<1> QED
  BY <1>3, <1>4 DEF Slot!Late, Slot!Goto

LEMMA PromoteLastKeeps ==
  ASSUME SlotTypes, SlotInv, Slot!PromoteLast
  PROVE  SlotInv'
<1>1. /\ running = 0 /\ stack # <<>> /\ Top = "promote" /\ batch = <<>>
      /\ stack' = <<>> \o Tail(stack)
      /\ UNCHANGED <<time, wait, batch, running, sig, pass>>
      /\ lists'["inactive"] = <<>> /\ SameBut(lists', {"inactive"})
      /\ queue'[time] = queue[time] \o lists["inactive"]
  BY DEF Slot!PromoteLast, Slot!Promote, Slot!At, Slot!Goto, Top, Tops, SlotInv, SlotTypes,
         ListNames, SameBut
<1>2. queue[time] # <<>> \/ lists["inactive"] # <<>> => queue'[time] # <<>>
  <2>1. queue[time] \in Seq(Procs) /\ lists["inactive"] \in Seq(Procs)
    BY DEF SlotTypes, ListNames
  <2> QED
    BY <1>1, <2>1, JoinNotEmpty
<1>3. Below = {"loop"}
  BY <1>1, Standing DEF Fits
<1>4. CASE TRUE
  <2>1. /\ stack' \in Seq(Stages) /\ stack' # <<>> /\ ShapeOf(stack', pass'.mode)
        /\ Members(stack') = Below /\ Top' = stack[2] /\ Below' \subseteq Below
        /\ Adj(Top, stack[2], Below)
    BY <1>1, <1>2, <1>3, <1>4, Leaves
  <2>2. Tops'
    BY <1>1, <1>2, <1>3, <1>4, <2>1 DEF Tops, Adj, SlotInv, Fits
  <2>3. Due'
    BY <1>1, <1>2, <1>3, <1>4, <2>1, Standing
       DEF Due, Owed, Seen, SlotInv, Has, Again, PendingData, InCascade, WaitsLater, SameBut
  <2> QED
    BY <2>1, <2>2, <2>3 DEF SlotInv
<1> QED
  BY <1>4
-----------------------------------------------------------------------------
(***************************************************************************)
(* Where every process is.                                                 *)
(***************************************************************************)
InList(l)  == <<"list", l>>
InQueue(t) == <<"queue", t>>
InBatch    == <<"batch", 0>>
OnCpu      == <<"running", 0>>
Nowhere    == <<"none", 0>>

Spots == {InList(l) : l \in ListNames} \cup {InQueue(t) : t \in Times}
         \cup {InBatch, OnCpu, Nowhere}

On(loc, x) == {p \in Procs : loc[p] = x}
Idle(w)    == {p \in Procs : w[p].on \in {"unborn", "gone"}}

\* loc says where each process is.
Placed(loc, ls, q, b, r, w) ==
    /\ \A p \in Procs : loc[p] \in Spots
    /\ ls \in [ListNames -> Seq(Procs)] /\ q \in [Times -> Seq(Procs)]
    /\ r \in Procs \cup {0} /\ w \in [Procs -> Waits]
    /\ \A l \in ListNames : Orderly(ls[l]) /\ Members(ls[l]) = On(loc, InList(l))
    /\ \A t \in Times : Orderly(q[t]) /\ Members(q[t]) = On(loc, InQueue(t))
    /\ Orderly(b) /\ Members(b) = On(loc, InBatch)
    /\ {r} \cap Procs = On(loc, OnCpu)
    /\ Idle(w) = On(loc, Nowhere)

\* The processes of M go to x.
Move(loc, M, x) == [p \in Procs |-> IF p \in M THEN x ELSE loc[p]]


\* What is at z, when those of M, who were at x, have gone to y.
Then(x, y, M, z, S) == IF z = y THEN S \cup M ELSE IF z = x THEN S \ M ELSE S

\* Every process is somewhere, and nowhere else.
Apart(ls, q, b, r, w) == \E loc : Placed(loc, ls, q, b, r, w)

LEMMA PlacesDiffer ==
  /\ \A l, m \in ListNames : l # m => InList(l) # InList(m)
  /\ \A t, u \in Times : t # u => InQueue(t) # InQueue(u)
  /\ \A l : InList(l) # InBatch /\ InList(l) # OnCpu /\ InList(l) # Nowhere
  /\ \A t : InQueue(t) # InBatch /\ InQueue(t) # OnCpu /\ InQueue(t) # Nowhere
  /\ \A l, t : InList(l) # InQueue(t)
  /\ InBatch # OnCpu /\ InBatch # Nowhere /\ OnCpu # Nowhere
BY DEF InList, InQueue, InBatch, OnCpu, Nowhere

LEMMA OnMove ==
  ASSUME NEW loc, NEW x, NEW y, x # y, NEW M, M \subseteq On(loc, x), NEW z
  PROVE  On(Move(loc, M, y), z) = Then(x, y, M, z, On(loc, z))
<1>1. CASE z = y
  BY <1>1 DEF On, Move, Then
<1>2. CASE z # y
  BY <1>2 DEF On, Move, Then
<1> QED
  BY <1>1, <1>2

LEMMA OnDiffer ==
  ASSUME NEW loc, NEW x, NEW y, x # y, NEW M, M \subseteq On(loc, x)
  PROVE  On(loc, y) \cap M = {} /\ M \subseteq Procs
BY DEF On

LEMMA NoProcess == {0} \cap Procs = {} /\ 0 \notin Procs
BY SlotAssumption DEF Procs

\* Those of M go from x to y, and nothing else happens: in the lists, ...
Shifted(ls, ls2, x, y, M) ==
    /\ ls2 \in [ListNames -> Seq(Procs)]
    /\ \A l \in ListNames : /\ Orderly(ls2[l])
                            /\ Members(ls2[l]) = Then(x, y, M, InList(l), Members(ls[l]))

\* ... in the queue, ...
Requeued(q, q2, x, y, M) ==
    /\ q2 \in [Times -> Seq(Procs)]
    /\ \A t \in Times : /\ Orderly(q2[t])
                        /\ Members(q2[t]) = Then(x, y, M, InQueue(t), Members(q[t]))

\* ... in the batch, at the processor and among those that do not take part.
Rebatched(b, b2, x, y, M) ==
    Orderly(b2) /\ Members(b2) = Then(x, y, M, InBatch, Members(b))

Switched(r, r2, x, y, M) ==
    r2 \in Procs \cup {0} /\ {r2} \cap Procs = Then(x, y, M, OnCpu, {r} \cap Procs)

Reborn(w, w2, x, y, M) ==
    w2 \in [Procs -> Waits] /\ Idle(w2) = Then(x, y, M, Nowhere, Idle(w))

LEMMA Shift ==
  ASSUME NEW loc, NEW ls, NEW q, NEW b, NEW r, NEW w, Placed(loc, ls, q, b, r, w),
         NEW ls2, NEW q2, NEW b2, NEW r2, NEW w2,
         NEW x, NEW y \in Spots, x # y, NEW M, M \subseteq On(loc, x),
         Shifted(ls, ls2, x, y, M), Requeued(q, q2, x, y, M), Rebatched(b, b2, x, y, M),
         Switched(r, r2, x, y, M), Reborn(w, w2, x, y, M)
  PROVE  Apart(ls2, q2, b2, r2, w2)
<1> DEFINE there == Move(loc, M, y)
<1>1. ASSUME NEW z PROVE On(there, z) = Then(x, y, M, z, On(loc, z))
  BY OnMove
<1>3. \A p \in Procs : there[p] \in Spots
  BY DEF Placed, Move
<1> HIDE DEF there
<1>2. Placed(there, ls2, q2, b2, r2, w2)
  BY <1>1, <1>3 DEF Placed, Shifted, Requeued, Rebatched, Switched, Reborn
<1> QED
  BY <1>2 DEF Apart

\* Where nothing comes or goes.
LEMMA Still ==
  ASSUME NEW loc, NEW ls, NEW q, NEW b, NEW r, NEW w, Placed(loc, ls, q, b, r, w),
         NEW x, NEW y, NEW M
  PROVE  /\ (\A l \in ListNames : x # InList(l) /\ y # InList(l)) => Shifted(ls, ls, x, y, M)
         /\ (\A t \in Times : x # InQueue(t) /\ y # InQueue(t)) => Requeued(q, q, x, y, M)
         /\ x # InBatch /\ y # InBatch => Rebatched(b, b, x, y, M)
         /\ x # OnCpu /\ y # OnCpu => Switched(r, r, x, y, M)
         /\ x # Nowhere /\ y # Nowhere =>
               \A v \in [Procs -> Waits] : Idle(v) = Idle(w) => Reborn(w, v, x, y, M)
BY DEF Placed, Then, Shifted, Requeued, Rebatched, Switched, Reborn

\* One list gets M, another loses them.
LEMMA ListGets ==
  ASSUME NEW ls \in [ListNames -> Seq(Procs)], \A m \in ListNames : Orderly(ls[m]),
         NEW l \in ListNames, NEW u, Orderly(u), Members(ls[l]) \cap Members(u) = {},
         NEW x, \A m \in ListNames : x # InList(m)
  PROVE  Shifted(ls, [ls EXCEPT ![l] = @ \o u], x, InList(l), Members(u))
<1> DEFINE c == [ls EXCEPT ![l] = @ \o u]
<1>1. /\ Orderly(ls[l] \o u)
      /\ Members(ls[l] \o u) = Members(ls[l]) \cup Members(u)
  BY JoinOnce
<1>2. /\ c \in [ListNames -> Seq(Procs)]
      /\ c[l] = ls[l] \o u /\ \A m \in ListNames : m # l => c[m] = ls[m]
  BY <1>1 DEF Orderly
<1> HIDE DEF c
<1>3. ASSUME NEW m \in ListNames
      PROVE  /\ Orderly(c[m])
             /\ Members(c[m]) = Then(x, InList(l), Members(u), InList(m), Members(ls[m]))
  BY <1>1, <1>2, PlacesDiffer DEF Then
<1>4. Shifted(ls, c, x, InList(l), Members(u))
  BY <1>2, <1>3 DEF Shifted
<1> QED
  BY <1>4 DEF c

LEMMA ListLoses ==
  ASSUME NEW ls \in [ListNames -> Seq(Procs)], \A m \in ListNames : Orderly(ls[m]),
         NEW l \in ListNames, NEW u, Orderly(u), NEW M, Members(u) = Members(ls[l]) \ M,
         NEW y, \A m \in ListNames : y # InList(m)
  PROVE  Shifted(ls, [ls EXCEPT ![l] = u], InList(l), y, M)
<1> DEFINE c == [ls EXCEPT ![l] = u]
<1>1. /\ c \in [ListNames -> Seq(Procs)]
      /\ c[l] = u /\ \A m \in ListNames : m # l => c[m] = ls[m]
  BY DEF Orderly
<1> HIDE DEF c
<1>2. ASSUME NEW m \in ListNames
      PROVE  /\ Orderly(c[m])
             /\ Members(c[m]) = Then(InList(l), y, M, InList(m), Members(ls[m]))
  BY <1>1, PlacesDiffer DEF Then
<1>3. Shifted(ls, c, InList(l), y, M)
  BY <1>1, <1>2 DEF Shifted
<1> QED
  BY <1>3 DEF c

LEMMA ListsTrade ==
  ASSUME NEW ls \in [ListNames -> Seq(Procs)], \A m \in ListNames : Orderly(ls[m]),
         NEW l \in ListNames, NEW k \in ListNames, k # l,
         NEW v, Orderly(v), Members(ls[k]) \cap Members(v) = {},
         NEW u, Orderly(u), Members(u) = Members(ls[l]) \ Members(v)
  PROVE  Shifted(ls, [ls EXCEPT ![k] = @ \o v, ![l] = u], InList(l), InList(k), Members(v))
<1> DEFINE c == [ls EXCEPT ![k] = @ \o v, ![l] = u]
<1>1. /\ Orderly(ls[k] \o v)
      /\ Members(ls[k] \o v) = Members(ls[k]) \cup Members(v)
  BY JoinOnce
<1>2. /\ c \in [ListNames -> Seq(Procs)]
      /\ c[l] = u /\ c[k] = ls[k] \o v /\ \A m \in ListNames : m # l /\ m # k => c[m] = ls[m]
  BY <1>1 DEF Orderly
<1> HIDE DEF c
<1>3. ASSUME NEW m \in ListNames
      PROVE  /\ Orderly(c[m])
             /\ Members(c[m]) = Then(InList(l), InList(k), Members(v), InList(m), Members(ls[m]))
  <2>1. CASE m = l
    BY <1>2, <2>1, PlacesDiffer DEF Then
  <2>2. CASE m = k
    BY <1>1, <1>2, <2>2 DEF Then
  <2>3. CASE m # l /\ m # k
    BY <1>2, <2>3, PlacesDiffer DEF Then
  <2> QED
    BY <2>1, <2>2, <2>3
<1>4. Shifted(ls, c, InList(l), InList(k), Members(v))
  BY <1>2, <1>3 DEF Shifted
<1> QED
  BY <1>4 DEF c

\* The same for the times of the queue.
LEMMA QueueGets ==
  ASSUME NEW q \in [Times -> Seq(Procs)], \A n \in Times : Orderly(q[n]),
         NEW t \in Times, NEW u, Orderly(u), Members(q[t]) \cap Members(u) = {},
         NEW x, \A n \in Times : x # InQueue(n)
  PROVE  Requeued(q, [q EXCEPT ![t] = @ \o u], x, InQueue(t), Members(u))
<1> DEFINE c == [q EXCEPT ![t] = @ \o u]
<1>1. /\ Orderly(q[t] \o u)
      /\ Members(q[t] \o u) = Members(q[t]) \cup Members(u)
  BY JoinOnce
<1>2. /\ c \in [Times -> Seq(Procs)]
      /\ c[t] = q[t] \o u /\ \A n \in Times : n # t => c[n] = q[n]
  BY <1>1 DEF Orderly
<1> HIDE DEF c
<1>3. ASSUME NEW n \in Times
      PROVE  /\ Orderly(c[n])
             /\ Members(c[n]) = Then(x, InQueue(t), Members(u), InQueue(n), Members(q[n]))
  BY <1>1, <1>2, PlacesDiffer DEF Then
<1>4. Requeued(q, c, x, InQueue(t), Members(u))
  BY <1>2, <1>3 DEF Requeued
<1> QED
  BY <1>4 DEF c

LEMMA QueueLoses ==
  ASSUME NEW q \in [Times -> Seq(Procs)], \A n \in Times : Orderly(q[n]),
         NEW t \in Times, NEW u, Orderly(u), NEW M, Members(u) = Members(q[t]) \ M,
         NEW y, \A n \in Times : y # InQueue(n)
  PROVE  Requeued(q, [q EXCEPT ![t] = u], InQueue(t), y, M)
<1> DEFINE c == [q EXCEPT ![t] = u]
<1>1. /\ c \in [Times -> Seq(Procs)]
      /\ c[t] = u /\ \A n \in Times : n # t => c[n] = q[n]
  BY DEF Orderly
<1> HIDE DEF c
<1>2. ASSUME NEW n \in Times
      PROVE  /\ Orderly(c[n])
             /\ Members(c[n]) = Then(InQueue(t), y, M, InQueue(n), Members(q[n]))
  BY <1>1, PlacesDiffer DEF Then
<1>3. Requeued(q, c, InQueue(t), y, M)
  BY <1>1, <1>2 DEF Requeued
<1> QED
  BY <1>3 DEF c

LEMMA QueuesTrade ==
  ASSUME NEW q \in [Times -> Seq(Procs)], \A n \in Times : Orderly(q[n]),
         NEW t \in Times, NEW k \in Times, k # t,
         NEW v, Orderly(v), Members(q[k]) \cap Members(v) = {},
         NEW u, Orderly(u), Members(u) = Members(q[t]) \ Members(v)
  PROVE  Requeued(q, [q EXCEPT ![k] = @ \o v, ![t] = u], InQueue(t), InQueue(k), Members(v))
<1> DEFINE c == [q EXCEPT ![k] = @ \o v, ![t] = u]
<1>1. /\ Orderly(q[k] \o v)
      /\ Members(q[k] \o v) = Members(q[k]) \cup Members(v)
  BY JoinOnce
<1>2. /\ c \in [Times -> Seq(Procs)]
      /\ c[t] = u /\ c[k] = q[k] \o v /\ \A n \in Times : n # t /\ n # k => c[n] = q[n]
  BY <1>1 DEF Orderly
<1> HIDE DEF c
<1>3. ASSUME NEW n \in Times
      PROVE  /\ Orderly(c[n])
             /\ Members(c[n]) = Then(InQueue(t), InQueue(k), Members(v), InQueue(n), Members(q[n]))
  <2>1. CASE n = t
    BY <1>2, <2>1, PlacesDiffer DEF Then
  <2>2. CASE n = k
    BY <1>1, <1>2, <2>2 DEF Then
  <2>3. CASE n # t /\ n # k
    BY <1>2, <2>3, PlacesDiffer DEF Then
  <2> QED
    BY <2>1, <2>2, <2>3
<1>4. Requeued(q, c, InQueue(t), InQueue(k), Members(v))
  BY <1>2, <1>3 DEF Requeued
<1> QED
  BY <1>4 DEF c

LEMMA OneOf ==
  ASSUME NEW p \in Procs
  PROVE  Orderly(<<p>>) /\ Members(<<p>>) = {p}
BY DEF Orderly, Once, Members

LEMMA AppendIs ==
  ASSUME NEW s \in Seq(Procs), NEW p \in Procs
  PROVE  Append(s, p) = s \o <<p>>
OBVIOUS

\* The process that ran is parked in a list ...
LEMMA ParkPlaced ==
  ASSUME NEW ls, NEW q, NEW b, NEW r, NEW w, Apart(ls, q, b, r, w),
         r \in Procs, NEW l \in ListNames, NEW v \in [Procs -> Waits], Idle(v) = Idle(w)
  PROVE  Apart([ls EXCEPT ![l] = Append(@, r)], q, b, 0, v)
<1>1. PICK loc : Placed(loc, ls, q, b, r, w)
  BY DEF Apart
<1> DEFINE x == OnCpu
           y == InList(l)
           M == {r}
           ls2 == [ls EXCEPT ![l] = Append(@, r)]
           q2 == q
           b2 == b
           r2 == 0
           w2 == v
<1>2. M \subseteq On(loc, x) /\ x # y
  <2>1. {r} \cap Procs = On(loc, OnCpu)
    BY <1>1 DEF Placed
  <2> QED
    BY <2>1, PlacesDiffer
<1>0. y \in Spots
  BY DEF Spots
<1>3. On(loc, y) \cap M = {} /\ M \subseteq Procs
  <2> HIDE DEF x, y, M
  <2> QED
    BY <1>2, OnDiffer
<1>4. Shifted(ls, ls2, x, y, M)
  <2>1. /\ ls \in [ListNames -> Seq(Procs)] /\ \A m \in ListNames : Orderly(ls[m])
        /\ Members(ls[l]) \cap {r} = {}
    BY <1>1, <1>3 DEF Placed
  <2>2. Orderly(<<r>>) /\ Members(<<r>>) = {r}
    BY OneOf
  <2>3. \A m \in ListNames : x # InList(m)
    BY PlacesDiffer
  <2>4. ls2 = [ls EXCEPT ![l] = @ \o <<r>>]
    BY <2>1, AppendIs
  <2> HIDE DEF x, ls2
  <2>5. Shifted(ls, [ls EXCEPT ![l] = @ \o <<r>>], x, InList(l), Members(<<r>>))
    BY <2>1, <2>2, <2>3, ListGets
  <2> QED
    BY <2>2, <2>4, <2>5
<1>5. Requeued(q, q2, x, y, M)
  BY <1>1, Still, PlacesDiffer
<1>6. Rebatched(b, b2, x, y, M)
  BY <1>1, Still, PlacesDiffer
<1>7. Switched(r, r2, x, y, M)
  BY NoProcess, <1>2 DEF Switched, Then
<1>8. Reborn(w, w2, x, y, M)
  BY <1>1, Still, PlacesDiffer
<1> HIDE DEF x, y, M, ls2, q2, b2, r2, w2
<1>9. Apart(ls2, q2, b2, r2, w2)
  BY <1>0, <1>1, <1>2, <1>4, <1>5, <1>6, <1>7, <1>8, Shift
<1> QED
  BY <1>9 DEF ls2, q2, b2, r2, w2

\* ... or queued ...
LEMMA DelayPlaced ==
  ASSUME NEW ls, NEW q, NEW b, NEW r, NEW w, Apart(ls, q, b, r, w),
         r \in Procs, NEW t \in Times, NEW v \in [Procs -> Waits], Idle(v) = Idle(w)
  PROVE  Apart(ls, [q EXCEPT ![t] = Append(@, r)], b, 0, v)
<1>1. PICK loc : Placed(loc, ls, q, b, r, w)
  BY DEF Apart
<1> DEFINE x == OnCpu
           y == InQueue(t)
           M == {r}
           ls2 == ls
           q2 == [q EXCEPT ![t] = Append(@, r)]
           b2 == b
           r2 == 0
           w2 == v
<1>2. M \subseteq On(loc, x) /\ x # y
  <2>1. {r} \cap Procs = On(loc, OnCpu)
    BY <1>1 DEF Placed
  <2> QED
    BY <2>1, PlacesDiffer
<1>0. y \in Spots
  BY DEF Spots
<1>3. On(loc, y) \cap M = {} /\ M \subseteq Procs
  <2> HIDE DEF x, y, M
  <2> QED
    BY <1>2, OnDiffer
<1>4. Shifted(ls, ls2, x, y, M)
  BY <1>1, Still, PlacesDiffer
<1>5. Requeued(q, q2, x, y, M)
  <2>1. /\ q \in [Times -> Seq(Procs)] /\ \A m \in Times : Orderly(q[m])
        /\ Members(q[t]) \cap {r} = {}
    BY <1>1, <1>3 DEF Placed
  <2>2. Orderly(<<r>>) /\ Members(<<r>>) = {r}
    BY OneOf
  <2>3. \A m \in Times : x # InQueue(m)
    BY PlacesDiffer
  <2>4. q2 = [q EXCEPT ![t] = @ \o <<r>>]
    BY <2>1, AppendIs
  <2> HIDE DEF x, q2
  <2>5. Requeued(q, [q EXCEPT ![t] = @ \o <<r>>], x, InQueue(t), Members(<<r>>))
    BY <2>1, <2>2, <2>3, QueueGets
  <2> QED
    BY <2>2, <2>4, <2>5
<1>6. Rebatched(b, b2, x, y, M)
  BY <1>1, Still, PlacesDiffer
<1>7. Switched(r, r2, x, y, M)
  BY NoProcess, <1>2 DEF Switched, Then
<1>8. Reborn(w, w2, x, y, M)
  BY <1>1, Still, PlacesDiffer
<1> HIDE DEF x, y, M, ls2, q2, b2, r2, w2
<1>9. Apart(ls2, q2, b2, r2, w2)
  BY <1>0, <1>1, <1>2, <1>4, <1>5, <1>6, <1>7, <1>8, Shift
<1> QED
  BY <1>9 DEF ls2, q2, b2, r2, w2

\* ... or it has ended.
LEMMA EndPlaced ==
  ASSUME NEW ls, NEW q, NEW b, NEW r, NEW w, Apart(ls, q, b, r, w),
         r \in Procs, NEW v \in [Procs -> Waits], Idle(v) = Idle(w) \cup {r}
  PROVE  Apart(ls, q, b, 0, v)
<1>1. PICK loc : Placed(loc, ls, q, b, r, w)
  BY DEF Apart
<1> DEFINE x == OnCpu
           y == Nowhere
           M == {r}
           ls2 == ls
           q2 == q
           b2 == b
           r2 == 0
           w2 == v
<1>2. M \subseteq On(loc, x) /\ x # y
  <2>1. {r} \cap Procs = On(loc, OnCpu)
    BY <1>1 DEF Placed
  <2> QED
    BY <2>1, PlacesDiffer
<1>0. y \in Spots
  BY DEF Spots
<1>3. On(loc, y) \cap M = {} /\ M \subseteq Procs
  <2> HIDE DEF x, y, M
  <2> QED
    BY <1>2, OnDiffer
<1>4. Shifted(ls, ls2, x, y, M)
  BY <1>1, Still, PlacesDiffer
<1>5. Requeued(q, q2, x, y, M)
  BY <1>1, Still, PlacesDiffer
<1>6. Rebatched(b, b2, x, y, M)
  BY <1>1, Still, PlacesDiffer
<1>7. Switched(r, r2, x, y, M)
  BY NoProcess, <1>2 DEF Switched, Then
<1>8. Reborn(w, w2, x, y, M)
  BY <1>1, PlacesDiffer DEF Reborn, Then, Placed
<1> HIDE DEF x, y, M, ls2, q2, b2, r2, w2
<1>9. Apart(ls2, q2, b2, r2, w2)
  BY <1>0, <1>1, <1>2, <1>4, <1>5, <1>6, <1>7, <1>8, Shift
<1> QED
  BY <1>9 DEF ls2, q2, b2, r2, w2

\* A process that had not begun is queued.
LEMMA BornPlaced ==
  ASSUME NEW ls, NEW q, NEW b, NEW r, NEW w, Apart(ls, q, b, r, w),
         NEW t \in Times, NEW c \in Idle(w), NEW v \in [Procs -> Waits],
         Idle(v) = Idle(w) \ {c}
  PROVE  Apart(ls, [q EXCEPT ![t] = Append(@, c)], b, r, v)
<1>1. PICK loc : Placed(loc, ls, q, b, r, w)
  BY DEF Apart
<1> DEFINE x == Nowhere
           y == InQueue(t)
           M == {c}
           ls2 == ls
           q2 == [q EXCEPT ![t] = Append(@, c)]
           b2 == b
           r2 == r
           w2 == v
<1>2. M \subseteq On(loc, x) /\ x # y
  BY <1>1, PlacesDiffer DEF Placed
<1>0. y \in Spots
  BY DEF Spots
<1>3. On(loc, y) \cap M = {} /\ M \subseteq Procs
  <2> HIDE DEF x, y, M
  <2> QED
    BY <1>2, OnDiffer
<1>4. Shifted(ls, ls2, x, y, M)
  BY <1>1, Still, PlacesDiffer
<1>5. Requeued(q, q2, x, y, M)
  <2>1. /\ q \in [Times -> Seq(Procs)] /\ \A m \in Times : Orderly(q[m])
        /\ Members(q[t]) \cap {c} = {}
    BY <1>1, <1>3 DEF Placed
  <2>2. Orderly(<<c>>) /\ Members(<<c>>) = {c}
    BY OneOf DEF Idle
  <2>3. \A m \in Times : x # InQueue(m)
    BY PlacesDiffer
  <2>4. q2 = [q EXCEPT ![t] = @ \o <<c>>]
    BY <2>1, AppendIs DEF Idle
  <2> HIDE DEF x, q2
  <2>5. Requeued(q, [q EXCEPT ![t] = @ \o <<c>>], x, InQueue(t), Members(<<c>>))
    BY <2>1, <2>2, <2>3, QueueGets
  <2> QED
    BY <2>2, <2>4, <2>5
<1>6. Rebatched(b, b2, x, y, M)
  BY <1>1, Still, PlacesDiffer
<1>7. Switched(r, r2, x, y, M)
  BY <1>1, Still, PlacesDiffer
<1>8. Reborn(w, w2, x, y, M)
  BY <1>1, PlacesDiffer DEF Reborn, Then, Placed
<1> HIDE DEF x, y, M, ls2, q2, b2, r2, w2
<1>9. Apart(ls2, q2, b2, r2, w2)
  BY <1>0, <1>1, <1>2, <1>4, <1>5, <1>6, <1>7, <1>8, Shift
<1> QED
  BY <1>9 DEF ls2, q2, b2, r2, w2

\* The first of the queue runs ...
LEMMA QueuedRuns ==
  ASSUME NEW ls, NEW q, NEW b, NEW r, NEW w, Apart(ls, q, b, r, w),
         r = 0, NEW t \in Times, q[t] # <<>>
  PROVE  Apart(ls, [q EXCEPT ![t] = Tail(@)], b, Head(q[t]), w)
<1>1. PICK loc : Placed(loc, ls, q, b, r, w)
  BY DEF Apart
<1> DEFINE x == InQueue(t)
           y == OnCpu
           M == {Head(q[t])}
           ls2 == ls
           q2 == [q EXCEPT ![t] = Tail(@)]
           b2 == b
           r2 == Head(q[t])
           w2 == w
<1>2. M \subseteq On(loc, x) /\ x # y
  <2>1. Orderly(q[t]) /\ Members(q[t]) = On(loc, InQueue(t))
    BY <1>1 DEF Placed
  <2>2. Head(q[t]) \in Members(q[t])
    BY <2>1, TailOnce
  <2> QED
    BY <2>1, <2>2, PlacesDiffer
<1>0. y \in Spots
  BY DEF Spots
<1>3. On(loc, y) \cap M = {} /\ M \subseteq Procs
  <2> HIDE DEF x, y, M
  <2> QED
    BY <1>2, OnDiffer
<1>4. Shifted(ls, ls2, x, y, M)
  BY <1>1, Still, PlacesDiffer
<1>5. Requeued(q, q2, x, y, M)
  <2>1. /\ Orderly(Tail(q[t]))
        /\ Members(Tail(q[t])) = Members(q[t]) \ M
    BY <1>1, TailOnce DEF Placed
  <2>2. q \in [Times -> Seq(Procs)] /\ \A n \in Times : Orderly(q[n])
    BY <1>1 DEF Placed
  <2>3. \A n \in Times : y # InQueue(n)
    BY PlacesDiffer
  <2>4. q2 = [q EXCEPT ![t] = Tail(q[t])]
    BY <2>2
  <2> HIDE DEF y, M, q2
  <2>5. Requeued(q, [q EXCEPT ![t] = Tail(q[t])], InQueue(t), y, M)
    BY <2>1, <2>2, <2>3, QueueLoses
  <2> QED
    BY <2>4, <2>5
<1>6. Rebatched(b, b2, x, y, M)
  BY <1>1, Still, PlacesDiffer
<1>7. Switched(r, r2, x, y, M)
  <2>1. Head(q[t]) \in Procs /\ {r} \cap Procs = {}
    BY <1>3, NoProcess
  <2> QED
    BY <2>1 DEF Switched, Then
<1>8. Reborn(w, w2, x, y, M)
  <2>1. w \in [Procs -> Waits]
    BY <1>1 DEF Placed
  <2> QED
    BY <1>1, <2>1, Still, PlacesDiffer
<1> HIDE DEF x, y, M, ls2, q2, b2, r2, w2
<1>9. Apart(ls2, q2, b2, r2, w2)
  BY <1>0, <1>1, <1>2, <1>4, <1>5, <1>6, <1>7, <1>8, Shift
<1> QED
  BY <1>9 DEF ls2, q2, b2, r2, w2

\* ... or that of the batch.
LEMMA BatchRuns ==
  ASSUME NEW ls, NEW q, NEW b, NEW r, NEW w, Apart(ls, q, b, r, w),
         r = 0, b # <<>>
  PROVE  Apart(ls, q, Tail(b), Head(b), w)
<1>1. PICK loc : Placed(loc, ls, q, b, r, w)
  BY DEF Apart
<1> DEFINE x == InBatch
           y == OnCpu
           M == {Head(b)}
           ls2 == ls
           q2 == q
           b2 == Tail(b)
           r2 == Head(b)
           w2 == w
<1>2. M \subseteq On(loc, x) /\ x # y
  <2>1. Orderly(b) /\ Members(b) = On(loc, InBatch)
    BY <1>1 DEF Placed
  <2>2. Head(b) \in Members(b)
    BY <2>1, TailOnce
  <2> QED
    BY <2>1, <2>2, PlacesDiffer
<1>0. y \in Spots
  BY DEF Spots
<1>3. On(loc, y) \cap M = {} /\ M \subseteq Procs
  <2> HIDE DEF x, y, M
  <2> QED
    BY <1>2, OnDiffer
<1>4. Shifted(ls, ls2, x, y, M)
  BY <1>1, Still, PlacesDiffer
<1>5. Requeued(q, q2, x, y, M)
  BY <1>1, Still, PlacesDiffer
<1>6. Rebatched(b, b2, x, y, M)
  <2>1. /\ Orderly(Tail(b))
        /\ Members(Tail(b)) = Members(b) \ M
    BY <1>1, TailOnce DEF Placed
  <2> QED
    BY <2>1, PlacesDiffer DEF Rebatched, Then
<1>7. Switched(r, r2, x, y, M)
  <2>1. Head(b) \in Procs /\ {r} \cap Procs = {}
    BY <1>3, NoProcess
  <2> QED
    BY <2>1 DEF Switched, Then
<1>8. Reborn(w, w2, x, y, M)
  <2>1. w \in [Procs -> Waits]
    BY <1>1 DEF Placed
  <2> QED
    BY <1>1, <2>1, Still, PlacesDiffer
<1> HIDE DEF x, y, M, ls2, q2, b2, r2, w2
<1>9. Apart(ls2, q2, b2, r2, w2)
  BY <1>0, <1>1, <1>2, <1>4, <1>5, <1>6, <1>7, <1>8, Shift
<1> QED
  BY <1>9 DEF ls2, q2, b2, r2, w2

\* Some of a list are taken, ...
LEMMA ToBatch ==
  ASSUME NEW ls, NEW q, NEW b, NEW r, NEW w, Apart(ls, q, b, r, w),
         b = <<>>, NEW l \in ListNames, NEW u, Orderly(u), NEW v, Orderly(v),
         Members(v) \subseteq Members(ls[l]), Members(u) = Members(ls[l]) \ Members(v)
  PROVE  Apart([ls EXCEPT ![l] = u], q, v, r, w)
<1>1. PICK loc : Placed(loc, ls, q, b, r, w)
  BY DEF Apart
<1> DEFINE x == InList(l)
           y == InBatch
           M == Members(v)
           ls2 == [ls EXCEPT ![l] = u]
           q2 == q
           b2 == v
           r2 == r
           w2 == w
<1>2. M \subseteq On(loc, x) /\ x # y
  BY <1>1, PlacesDiffer DEF Placed
<1>0. y \in Spots
  BY DEF Spots
<1>3. On(loc, y) \cap M = {} /\ M \subseteq Procs
  <2> HIDE DEF x, y, M
  <2> QED
    BY <1>2, OnDiffer
<1>4. Shifted(ls, ls2, x, y, M)
  <2>1. ls \in [ListNames -> Seq(Procs)] /\ \A m \in ListNames : Orderly(ls[m])
    BY <1>1 DEF Placed
  <2>2. \A m \in ListNames : y # InList(m)
    BY PlacesDiffer
  <2> HIDE DEF y
  <2> QED
    BY <2>1, <2>2, ListLoses
<1>5. Requeued(q, q2, x, y, M)
  BY <1>1, Still, PlacesDiffer
<1>6. Rebatched(b, b2, x, y, M)
  BY NothingOnce, PlacesDiffer DEF Rebatched, Then
<1>7. Switched(r, r2, x, y, M)
  BY <1>1, Still, PlacesDiffer
<1>8. Reborn(w, w2, x, y, M)
  <2>1. w \in [Procs -> Waits]
    BY <1>1 DEF Placed
  <2> QED
    BY <1>1, <2>1, Still, PlacesDiffer
<1> HIDE DEF x, y, M, ls2, q2, b2, r2, w2
<1>9. Apart(ls2, q2, b2, r2, w2)
  BY <1>0, <1>1, <1>2, <1>4, <1>5, <1>6, <1>7, <1>8, Shift
<1> QED
  BY <1>9 DEF ls2, q2, b2, r2, w2

\* ... are queued ...
LEMMA ToQueue ==
  ASSUME NEW ls, NEW q, NEW b, NEW r, NEW w, Apart(ls, q, b, r, w),
         NEW l \in ListNames, NEW t \in Times, NEW u, Orderly(u), NEW v, Orderly(v),
         Members(v) \subseteq Members(ls[l]), Members(u) = Members(ls[l]) \ Members(v)
  PROVE  Apart([ls EXCEPT ![l] = u], [q EXCEPT ![t] = @ \o v], b, r, w)
<1>1. PICK loc : Placed(loc, ls, q, b, r, w)
  BY DEF Apart
<1> DEFINE x == InList(l)
           y == InQueue(t)
           M == Members(v)
           ls2 == [ls EXCEPT ![l] = u]
           q2 == [q EXCEPT ![t] = @ \o v]
           b2 == b
           r2 == r
           w2 == w
<1>2. M \subseteq On(loc, x) /\ x # y
  BY <1>1, PlacesDiffer DEF Placed
<1>0. y \in Spots
  BY DEF Spots
<1>3. On(loc, y) \cap M = {} /\ M \subseteq Procs
  <2> HIDE DEF x, y, M
  <2> QED
    BY <1>2, OnDiffer
<1>4. Shifted(ls, ls2, x, y, M)
  <2>1. ls \in [ListNames -> Seq(Procs)] /\ \A m \in ListNames : Orderly(ls[m])
    BY <1>1 DEF Placed
  <2>2. \A m \in ListNames : y # InList(m)
    BY PlacesDiffer
  <2> HIDE DEF y
  <2> QED
    BY <2>1, <2>2, ListLoses
<1>5. Requeued(q, q2, x, y, M)
  <2>1. /\ q \in [Times -> Seq(Procs)] /\ \A n \in Times : Orderly(q[n])
        /\ Members(q[t]) \cap Members(v) = {}
    BY <1>1, <1>3 DEF Placed
  <2>2. \A n \in Times : x # InQueue(n)
    BY PlacesDiffer
  <2> HIDE DEF x
  <2> QED
    BY <2>1, <2>2, QueueGets
<1>6. Rebatched(b, b2, x, y, M)
  BY <1>1, Still, PlacesDiffer
<1>7. Switched(r, r2, x, y, M)
  BY <1>1, Still, PlacesDiffer
<1>8. Reborn(w, w2, x, y, M)
  <2>1. w \in [Procs -> Waits]
    BY <1>1 DEF Placed
  <2> QED
    BY <1>1, <2>1, Still, PlacesDiffer
<1> HIDE DEF x, y, M, ls2, q2, b2, r2, w2
<1>9. Apart(ls2, q2, b2, r2, w2)
  BY <1>0, <1>1, <1>2, <1>4, <1>5, <1>6, <1>7, <1>8, Shift
<1> QED
  BY <1>9 DEF ls2, q2, b2, r2, w2

\* ... or go to another list.
LEMMA ToList ==
  ASSUME NEW ls, NEW q, NEW b, NEW r, NEW w, Apart(ls, q, b, r, w),
         NEW l \in ListNames, NEW k \in ListNames, k # l, NEW u, Orderly(u),
         NEW v, Orderly(v),
         Members(v) \subseteq Members(ls[l]), Members(u) = Members(ls[l]) \ Members(v)
  PROVE  Apart([ls EXCEPT ![k] = @ \o v, ![l] = u], q, b, r, w)
<1>1. PICK loc : Placed(loc, ls, q, b, r, w)
  BY DEF Apart
<1> DEFINE x == InList(l)
           y == InList(k)
           M == Members(v)
           ls2 == [ls EXCEPT ![k] = @ \o v, ![l] = u]
           q2 == q
           b2 == b
           r2 == r
           w2 == w
<1>2. M \subseteq On(loc, x) /\ x # y
  BY <1>1, PlacesDiffer DEF Placed
<1>0. y \in Spots
  BY DEF Spots
<1>3. On(loc, y) \cap M = {} /\ M \subseteq Procs
  <2> HIDE DEF x, y, M
  <2> QED
    BY <1>2, OnDiffer
<1>4. Shifted(ls, ls2, x, y, M)
  <2>1. /\ ls \in [ListNames -> Seq(Procs)] /\ \A m \in ListNames : Orderly(ls[m])
        /\ Members(ls[k]) \cap Members(v) = {}
    BY <1>1, <1>3 DEF Placed
  <2> QED
    BY <2>1, ListsTrade
<1>5. Requeued(q, q2, x, y, M)
  BY <1>1, Still, PlacesDiffer
<1>6. Rebatched(b, b2, x, y, M)
  BY <1>1, Still, PlacesDiffer
<1>7. Switched(r, r2, x, y, M)
  BY <1>1, Still, PlacesDiffer
<1>8. Reborn(w, w2, x, y, M)
  <2>1. w \in [Procs -> Waits]
    BY <1>1 DEF Placed
  <2> QED
    BY <1>1, <2>1, Still, PlacesDiffer
<1> HIDE DEF x, y, M, ls2, q2, b2, r2, w2
<1>9. Apart(ls2, q2, b2, r2, w2)
  BY <1>0, <1>1, <1>2, <1>4, <1>5, <1>6, <1>7, <1>8, Shift
<1> QED
  BY <1>9 DEF ls2, q2, b2, r2, w2

\* All that is queued for one time is queued for another.
LEMMA QueueMoves ==
  ASSUME NEW ls, NEW q, NEW b, NEW r, NEW w, Apart(ls, q, b, r, w),
         NEW t \in Times, NEW n \in Times, n # t
  PROVE  Apart(ls, [q EXCEPT ![n] = @ \o q[t], ![t] = <<>>], b, r, w)
<1>1. PICK loc : Placed(loc, ls, q, b, r, w)
  BY DEF Apart
<1> DEFINE x == InQueue(t)
           y == InQueue(n)
           M == Members(q[t])
           ls2 == ls
           q2 == [q EXCEPT ![n] = @ \o q[t], ![t] = <<>>]
           b2 == b
           r2 == r
           w2 == w
<1>2. M \subseteq On(loc, x) /\ x # y
  BY <1>1, PlacesDiffer DEF Placed
<1>0. y \in Spots
  BY DEF Spots
<1>3. On(loc, y) \cap M = {} /\ M \subseteq Procs
  <2> HIDE DEF x, y, M
  <2> QED
    BY <1>2, OnDiffer
<1>4. Shifted(ls, ls2, x, y, M)
  BY <1>1, Still, PlacesDiffer
<1>5. Requeued(q, q2, x, y, M)
  <2>1. /\ q \in [Times -> Seq(Procs)] /\ \A m \in Times : Orderly(q[m])
        /\ Members(q[n]) \cap Members(q[t]) = {}
    BY <1>1, <1>3 DEF Placed
  <2>2. Orderly(q[t]) /\ Orderly(<<>>) /\ Members(<<>>) = Members(q[t]) \ Members(q[t])
    BY <2>1, NothingOnce
  <2> QED
    BY <2>1, <2>2, QueuesTrade
<1>6. Rebatched(b, b2, x, y, M)
  BY <1>1, Still, PlacesDiffer
<1>7. Switched(r, r2, x, y, M)
  BY <1>1, Still, PlacesDiffer
<1>8. Reborn(w, w2, x, y, M)
  <2>1. w \in [Procs -> Waits]
    BY <1>1 DEF Placed
  <2> QED
    BY <1>1, <2>1, Still, PlacesDiffer
<1> HIDE DEF x, y, M, ls2, q2, b2, r2, w2
<1>9. Apart(ls2, q2, b2, r2, w2)
  BY <1>0, <1>1, <1>2, <1>4, <1>5, <1>6, <1>7, <1>8, Shift
<1> QED
  BY <1>9 DEF ls2, q2, b2, r2, w2

-----------------------------------------------------------------------------
(***************************************************************************)
(* One activation: the world after its effect, and after it has parked.     *)
(***************************************************************************)
Child == CHOOSE c \in Slot!Unborn : \A d \in Slot!Unborn : c <= d

SigAfter(e) ==
    CASE e = "write"   -> [sig EXCEPT !.x = 1 - @]
      [] e = "set"     -> [sig EXCEPT !.y = 1 - @]
      [] e = "nba"     -> [sig EXCEPT !.nba = 1 - sig.x]
      [] e = "trigger" -> [sig EXCEPT !.triggers = @ + 1]
      [] e = "fire"    -> [sig EXCEPT !.ev = Slot!EventAfter(@, 1)]
      [] OTHER         -> sig

\* The lists after an effect that interprets a write.
ListsAfter(e) ==
    CASE e = "write" /\ design.interpreted -> Slot!Promoted(lists, "cond", 1 - sig.x)
      [] e = "set" /\ design.interpreted   -> Slot!Promoted(lists, "prop", 1 - sig.y)
      [] OTHER -> lists

LEMMA EffectIs ==
  ASSUME SlotTypes, NEW e
  PROVE  Slot!After(e) =
           [wait  |-> IF e = "fork" THEN [wait EXCEPT ![Child].on = "run"] ELSE wait,
            lists |-> ListsAfter(e),
            queue |-> IF e = "fork" THEN [queue EXCEPT ![time] = Append(@, Child)] ELSE queue,
            sig   |-> SigAfter(e)]
<1> USE DEF ListsAfter
<1>1. CASE e = "write"
  BY <1>1 DEF Slot!After, Slot!World, SigAfter
<1>7. CASE e = "set"
  BY <1>7 DEF Slot!After, Slot!World, SigAfter
<1>2. CASE e = "nba"
  BY <1>2 DEF Slot!After, Slot!World, SigAfter
<1>3. CASE e = "trigger"
  BY <1>3 DEF Slot!After, Slot!World, SigAfter
<1>4. CASE e = "fire"
  BY <1>4 DEF Slot!After, Slot!World, SigAfter
<1>5. CASE e = "fork"
  <2>1. Slot!After("fork") = [Slot!World EXCEPT !.queue[time] = Append(@, Child),
                                                !.wait[Child].on = "run"]
    BY DEF Slot!After, Child
  <2> QED
    BY <1>5, <2>1 DEF Slot!World, SigAfter
<1>6. CASE e \notin {"write", "set", "nba", "trigger", "fire", "fork"}
  BY <1>6 DEF Slot!After, Slot!World, SigAfter
<1> QED
  BY <1>1, <1>2, <1>3, <1>4, <1>5, <1>6, <1>7

\* The first of the processes that only a fork starts exists.
LEMMA ChildIs ==
  ASSUME SlotTypes, Slot!Unborn # {}
  PROVE  Child \in Slot!Unborn /\ Child \in Procs
<1>1. Slot!Unborn \subseteq Nat /\ Slot!Unborn \subseteq Procs
  BY SlotAssumption DEF Slot!Unborn, SlotTypes, Design, Procs
<1> DEFINE U == Slot!Unborn
<1>2. U \in SUBSET Nat /\ U # {}
  BY <1>1
<1>3. \E c \in U : \A d \in U : c <= d
  <2> HIDE DEF U
  <2>1. PICK c \in U : \A d \in U : <<d, c>> \notin OpToRel(<, Nat)
    BY <1>2, NatLessThanWellFounded, WFMin
  <2>2. ASSUME NEW d \in U PROVE c <= d
    <3>1. c \in Nat /\ d \in Nat
      BY <1>2
    <3>2. ~(d < c)
      BY <2>1, <3>1 DEF OpToRel
    <3> QED
      BY <3>1, <3>2
  <2> QED
    BY <2>2
<1> QED
  BY <1>1, <1>3 DEF Child


\* A wait(y == v) is not true, and none in the list s is.
Untrue(a, y) == a.on = "prop" => a.seen # y
Gated(s, w, y) == \A p \in Members(s) : Untrue(w[p], y)

LEMMA GatedGets ==
  ASSUME NEW s \in Seq(Procs), NEW w \in [Procs -> Waits], NEW y, Gated(s, w, y),
         NEW p \in Procs, NEW a, Untrue(a, y),
         NEW s2, Members(s2) \subseteq Members(s) \cup {p}
  PROVE  Gated(s2, [w EXCEPT ![p] = a], y)
<1> DEFINE w2 == [w EXCEPT ![p] = a]
<1>1. ASSUME NEW q \in Members(s2) PROVE Untrue(w2[q], y)
  <2>1. CASE q = p
    BY <1>1, <2>1
  <2>2. CASE q # p
    <3>1. q \in Members(s) /\ q \in Procs /\ w2[q] = w[q]
      BY <1>1, <2>2, MembersAre
    <3> HIDE DEF w2
    <3> QED
      BY <1>1, <3>1 DEF Gated
  <2> QED
    BY <2>1, <2>2
<1> HIDE DEF w2
<1>2. Gated(s2, w2, y)
  BY <1>1 DEF Gated
<1> QED
  BY <1>2 DEF w2

\* The process p has parked: it has ended, is queued or is in a list, but not in that
\* of the Reactive region; and a wait that it parked at is false.
ParkedIn(v, p, wa, li, qu, y) ==
    /\ v.wait \in [Procs -> Waits] /\ v.sig \in Sigs /\ v.sig.y = y
    /\ Gated(li["conds"], wa, y) => Gated(v.lists["conds"], v.wait, y)
    /\ \/ /\ Idle(v.wait) = Idle(wa) \cup {p}
          /\ v.lists = li /\ v.queue = qu
       \/ /\ Idle(v.wait) = Idle(wa) /\ v.lists = li
          /\ \E t \in Times : v.queue = [qu EXCEPT ![t] = Append(@, p)]
       \/ /\ Idle(v.wait) = Idle(wa) /\ v.queue = qu
          /\ \E l \in ListNames \ {"reactive"} : v.lists = [li EXCEPT ![l] = Append(@, p)]

LEMMA ParkedIs ==
  ASSUME NEW place \in AllPlaces, NEW p \in Procs, NEW w, NEW wa, NEW li, NEW qu, NEW si,
         w = [wait |-> wa, lists |-> li, queue |-> qu, sig |-> si],
         wa \in [Procs -> Waits], li \in [ListNames -> Seq(Procs)],
         qu \in [Times -> Seq(Procs)], si \in Sigs, wa[p].on \notin {"unborn", "gone"},
         time \in Times, place = "delay" => time < MaxTime
  PROVE  ParkedIn(Slot!Parked(place, p, w), p, wa, li, qu, si.y)
<1> DEFINE v == Slot!Parked(place, p, w)
<1> SUFFICES ParkedIn(v, p, wa, li, qu, si.y)
  OBVIOUS
<1>0. /\ w.wait = wa /\ w.lists = li /\ w.queue = qu /\ w.sig = si
      /\ si.x \in 0 .. 1 /\ si.ev \in 0 .. 2 /\ 1 - si.x \in 0 .. 2 /\ si.x \in 0 .. 2
      /\ si.y \in 0 .. 1 /\ 1 - si.y \in 0 .. 2 /\ 1 - si.y # si.y
      /\ li["conds"] \in Seq(Procs) /\ Append(li["conds"], p) \in Seq(Procs)
  BY DEF Sigs, ListNames
<1>11. ASSUME NEW a, Untrue(a, si.y), v.wait = [wa EXCEPT ![p] = a],
              \/ v.lists = li
              \/ \E l \in ListNames : v.lists = [li EXCEPT ![l] = Append(@, p)]
       PROVE  Gated(li["conds"], wa, si.y) => Gated(v.lists["conds"], v.wait, si.y)
  <2> HIDE DEF v
  <2>1. v.lists["conds"] = li["conds"] \/ v.lists["conds"] = Append(li["conds"], p)
    BY <1>11 DEF ListNames
  <2>2. Members(Append(li["conds"], p)) \subseteq Members(li["conds"]) \cup {p}
    <3>1. ASSUME NEW i \in DOMAIN Append(li["conds"], p)
          PROVE  Append(li["conds"], p)[i] \in Members(li["conds"]) \cup {p}
      <4>1. i \in DOMAIN li["conds"] \/ Append(li["conds"], p)[i] = p
        BY <1>0, <3>1
      <4>2. i \in DOMAIN li["conds"] => Append(li["conds"], p)[i] = li["conds"][i]
        BY <1>0, <3>1
      <4> QED
        BY <4>1, <4>2 DEF Members
    <3> QED
      BY <3>1 DEF Members
  <2>3. Members(v.lists["conds"]) \subseteq Members(li["conds"]) \cup {p}
    BY <2>1, <2>2
  <2> DEFINE s2 == v.lists["conds"]
  <2>4. Gated(li["conds"], wa, si.y) => Gated(s2, [wa EXCEPT ![p] = a], si.y)
    <3>1. Members(s2) \subseteq Members(li["conds"]) \cup {p} /\ Untrue(a, si.y)
      BY <1>11, <2>3
    <3> HIDE DEF s2
    <3> QED
      BY <1>0, <3>1, GatedGets
  <2> QED
    BY <1>11, <2>4
<1>4. /\ [wa[p] EXCEPT !.on = "run"] \in Waits /\ [wa[p] EXCEPT !.on = "run"].on = "run"
      /\ [wa EXCEPT ![p].on = "run"] = [wa EXCEPT ![p] = [wa[p] EXCEPT !.on = "run"]]
      /\ [wa[p] EXCEPT !.on = "gone"].on = "gone"
      /\ [wa EXCEPT ![p].on = "gone"] = [wa EXCEPT ![p] = [wa[p] EXCEPT !.on = "gone"]]
  BY DEF Waits
<1>1. CASE place = "end"
  <2>1. v = [w EXCEPT !.wait[p].on = "gone"]
    BY <1>1 DEF Slot!Parked
  <2>2. v.wait = [wa EXCEPT ![p].on = "gone"] /\ v.lists = li /\ v.queue = qu /\ v.sig = si
    BY <1>0, <2>1
  <2>5. Gated(li["conds"], wa, si.y) => Gated(v.lists["conds"], v.wait, si.y)
    <3> HIDE DEF v
    <3> QED
      BY <1>4, <1>11, <2>2 DEF Untrue
  <2> HIDE DEF v
  <2>3. v.wait \in [Procs -> Waits]
    BY <2>2 DEF Waits
  <2>4. Idle(v.wait) = Idle(wa) \cup {p}
    BY <2>2 DEF Idle
  <2> QED
    BY <2>2, <2>3, <2>4, <2>5 DEF ParkedIn
<1>2. CASE place = "delay"
  <2>1. v = [w EXCEPT !.wait[p].on = "run", !.queue[time + 1] = Append(@, p)]
    BY <1>2 DEF Slot!Parked
  <2>2. /\ v.wait = [wa EXCEPT ![p].on = "run"] /\ v.lists = li /\ v.sig = si
        /\ v.queue = [qu EXCEPT ![time + 1] = Append(@, p)]
    BY <1>0, <2>1
  <2>3. time + 1 \in Times
    BY <1>2, SlotAssumption DEF Times
  <2>6. Gated(li["conds"], wa, si.y) => Gated(v.lists["conds"], v.wait, si.y)
    <3> HIDE DEF v
    <3> QED
      BY <1>4, <1>11, <2>2 DEF Untrue
  <2> HIDE DEF v
  <2>4. v.wait \in [Procs -> Waits]
    BY <1>4, <2>2
  <2>5. Idle(v.wait) = Idle(wa)
    BY <2>2 DEF Idle
  <2> QED
    BY <2>2, <2>3, <2>4, <2>5, <2>6 DEF ParkedIn
<1>10. {"inactive", "hops", "clocking", "conds", "events"} \subseteq ListNames \ {"reactive"}
  BY DEF ListNames
<1>3. ASSUME NEW l \in ListNames \ {"reactive"}, NEW a, a \in Waits, a.on \notin {"unborn", "gone"},
             Untrue(a, si.y),
             v.wait = [wa EXCEPT ![p] = a], v.queue = qu, v.sig \in Sigs, v.sig.y = si.y,
             v.lists = [li EXCEPT ![l] = Append(@, p)]
      PROVE  ParkedIn(v, p, wa, li, qu, si.y)
  <2>2. Gated(li["conds"], wa, si.y) => Gated(v.lists["conds"], v.wait, si.y)
    <3>1. /\ l \in ListNames /\ v.wait = [wa EXCEPT ![p] = a] /\ Untrue(a, si.y)
          /\ v.lists = [li EXCEPT ![l] = Append(@, p)]
      BY <1>3
    <3> HIDE DEF v
    <3> QED
      BY <3>1, <1>11
  <2> HIDE DEF v
  <2>1. Idle(v.wait) = Idle(wa) /\ v.wait \in [Procs -> Waits]
    BY <1>3 DEF Idle
  <2> QED
    BY <1>3, <2>1, <2>2 DEF ParkedIn
<1>5. CASE place = "inactive"
  <2>1. v = [w EXCEPT !.wait[p].on = "run", !.lists["inactive"] = Append(@, p)]
    BY <1>5 DEF Slot!Parked
  <2>2. /\ v.wait = [wa EXCEPT ![p].on = "run"] /\ v.queue = qu /\ v.sig = si
        /\ v.lists = [li EXCEPT !["inactive"] = Append(@, p)]
    BY <1>0, <2>1
  <2> HIDE DEF v
  <2>5. "inactive" \in ListNames \ {"reactive"}
    BY <1>10
  <2> QED
    BY <1>3, <1>4, <2>2, <2>5 DEF Untrue
<1>6. CASE place = "hop"
  <2>1. v = [w EXCEPT !.wait[p].on = "run", !.lists["hops"] = Append(@, p),
                      !.sig.hops = @ \cup {p}]
    BY <1>6 DEF Slot!Parked
  <2>2. /\ v.wait = [wa EXCEPT ![p].on = "run"] /\ v.queue = qu
        /\ v.sig = [si EXCEPT !.hops = @ \cup {p}]
        /\ v.lists = [li EXCEPT !["hops"] = Append(@, p)]
    BY <1>0, <2>1
  <2> HIDE DEF v
  <2>3. v.sig \in Sigs /\ v.sig.y = si.y
    <3>1. si.hops \cup {p} \in SUBSET Procs /\ si.hops \in SUBSET Procs
      BY DEF Sigs
    <3> QED
      BY <2>2, <3>1 DEF Sigs
  <2>5. "hops" \in ListNames \ {"reactive"}
    BY <1>10
  <2> QED
    BY <1>3, <1>4, <2>2, <2>5, <2>3 DEF Untrue
<1>7. CASE place = "cb" /\ Slot!ClockingDue(w)
  <2>1. v = [w EXCEPT !.wait[p].on = "run", !.lists["clocking"] = Append(@, p)]
    BY <1>7 DEF Slot!Parked
  <2>2. /\ v.wait = [wa EXCEPT ![p].on = "run"] /\ v.queue = qu /\ v.sig = si
        /\ v.lists = [li EXCEPT !["clocking"] = Append(@, p)]
    BY <1>0, <2>1
  <2> HIDE DEF v
  <2>5. "clocking" \in ListNames \ {"reactive"}
    BY <1>10
  <2> QED
    BY <1>3, <1>4, <2>2, <2>5 DEF Untrue
<1>8. CASE place = "cond"
  <2> DEFINE a == [on |-> "cond", seen |-> 1 - si.x]
  <2>1. v = [w EXCEPT !.wait[p] = [on |-> "cond", seen |-> 1 - w.sig.x],
                      !.lists["conds"] = Append(@, p)]
    BY <1>8 DEF Slot!Parked
  <2>2. /\ v.wait = [wa EXCEPT ![p] = a] /\ v.queue = qu /\ v.sig = si
        /\ v.lists = [li EXCEPT !["conds"] = Append(@, p)]
    BY <1>0, <2>1
  <2>3. a \in Waits /\ a.on \notin {"unborn", "gone", "prop"}
    BY <1>0 DEF Waits
  <2> HIDE DEF v, a
  <2>5. "conds" \in ListNames \ {"reactive"}
    BY <1>10
  <2> QED
    BY <1>3, <2>2, <2>5, <2>3 DEF Untrue
<1>12. CASE place = "prop"
  <2> DEFINE a == [on |-> "prop", seen |-> 1 - si.y]
  <2>1. v = [w EXCEPT !.wait[p] = [on |-> "prop", seen |-> 1 - w.sig.y],
                      !.lists["conds"] = Append(@, p)]
    BY <1>12 DEF Slot!Parked
  <2>2. /\ v.wait = [wa EXCEPT ![p] = a] /\ v.queue = qu /\ v.sig = si
        /\ v.lists = [li EXCEPT !["conds"] = Append(@, p)]
    BY <1>0, <2>1
  <2>3. a \in Waits /\ a.on \notin {"unborn", "gone"} /\ a.seen # si.y
    BY <1>0 DEF Waits
  <2> HIDE DEF v, a
  <2>5. "conds" \in ListNames \ {"reactive"}
    BY <1>10
  <2> QED
    BY <1>3, <2>2, <2>5, <2>3 DEF Untrue
<1>9. CASE place \in {"x", "ev", "cb"} /\ ~(place = "cb" /\ Slot!ClockingDue(w))
  <2> DEFINE a == [on |-> place, seen |-> IF place = "ev" THEN si.ev ELSE si.x]
  <2>1. v = [w EXCEPT !.wait[p] = [on |-> place, seen |-> IF place = "ev" THEN w.sig.ev
                                                                          ELSE w.sig.x],
                      !.lists["events"] = Append(@, p)]
    BY <1>9 DEF Slot!Parked
  <2>2. /\ v.wait = [wa EXCEPT ![p] = a] /\ v.queue = qu /\ v.sig = si
        /\ v.lists = [li EXCEPT !["events"] = Append(@, p)]
    BY <1>0, <2>1
  <2>3. a \in Waits /\ a.on \notin {"unborn", "gone", "prop"}
    BY <1>0, <1>9 DEF Waits
  <2> HIDE DEF v, a
  <2>5. "events" \in ListNames \ {"reactive"}
    BY <1>10
  <2> QED
    BY <1>3, <2>2, <2>5, <2>3 DEF Untrue
<1> HIDE DEF v
<1> QED
  BY <1>1, <1>2, <1>5, <1>6, <1>7, <1>8, <1>9, <1>12 DEF AllPlaces

\* The signals after an effect have their values.
LEMMA SigAfterIs ==
  ASSUME SlotTypes, NEW e
  PROVE  SigAfter(e) \in Sigs /\ (e # "set" => SigAfter(e).y = sig.y)
<1>1. /\ sig \in Sigs /\ sig.x \in 0 .. 1 /\ 1 - sig.x \in 0 .. 1 /\ 1 - sig.x \in 0 .. 2
      /\ sig.triggers \in Nat /\ sig.triggers + 1 \in Nat
      /\ Slot!EventAfter(sig.ev, 1) \in 0 .. 2
  BY DEF SlotTypes, Sigs, Slot!EventAfter
<1>2. CASE e = "write"
  BY <1>1, <1>2 DEF SigAfter, Sigs
<1>3. CASE e = "nba"
  BY <1>1, <1>3 DEF SigAfter, Sigs
<1>4. CASE e = "trigger"
  BY <1>1, <1>4 DEF SigAfter, Sigs
<1>5. CASE e = "fire"
  BY <1>1, <1>5 DEF SigAfter, Sigs
<1>7. CASE e = "set"
  <2>1. 1 - sig.y \in 0 .. 1
    BY <1>1 DEF Sigs
  <2> QED
    BY <1>1, <1>7, <2>1 DEF SigAfter, Sigs
<1>6. CASE e \notin {"write", "set", "nba", "trigger", "fire"}
  BY <1>1, <1>6 DEF SigAfter
<1>8. e # "set" => SigAfter(e).y = sig.y
  BY <1>1 DEF SigAfter, Sigs
<1> QED
  BY <1>2, <1>3, <1>4, <1>5, <1>6, <1>7, <1>8

\* The waits that a write makes true go to the ready ones.
LEMMA PromotedApart ==
  ASSUME Apart(lists, queue, batch, running, wait), NEW on, NEW x
  PROVE  /\ Apart(Slot!Promoted(lists, on, x), queue, batch, running, wait)
         /\ Slot!Promoted(lists, on, x)["reactive"] = lists["reactive"]
         /\ Members(Slot!Promoted(lists, on, x)["conds"]) \subseteq Members(lists["conds"])
<1> DEFINE M == Slot!Met(on, x)
           v == Only(lists["conds"], M)
           u == Only(lists["conds"], Procs \ M)
<1>1. /\ "conds" \in ListNames /\ "ready" \in ListNames /\ "ready" # "conds"
      /\ "reactive" \in ListNames
  BY DEF ListNames
<1>2. Orderly(lists["conds"]) /\ lists \in [ListNames -> Seq(Procs)]
  BY <1>1 DEF Apart, Placed
<1>3. Slot!Promoted(lists, on, x) = [lists EXCEPT !["ready"] = @ \o v, !["conds"] = u]
  <2>1. /\ Slot!Only(lists["conds"], M) = v
        /\ Slot!Only(lists["conds"], Procs \ M) = u
    <3> HIDE DEF M
    <3> QED
      BY OnlySame
  <2>2. Slot!Promoted(lists, on, x) = [lists EXCEPT
            !["ready"] = @ \o Slot!Only(lists["conds"], M),
            !["conds"] = Slot!Only(@, Procs \ M)]
    BY DEF Slot!Promoted, Slot!Procs, Procs
  <2> HIDE DEF M, u, v
  <2> QED
    BY <1>1, <1>2, <2>1, <2>2
<1>4. /\ Orderly(u) /\ Orderly(v) /\ Members(v) = Members(lists["conds"]) \cap M
      /\ Members(u) = Members(lists["conds"]) \cap (Procs \ M)
  <2> HIDE DEF M
  <2> QED
    BY <1>2, OnlyIs
<1>5. Members(u) = Members(lists["conds"]) \ Members(v)
  <2>1. Members(lists["conds"]) \subseteq Procs
    BY <1>2, MembersAre DEF Orderly
  <2> HIDE DEF M, u, v
  <2> QED
    BY <1>4, <2>1
<1>6. Members(v) \subseteq Members(lists["conds"])
  BY <1>4
<1> HIDE DEF M, u, v
<1>7. Apart([lists EXCEPT !["ready"] = @ \o v, !["conds"] = u], queue, batch, running, wait)
  BY <1>1, <1>4, <1>5, <1>6, ToList
<1> QED
  BY <1>1, <1>2, <1>3, <1>5, <1>7

\* Its effect first, ...
LEMMA EffectApart ==
  ASSUME SlotTypes, Apart(lists, queue, batch, running, wait), running # 0,
         NEW e, e = "fork" => Slot!Unborn # {}
  PROVE  LET w == Slot!After(e)
         IN  /\ Apart(w.lists, w.queue, batch, running, w.wait)
             /\ w.lists["reactive"] = lists["reactive"]
             /\ w.wait[running].on = wait[running].on
             /\ Gated(lists["conds"], wait, sig.y) =>
                  Gated(w.lists["conds"], w.wait, sig.y)
             /\ Members(queue[time]) \subseteq Members(w.queue[time])
<1> DEFINE wa == IF e = "fork" THEN [wait EXCEPT ![Child].on = "run"] ELSE wait
           li == ListsAfter(e)
           qu == IF e = "fork" THEN [queue EXCEPT ![time] = Append(@, Child)] ELSE queue
<1>1. Slot!After(e).wait = wa /\ Slot!After(e).lists = li /\ Slot!After(e).queue = qu
  <2>1. Slot!After(e) = [wait |-> wa, lists |-> li, queue |-> qu, sig |-> SigAfter(e)]
    BY EffectIs
  <2> HIDE DEF wa, li, qu
  <2> QED
    BY <2>1
<1>2. CASE e = "fork"
  <2>1. /\ Child \in Procs /\ Child \in Slot!Unborn /\ wait[Child].on = "unborn"
        /\ li = lists
    BY <1>2, ChildIs DEF Slot!Unborn, ListsAfter
  <2>2. Child \in Idle(wait) /\ running \notin Idle(wait) /\ running \in Procs
    <3>1. PICK loc : Placed(loc, lists, queue, batch, running, wait)
      BY DEF Apart
    <3>2. {running} \cap Procs = On(loc, OnCpu) /\ Idle(wait) = On(loc, Nowhere)
      BY <3>1 DEF Placed
    <3>3. running \in Procs
      BY DEF SlotTypes
    <3> QED
      BY <2>1, <3>2, <3>3, PlacesDiffer DEF On, Idle
  <2>3. /\ wa \in [Procs -> Waits] /\ Idle(wa) = Idle(wait) \ {Child}
        /\ wa[running] = wait[running]
    <3>1. wait \in [Procs -> Waits] /\ Child # running
      BY <2>2 DEF SlotTypes
    <3>2. wa = [wait EXCEPT ![Child].on = "run"]
      BY <1>2
    <3> HIDE DEF wa
    <3>3. wa \in [Procs -> Waits]
      BY <2>1, <3>1, <3>2 DEF Waits
    <3>4. Idle(wa) = Idle(wait) \ {Child}
      BY <2>1, <3>1, <3>2 DEF Idle, Waits
    <3> QED
      BY <2>2, <3>1, <3>2, <3>3, <3>4
  <2>4. qu = [queue EXCEPT ![time] = Append(@, Child)] /\ time \in Times
    BY <1>2 DEF SlotTypes
  <2>6. Gated(lists["conds"], wait, sig.y) => Gated(lists["conds"], wa, sig.y)
    <3>1. wa = [wait EXCEPT ![Child] = [wait[Child] EXCEPT !.on = "run"]]
      BY <1>2, <2>2 DEF SlotTypes
    <3>2. /\ [wait[Child] EXCEPT !.on = "run"].on = "run" /\ wait \in [Procs -> Waits]
          /\ lists["conds"] \in Seq(Procs)
      BY <2>2 DEF SlotTypes, Waits, ListNames
    <3> HIDE DEF wa
    <3> QED
      BY <2>1, <3>1, <3>2, GatedGets DEF Untrue
  <2>7. Members(queue[time]) \subseteq Members(qu[time])
    <3>1. qu[time] = Append(queue[time], Child) /\ queue[time] \in Seq(Procs)
      BY <2>4 DEF SlotTypes
    <3> HIDE DEF qu
    <3> QED
      BY <2>1, <3>1, AppendHas
  <2> HIDE DEF wa, li, qu
  <2>5. Apart(lists, [queue EXCEPT ![time] = Append(@, Child)], batch, running, wa)
    BY <2>2, <2>3, <2>4, BornPlaced
  <2> QED
    BY <1>1, <2>1, <2>3, <2>4, <2>5, <2>6, <2>7
<1>3. CASE e # "fork"
  <2>1. wa = wait /\ qu = queue
    BY <1>3
  <2>2. /\ Apart(li, queue, batch, running, wait) /\ li["reactive"] = lists["reactive"]
        /\ Members(li["conds"]) \subseteq Members(lists["conds"])
    BY PromotedApart DEF ListsAfter
  <2>3. Gated(lists["conds"], wait, sig.y) => Gated(li["conds"], wait, sig.y)
    <3> HIDE DEF li
    <3> QED
      BY <2>2 DEF Gated
  <2> HIDE DEF wa, li, qu
  <2> QED
    BY <1>1, <2>1, <2>2, <2>3
<1> QED
  BY <1>2, <1>3

\* ... and then the place where it parks.
LEMMA ActivateApart ==
  ASSUME SlotTypes, Apart(lists, queue, batch, running, wait), running # 0, Slot!Activate
  PROVE  /\ Apart(lists', queue', batch', running', wait')
         /\ sig' \in Sigs /\ lists'["reactive"] = lists["reactive"]
         /\ pass.noted => pass'.noted
         /\ Gated(lists["conds"], wait, sig.y) =>
              pass'.noted \/ Gated(lists'["conds"], wait', sig'.y)
         /\ Members(queue[time]) \subseteq Members(queue'[time])
<1>1. PICK e \in IF left = 0 THEN {"none"} ELSE design.effects,
           place \in IF left = 0 THEN {"end"} ELSE design.places :
        /\ e = "fork" => Slot!Unborn # {}
        /\ place = "delay" => time < MaxTime
        /\ LET w == Slot!Parked(place, running, Slot!After(e))
           IN  /\ wait' = w.wait
               /\ lists' = w.lists
               /\ queue' = w.queue
               /\ sig' = w.sig
        /\ pass' = Slot!PassAfter(e)
  BY DEF Slot!Activate
<1>0. /\ e = "set" => pass'.noted
      /\ pass.noted => pass'.noted
  BY <1>1 DEF Slot!PassAfter, SlotTypes, Passes
<1>2. place \in AllPlaces /\ running \in Procs /\ time \in Times /\ running' = 0 /\ batch' = batch
  <2>1. place \in AllPlaces
    <3>1. design.places \subseteq AllPlaces
      BY SlotAssumption DEF SlotTypes, Design
    <3>2. "end" \in AllPlaces
      BY DEF AllPlaces
    <3> QED
      BY <1>1, <3>1, <3>2
  <2> QED
    BY <2>1 DEF SlotTypes, Slot!Activate
<1> DEFINE w == Slot!After(e)
           v == Slot!Parked(place, running, w)
<1>3. /\ Apart(w.lists, w.queue, batch, running, w.wait)
      /\ w.lists["reactive"] = lists["reactive"]
      /\ w.wait[running].on = wait[running].on
      /\ Gated(lists["conds"], wait, sig.y) => Gated(w.lists["conds"], w.wait, sig.y)
      /\ Members(queue[time]) \subseteq Members(w.queue[time])
  BY <1>1, EffectApart
<1>4. /\ w = [wait |-> w.wait, lists |-> w.lists, queue |-> w.queue, sig |-> w.sig]
      /\ w.sig \in Sigs /\ (e # "set" => w.sig.y = sig.y)
  <2>1. SigAfter(e) \in Sigs /\ (e # "set" => SigAfter(e).y = sig.y)
    BY SigAfterIs
  <2>2. \E a, b, c : w = [wait |-> a, lists |-> b, queue |-> c, sig |-> SigAfter(e)]
    BY EffectIs
  <2> HIDE DEF w
  <2> QED
    BY <2>1, <2>2
<1>5. wait' = v.wait /\ lists' = v.lists /\ queue' = v.queue /\ sig' = v.sig
  BY <1>1
<1> HIDE DEF w
<1>6. /\ w.wait \in [Procs -> Waits] /\ w.lists \in [ListNames -> Seq(Procs)]
      /\ w.queue \in [Times -> Seq(Procs)]
  BY <1>3 DEF Apart, Placed
<1>7. wait[running].on \notin {"unborn", "gone"}
  <2>1. PICK loc : Placed(loc, lists, queue, batch, running, wait)
    BY DEF Apart
  <2>2. {running} \cap Procs = On(loc, OnCpu) /\ Idle(wait) = On(loc, Nowhere)
    BY <2>1 DEF Placed
  <2> QED
    BY <1>2, <2>2, PlacesDiffer DEF On, Idle
<1>8. ParkedIn(v, running, w.wait, w.lists, w.queue, w.sig.y)
  <2>1. place = "delay" => time < MaxTime
    BY <1>1
  <2>2. w.wait[running].on \notin {"unborn", "gone"}
    BY <1>3, <1>7
  <2> QED
    BY <1>2, <1>4, <1>6, <2>1, <2>2, ParkedIs
<1> HIDE DEF v
<1>9. v.wait \in [Procs -> Waits] /\ v.sig \in Sigs
  BY <1>8 DEF ParkedIn
<1>13. Gated(lists["conds"], wait, sig.y) =>
         pass'.noted \/ Gated(lists'["conds"], wait', sig'.y)
  <2>1. CASE e = "set"
    BY <1>0, <2>1
  <2>2. CASE e # "set"
    BY <1>3, <1>4, <1>5, <1>8, <2>2 DEF ParkedIn
  <2> QED
    BY <2>1, <2>2
<1>15. Members(w.queue[time]) \subseteq Members(v.queue[time])
  <2>1. \/ v.queue = w.queue
        \/ \E t \in Times : v.queue = [w.queue EXCEPT ![t] = Append(@, running)]
    BY <1>8 DEF ParkedIn
  <2>2. \/ v.queue[time] = w.queue[time]
        \/ v.queue[time] = Append(w.queue[time], running)
    BY <1>2, <1>6, <2>1
  <2>3. w.queue[time] \in Seq(Procs)
    BY <1>2, <1>6
  <2> QED
    BY <1>2, <2>2, <2>3, AppendHas
<1>14. SUFFICES Apart(lists', queue', batch', running', wait')
                /\ lists'["reactive"] = lists["reactive"]
  BY <1>0, <1>3, <1>5, <1>9, <1>13, <1>15
<1>10. CASE Idle(v.wait) = Idle(w.wait) \cup {running} /\ v.lists = w.lists /\ v.queue = w.queue
  <2>1. Apart(w.lists, w.queue, batch, 0, v.wait)
    BY <1>2, <1>3, <1>9, <1>10, EndPlaced
  <2> QED
    BY <1>2, <1>3, <1>5, <1>9, <1>10, <2>1
<1>11. CASE /\ Idle(v.wait) = Idle(w.wait) /\ v.lists = w.lists
            /\ \E t \in Times : v.queue = [w.queue EXCEPT ![t] = Append(@, running)]
  <2>1. PICK t \in Times : v.queue = [w.queue EXCEPT ![t] = Append(@, running)]
    BY <1>11
  <2>2. Apart(w.lists, [w.queue EXCEPT ![t] = Append(@, running)], batch, 0, v.wait)
    BY <1>2, <1>3, <1>9, <1>11, DelayPlaced
  <2> QED
    BY <1>2, <1>3, <1>5, <1>9, <1>11, <2>1, <2>2
<1>12. CASE /\ Idle(v.wait) = Idle(w.wait) /\ v.queue = w.queue
            /\ \E l \in ListNames \ {"reactive"} :
                  v.lists = [w.lists EXCEPT ![l] = Append(@, running)]
  <2>1. PICK l \in ListNames \ {"reactive"} :
           v.lists = [w.lists EXCEPT ![l] = Append(@, running)]
    BY <1>12
  <2>2. Apart([w.lists EXCEPT ![l] = Append(@, running)], w.queue, batch, 0, v.wait)
    BY <1>2, <1>3, <1>9, <1>12, ParkPlaced
  <2>3. v.lists["reactive"] = w.lists["reactive"]
    BY <1>6, <2>1 DEF ListNames
  <2> QED
    BY <1>2, <1>3, <1>5, <1>9, <1>12, <2>1, <2>2, <2>3
<1> QED
  BY <1>8, <1>10, <1>11, <1>12 DEF ParkedIn

LEMMA RunApart ==
  ASSUME SlotTypes, Apart(lists, queue, batch, running, wait), Slot!Run
  PROVE  /\ Apart(lists', queue', batch', running', wait') /\ sig' \in Sigs
         /\ lists'["reactive"] = lists["reactive"] \/ pass'.moved
<1>1. running # 0 /\ running \in Procs
  BY DEF Slot!Run, SlotTypes
<1>2. CASE Slot!Activate
  BY <1>1, <1>2, ActivateApart
<1>3. ASSUME NEW l \in ListNames, lists' = [lists EXCEPT ![l] = Append(@, running)],
             running' = 0, UNCHANGED <<queue, batch, wait>>
      PROVE  Apart(lists', queue', batch', running', wait')
  <2>1. wait \in [Procs -> Waits]
    BY DEF SlotTypes
  <2>2. Apart([lists EXCEPT ![l] = Append(@, running)], queue, batch, 0, wait)
    BY <1>1, <2>1, ParkPlaced
  <2> QED
    BY <1>3, <2>2
<1>4. "reactive" \in ListNames /\ "conds" \in ListNames /\ "conds" # "reactive"
  BY DEF ListNames
<1>5. CASE Slot!SendToReactive
  <2>1. /\ lists' = [lists EXCEPT !["reactive"] = Append(@, running)] /\ running' = 0
        /\ UNCHANGED <<queue, batch, wait, sig>> /\ pass'.moved
    BY <1>5 DEF Slot!SendToReactive, Slot!Park, SlotTypes, Passes
  <2> QED
    BY <1>3, <1>4, <2>1 DEF SlotTypes
<1>7. CASE Slot!Defer
  <2>1. /\ queue' = [queue EXCEPT ![time] = Append(@, running)] /\ running' = 0
        /\ UNCHANGED <<lists, batch, wait, sig>>
    BY <1>7 DEF Slot!Defer
  <2>2. time \in Times /\ wait \in [Procs -> Waits] /\ sig \in Sigs
    BY DEF SlotTypes
  <2>3. Apart(lists, [queue EXCEPT ![time] = Append(@, running)], batch, 0, wait)
    BY <1>1, <2>2, DelayPlaced
  <2> QED
    BY <2>1, <2>2, <2>3
<1>6. CASE Slot!WaitAgain
  <2>1. /\ lists' = [lists EXCEPT !["conds"] = Append(@, running)] /\ running' = 0
        /\ UNCHANGED <<queue, batch, wait, sig>>
    BY <1>6 DEF Slot!WaitAgain, Slot!Park
  <2>2. lists'["reactive"] = lists["reactive"]
    BY <1>4, <2>1 DEF SlotTypes
  <2> QED
    BY <1>3, <1>4, <2>1, <2>2 DEF SlotTypes
<1> QED
  BY <1>2, <1>5, <1>6, <1>7 DEF Slot!Run

-----------------------------------------------------------------------------
(* Every process keeps its place, stage by stage. *)
Here == Apart(lists, queue, batch, running, wait)

LEMMA HereTypes ==
  ASSUME Here
  PROVE  /\ lists \in [ListNames -> Seq(Procs)] /\ queue \in [Times -> Seq(Procs)]
         /\ batch \in Seq(Procs) /\ running \in Procs \cup {0} /\ wait \in [Procs -> Waits]
         /\ \A l \in ListNames : Orderly(lists[l]) /\ Members(lists[l]) \subseteq Procs
BY MembersAre DEF Here, Apart, Placed, Orderly

LEMMA HereStays ==
  ASSUME Here, UNCHANGED <<lists, queue, batch, running, wait>>
  PROVE  Here'
BY DEF Here

\* A stage takes a whole list.
LEMMA TakeAllApart ==
  ASSUME Here, batch = <<>>, NEW l \in ListNames,
         batch' = lists[l], lists' = [lists EXCEPT ![l] = <<>>],
         UNCHANGED <<queue, running, wait>>
  PROVE  Here'
<1>1. Orderly(lists[l]) /\ Orderly(<<>>) /\ Members(<<>>) = {}
  BY HereTypes, NothingOnce
<1>2. Members(<<>>) = Members(lists[l]) \ Members(lists[l])
  BY <1>1
<1>3. Apart([lists EXCEPT ![l] = <<>>], queue, lists[l], running, wait)
  BY <1>1, <1>2, ToBatch DEF Here
<1> QED
  BY <1>3 DEF Here

LEMMA TakesApart ==
  ASSUME SlotInv, Here, Slot!PreNba \/ Slot!ClockingRun \/ Slot!Reactive \/ Slot!Hops
  PROVE  Here'
<1>1. {"inactive", "clocking", "reactive", "hops"} \subseteq ListNames
  BY DEF ListNames
<1>2. batch = <<>>
  BY DEF SlotInv, Tops, Top, Slot!PreNba, Slot!ClockingRun, Slot!Reactive, Slot!Hops, Slot!At
<1>3. \/ UNCHANGED <<lists, queue, batch, running, wait>>
      \/ \E l \in {"inactive", "clocking", "reactive", "hops"} :
            /\ batch' = lists[l] /\ lists' = [lists EXCEPT ![l] = <<>>]
            /\ UNCHANGED <<queue, running, wait>>
  BY DEF Slot!PreNba, Slot!ClockingRun, Slot!Reactive, Slot!Hops, Slot!Skip, Slot!TakeAll,
         Slot!places
<1>4. CASE UNCHANGED <<lists, queue, batch, running, wait>>
  BY <1>4, HereStays
<1>5. ASSUME NEW l \in {"inactive", "clocking", "reactive", "hops"},
             batch' = lists[l], lists' = [lists EXCEPT ![l] = <<>>],
             UNCHANGED <<queue, running, wait>>
      PROVE  Here'
  BY <1>1, <1>2, <1>5, TakeAllApart
<1> QED
  BY <1>3, <1>4, <1>5

\* The next of the batch or of the queue runs.
LEMMA NextRuns ==
  ASSUME SlotTypes, SlotInv, Here, Slot!RunBatch \/ Slot!WaitRun \/ Slot!Active
  PROVE  Here'
<1>1. running = 0 /\ time \in Times
  BY DEF SlotTypes, Slot!RunBatch, Slot!WaitRun, Slot!Active, Slot!At
<1>2. CASE UNCHANGED <<lists, queue, batch, running, wait>>
  BY <1>2, HereStays
<1>3. CASE batch # <<>> /\ running' = Head(batch) /\ batch' = Tail(batch)
           /\ UNCHANGED <<lists, queue, wait>>
  <2>1. Apart(lists, queue, Tail(batch), Head(batch), wait)
    BY <1>1, <1>3, BatchRuns DEF Here
  <2> QED
    BY <1>3, <2>1 DEF Here
<1>4. CASE queue[time] # <<>> /\ running' = Head(queue[time])
           /\ queue' = [queue EXCEPT ![time] = Tail(@)] /\ UNCHANGED <<lists, batch, wait>>
  <2>1. Apart(lists, [queue EXCEPT ![time] = Tail(@)], batch, Head(queue[time]), wait)
    BY <1>1, <1>4, QueuedRuns DEF Here
  <2> QED
    BY <1>4, <2>1 DEF Here
<1> QED
  BY <1>2, <1>3, <1>4 DEF Slot!RunBatch, Slot!WaitRun, Slot!Active

\* The #0 continuations become active.
LEMMA PromoteApart ==
  ASSUME SlotTypes, Here, Slot!Inactive \/ Slot!PromoteLast
  PROVE  Here'
<1>1. \/ UNCHANGED <<lists, queue, batch, running, wait>>
      \/ /\ queue' = [queue EXCEPT ![time] = @ \o lists["inactive"]]
         /\ lists' = [lists EXCEPT !["inactive"] = <<>>]
         /\ UNCHANGED <<batch, running, wait>>
  BY DEF Slot!Inactive, Slot!PromoteLast, Slot!Promote, Slot!Skip, Slot!places
<1>2. CASE UNCHANGED <<lists, queue, batch, running, wait>>
  BY <1>2, HereStays
<1>3. CASE /\ queue' = [queue EXCEPT ![time] = @ \o lists["inactive"]]
           /\ lists' = [lists EXCEPT !["inactive"] = <<>>]
           /\ UNCHANGED <<batch, running, wait>>
  <2>1. "inactive" \in ListNames /\ time \in Times
    BY DEF ListNames, SlotTypes
  <2>2. Orderly(lists["inactive"]) /\ Orderly(<<>>) /\ Members(<<>>) = {}
    BY <2>1, HereTypes, NothingOnce
  <2>3. Members(<<>>) = Members(lists["inactive"]) \ Members(lists["inactive"])
    BY <2>2
  <2>4. Apart([lists EXCEPT !["inactive"] = <<>>],
              [queue EXCEPT ![time] = @ \o lists["inactive"]], batch, running, wait)
    BY <2>1, <2>2, <2>3, ToQueue DEF Here
  <2> QED
    BY <1>3, <2>4 DEF Here
<1> QED
  BY <1>1, <1>2, <1>3

\* A round of waits: the ready ones and the parked ones are queued.
LEMMA WaitRoundApart ==
  ASSUME SlotTypes, Here, Slot!WaitRound
  PROVE  Here'
<1> DEFINE still == {p \in Procs : Slot!Kept(p)}
           ready == lists["ready"]
           wakes == Only(lists["conds"], Procs \ still)
           rest == Only(lists["conds"], still)
           l1 == [lists EXCEPT !["ready"] = <<>>]
           q1 == [queue EXCEPT ![time] = @ \o ready]
<1>1. /\ "ready" \in ListNames /\ "conds" \in ListNames /\ "ready" # "conds" /\ time \in Times
  BY DEF ListNames, SlotTypes
<1>2. /\ queue' = [queue EXCEPT ![time] = @ \o ready \o wakes]
      /\ lists' = [lists EXCEPT !["ready"] = <<>>, !["conds"] = rest]
      /\ UNCHANGED <<batch, running, wait>>
  <2>1. /\ Slot!Only(lists["conds"], Procs \ still) = wakes
        /\ Slot!Only(lists["conds"], still) = rest
    <3> HIDE DEF still
    <3> QED
      BY OnlySame
  <2>2. /\ queue' = [queue EXCEPT ![time] = @ \o ready \o Slot!Only(lists["conds"], Procs \ still)]
        /\ lists' = [lists EXCEPT !["ready"] = <<>>,
                        !["conds"] = Slot!Only(@, still)]
        /\ UNCHANGED <<batch, running, wait>>
    BY DEF Slot!WaitRound, Slot!Procs, Procs
  <2> HIDE DEF still, wakes, rest, ready
  <2> QED
    BY <1>1, <2>1, <2>2, HereTypes
<1>3. /\ Orderly(ready) /\ Orderly(<<>>) /\ Members(<<>>) = Members(ready) \ Members(ready)
      /\ Orderly(lists["conds"]) /\ Members(lists["conds"]) \subseteq Procs
      /\ lists \in [ListNames -> Seq(Procs)] /\ queue \in [Times -> Seq(Procs)]
  BY <1>1, HereTypes, NothingOnce
<1>4. Apart(l1, q1, batch, running, wait)
  BY <1>1, <1>3, ToQueue DEF Here
<1>5. l1["conds"] = lists["conds"] /\ q1[time] = queue[time] \o ready
  BY <1>1, <1>3
<1>6. /\ Orderly(wakes) /\ Orderly(rest) /\ Members(wakes) \subseteq Members(lists["conds"])
      /\ Members(rest) = Members(lists["conds"]) \ Members(wakes)
  <2> HIDE DEF still
  <2>1. /\ Orderly(wakes) /\ Members(wakes) = Members(lists["conds"]) \cap (Procs \ still)
        /\ Orderly(rest) /\ Members(rest) = Members(lists["conds"]) \cap still
    BY <1>3, OnlyIs
  <2> HIDE DEF wakes, rest
  <2> QED
    BY <1>3, <2>1
<1>7. Apart([l1 EXCEPT !["conds"] = rest], [q1 EXCEPT ![time] = @ \o wakes],
            batch, running, wait)
  <2> HIDE DEF l1, q1, wakes, rest
  <2> QED
    BY <1>1, <1>4, <1>5, <1>6, ToQueue
<1>8. [l1 EXCEPT !["conds"] = rest] = lists' /\ [q1 EXCEPT ![time] = @ \o wakes] = queue'
  <2> HIDE DEF wakes, rest, ready
  <2> QED
    BY <1>1, <1>2, <1>3
<1> HIDE DEF l1, q1, wakes, rest
<1> QED
  BY <1>2, <1>7, <1>8 DEF Here

\* The triggered waiters: those of a clocking event are put aside.
LEMMA WaitersApart ==
  ASSUME SlotInv, Here, Slot!Waiters
  PROVE  Here'
<1> DEFINE clocked == {p \in Procs : wait[p].on = "cb"}
           woken == Only(lists["events"], Triggered)
           go == Only(woken, Procs \ clocked)
           aside == Only(woken, clocked)
           rest == Only(lists["events"], Procs \ Triggered)
           mid == Only(lists["events"], Procs \ Members(go))
           l1 == [lists EXCEPT !["events"] = mid]
<1>1. "events" \in ListNames /\ "clocking" \in ListNames /\ "events" # "clocking"
  BY DEF ListNames
<1>2. \/ UNCHANGED <<lists, queue, batch, running, wait>>
      \/ /\ batch' = go
         /\ lists' = [lists EXCEPT !["events"] = rest, !["clocking"] = @ \o aside]
         /\ UNCHANGED <<queue, running, wait>>
  <2>1. /\ Slot!Only(lists["events"], Slot!Triggered) = woken
        /\ Slot!Only(woken, Procs \ clocked) = go
        /\ Slot!Only(woken, clocked) = aside
        /\ Slot!Only(lists["events"], Procs \ Slot!Triggered) = rest
    <3>1. Slot!Triggered = Triggered
      BY DEF Slot!Triggered, Triggered, Slot!Procs, Procs
    <3> HIDE DEF clocked
    <3> QED
      BY <3>1, OnlySame
  <2> DEFINE w == Slot!Only(lists["events"], Slot!Triggered)
             c == {p \in Slot!Procs : wait[p].on = "cb"}
  <2>2. \/ UNCHANGED <<lists, queue, batch, running, wait>>
        \/ /\ batch' = Slot!Only(w, Slot!Procs \ c)
           /\ lists' = [lists EXCEPT
                 !["events"] = Slot!Only(@, Slot!Procs \ Slot!Triggered),
                 !["clocking"] = @ \o Slot!Only(w, c)]
           /\ UNCHANGED <<queue, running, wait>>
    BY DEF Slot!Waiters, Slot!places
  <2>3. Slot!Procs = Procs /\ c = clocked
    BY DEF Slot!Procs, Procs
  <2>4. w = woken
    BY <2>1
  <2> HIDE DEF w, c, clocked, woken, go, aside, rest
  <2> QED
    BY <1>1, <2>1, <2>2, <2>3, <2>4, HereTypes
<1>3. CASE UNCHANGED <<lists, queue, batch, running, wait>>
  BY <1>3, HereStays
<1>4. CASE /\ batch' = go
           /\ lists' = [lists EXCEPT !["events"] = rest, !["clocking"] = @ \o aside]
           /\ UNCHANGED <<queue, running, wait>>
  <2>1. /\ Orderly(lists["events"]) /\ Members(lists["events"]) \subseteq Procs
        /\ lists \in [ListNames -> Seq(Procs)] /\ batch = <<>>
    BY <1>1, HereTypes DEF SlotInv, Tops, Top, Slot!Waiters, Slot!At
  <2>2. Orderly(woken) /\ Members(woken) = Members(lists["events"]) \cap Triggered
    BY <2>1, OnlyIs
  <2>3. /\ Orderly(go) /\ Members(go) = Members(woken) \cap (Procs \ clocked)
        /\ Orderly(aside) /\ Members(aside) = Members(woken) \cap clocked
    <3> HIDE DEF clocked, woken
    <3> QED
      BY <2>2, OnlyIs
  <2>4. /\ Orderly(rest) /\ Members(rest) = Members(lists["events"]) \cap (Procs \ Triggered)
    BY <2>1, OnlyIs
  <2>5. /\ Orderly(mid) /\ Members(mid) = Members(lists["events"]) \cap (Procs \ Members(go))
    <3> HIDE DEF go
    <3> QED
      BY <2>1, OnlyIs
  <2> HIDE DEF clocked, woken, go, aside, rest, mid
  <2>6. /\ Members(mid) = Members(lists["events"]) \ Members(go)
        /\ Members(go) \subseteq Members(lists["events"])
        /\ Members(aside) \subseteq Members(mid)
        /\ Members(rest) = Members(mid) \ Members(aside)
    BY <2>1, <2>2, <2>3, <2>4, <2>5
  <2>7. Apart([lists EXCEPT !["events"] = mid], queue, go, running, wait)
    BY <1>1, <2>1, <2>3, <2>5, <2>6, ToBatch DEF Here
  <2>8. /\ l1["events"] = mid
        /\ [l1 EXCEPT !["clocking"] = @ \o aside, !["events"] = rest] = lists'
    BY <1>1, <1>4, <2>1
  <2>9. Apart(l1, queue, go, running, wait)
    BY <2>7
  <2> HIDE DEF l1
  <2>10. Apart([l1 EXCEPT !["clocking"] = @ \o aside, !["events"] = rest], queue, go,
               running, wait)
    BY <1>1, <2>3, <2>4, <2>6, <2>8, <2>9, ToList
  <2> QED
    BY <1>4, <2>8, <2>10 DEF Here
<1> QED
  BY <1>2, <1>3, <1>4

\* A livelock is broken: what is stuck goes to a later time.
LEMMA BreakApart ==
  ASSUME SlotTypes, Here, Slot!BreakLivelock \/ Slot!BreakSpinner
  PROVE  Here'
<1>0. PICK u : Slot!BreakTo(u)
  BY DEF Slot!BreakLivelock, Slot!BreakSpinner
<1>1. PICK t \in Times \ {time} :
         queue' = [queue EXCEPT ![time] = <<>>, ![t] = @ \o queue[time] \o lists["inactive"]]
  BY <1>0 DEF Slot!BreakTo, Slot!Timed, Slot!Times, Times
<1> DEFINE q1 == [queue EXCEPT ![t] = @ \o queue[time], ![time] = <<>>]
<1>2. /\ time \in Times /\ "inactive" \in ListNames
      /\ lists' = [lists EXCEPT !["inactive"] = <<>>] /\ UNCHANGED <<batch, running, wait>>
  BY <1>0 DEF ListNames, SlotTypes, Slot!BreakTo
<1>3. Orderly(lists["inactive"]) /\ Orderly(<<>>) /\ Members(<<>>) = {}
  BY <1>2, HereTypes, NothingOnce
<1>4. Members(<<>>) = Members(lists["inactive"]) \ Members(lists["inactive"])
  BY <1>3
<1>5. Apart(lists, q1, batch, running, wait)
  BY <1>2, QueueMoves DEF Here
<1>6. queue' = [q1 EXCEPT ![t] = @ \o lists["inactive"]]
  BY <1>1, <1>2, HereTypes
<1> HIDE DEF q1
<1>7. Apart([lists EXCEPT !["inactive"] = <<>>], [q1 EXCEPT ![t] = @ \o lists["inactive"]],
            batch, running, wait)
  BY <1>2, <1>3, <1>4, <1>5, ToQueue
<1> QED
  BY <1>2, <1>6, <1>7 DEF Here

-----------------------------------------------------------------------------
(* The other variables keep their types. *)
OtherTypes ==
    /\ design \in Designs /\ time \in Times
    /\ sig \in Sigs /\ pass \in Passes
    /\ strobe \in BOOLEAN /\ asserts \subseteq Procs /\ stall \in Nat
    /\ left \in 0 .. design.runs

LEMMA TypesFrom ==
  ASSUME Here, OtherTypes
  PROVE  SlotTypes
BY HereTypes DEF SlotTypes, OtherTypes

LEMMA TypesLater == Here' /\ OtherTypes' => SlotTypes'
<1>1. Here /\ OtherTypes => SlotTypes
  BY TypesFrom
<1> QED
  BY <1>1, PTL

LEMMA AppliedTypes ==
  ASSUME SlotTypes
  PROVE  Slot!Applied \in Sigs
<1>1. /\ sig \in Sigs /\ sig.ev \in 0 .. 2 /\ sig.nba \in 0 .. 2 /\ sig.x \in 0 .. 1
      /\ Slot!EventAfter(sig.ev, sig.triggers) \in 0 .. 2
  BY DEF SlotTypes, Sigs, Slot!EventAfter
<1> DEFINE x == IF sig.nba = Slot!NoNba THEN sig.x ELSE sig.nba
<1>2. x \in 0 .. 1
  BY <1>1 DEF Slot!NoNba
<1>3. Slot!Applied = [sig EXCEPT !.x = x, !.ev = Slot!EventAfter(sig.ev, sig.triggers),
                                 !.nba = 2, !.triggers = 0, !.hops = {}]
  BY DEF Slot!Applied, Slot!NoNba
<1> HIDE DEF x
<1>4. 2 \in 0 .. 2 /\ 0 \in Nat /\ {} \in SUBSET Procs
  OBVIOUS
<1>5. ASSUME NEW a \in 0 .. 1, NEW b \in 0 .. 2
      PROVE  [sig EXCEPT !.x = a, !.ev = b, !.nba = 2, !.triggers = 0, !.hops = {}] \in Sigs
  BY <1>1, <1>4 DEF Sigs
<1> QED
  BY <1>1, <1>2, <1>3, <1>5

LEMMA PrevTypes ==
  ASSUME NEW s \in Sigs, NEW x \in 0 .. 1
  PROVE  [s EXCEPT !.prev = x] \in Sigs
BY DEF Sigs

LEMMA SnapshotTypes ==
  ASSUME SlotTypes
  PROVE  Slot!Snapshot \in 0 .. 1
BY DEF SlotTypes, Sigs, Slot!Snapshot

\* While the clock and the signals stay, only the flags of the passes can change.
LEMMA QuietTypes ==
  ASSUME SlotTypes, sig' \in Sigs, pass' \in Passes,
         UNCHANGED <<design, time, asserts, stall, left>>,
         strobe' = strobe \/ strobe' = FALSE
  PROVE  OtherTypes'
BY DEF SlotTypes, OtherTypes

LEMMA NoHitsAre == Slot!NoHits \in [Procs -> Nat]
BY DEF Slot!NoHits, Slot!Procs, Procs

\* The flags that a stage sets.
LEMMA PassFlagTypes ==
  ASSUME NEW p \in Passes
  PROVE  /\ \A b \in BOOLEAN : /\ [p EXCEPT !.moved = b] \in Passes
                               /\ [p EXCEPT !.wrote = FALSE, !.before = b] \in Passes
                               /\ [p EXCEPT !.fired = b] \in Passes
                               /\ [p EXCEPT !.fired = b, !.recorded = FALSE] \in Passes
         /\ \A m \in Modes : [p EXCEPT !.mode = m] \in Passes
         /\ \A h \in [Procs -> Nat] : [p EXCEPT !.hits = h] \in Passes
         /\ \A r \in SUBSET Procs :
               [p EXCEPT !.progress = FALSE, !.noted = FALSE, !.rechecked = r] \in Passes
         /\ \A r \in SUBSET Procs : \A h \in [Procs -> Nat] :
               /\ [p EXCEPT !.hits = h, !.rechecked = r] \in Passes
               /\ [p EXCEPT !.advanced = FALSE, !.defer = FALSE, !.hits = h,
                            !.rechecked = r] \in Passes
BY DEF Passes

LEMMA RunTypes ==
  ASSUME SlotTypes, Here, Slot!Run
  PROVE  OtherTypes'
<1>1. sig' \in Sigs /\ running \in Procs
  BY RunApart DEF Here, Slot!Run, SlotTypes
<1>2. CASE Slot!SendToReactive
  <2>1. pass' \in Passes
    BY <1>2 DEF Slot!SendToReactive, SlotTypes, Passes
  <2> QED
    BY <1>1, <1>2, <2>1, QuietTypes DEF Slot!SendToReactive, Slot!output
<1>5. Slot!HitsAfter \in [Procs -> Nat]
  <2>1. pass.hits \in [Procs -> Nat]
    BY DEF SlotTypes, Passes
  <2>2. IF design.stallLimit > 0 THEN pass.hits[running] + 1 \in Nat
                                ELSE pass.hits[running] \in Nat
    BY <1>1, <2>1
  <2> QED
    BY <1>1, <2>1, <2>2 DEF Slot!HitsAfter
<1>6. asserts \ {running} \subseteq Procs
  BY DEF SlotTypes
<1>7. CASE Slot!Defer
  <2>1. pass' \in Passes
    BY <1>7 DEF Slot!Defer, SlotTypes, Passes
  <2> QED
    BY <1>1, <1>6, <1>7, <2>1 DEF Slot!Defer, SlotTypes, OtherTypes
<1>3. CASE Slot!WaitAgain
  <2>1. pass' \in Passes
    <3>1. pass' = [pass EXCEPT !.hits = Slot!HitsAfter]
      BY <1>3 DEF Slot!WaitAgain
    <3> QED
      BY <1>5, <3>1, PassFlagTypes DEF SlotTypes
  <2> QED
    BY <1>1, <1>3, <1>6, <2>1 DEF Slot!WaitAgain, SlotTypes, OtherTypes
<1>4. CASE Slot!Activate
  <2>1. PICK e : /\ pass' = Slot!PassAfter(e)
                 /\ strobe' = (strobe \/ e = "strobe")
                 /\ asserts' = (asserts \ {running})
                                 \cup (IF e = "assert" THEN {running} ELSE {})
                 /\ left' = IF left = 0 THEN 0 ELSE left - 1
    BY <1>4 DEF Slot!Activate
  <2>2. design' = design /\ time' = time /\ stall' = stall
    BY <1>4 DEF Slot!Activate
  <2>3. pass' \in Passes
    <3>1. PICK a \in BOOLEAN, b \in BOOLEAN, c \in BOOLEAN, d \in BOOLEAN, n \in BOOLEAN :
             Slot!PassAfter(e) = [pass EXCEPT !.wrote = a, !.recorded = b, !.progress = c,
                                              !.advanced = d, !.noted = n,
                                              !.hits = Slot!HitsAfter]
      <4> DEFINE a == pass.wrote \/ e \in {"write", "fire"}
                 b == pass.recorded \/ (e = "write" /\ design.watched /\ Slot!Recording)
                 c == pass.progress \/ Slot!GoesOn(e)
                 d == pass.advanced \/ Slot!GoesOn(e)
                 n == pass.noted \/ e \in {"set", "other"}
      <4>1. Slot!PassAfter(e) = [pass EXCEPT !.wrote = a, !.recorded = b, !.progress = c,
                                             !.advanced = d, !.noted = n,
                                             !.hits = Slot!HitsAfter]
        BY DEF Slot!PassAfter
      <4>2. /\ a \in BOOLEAN /\ b \in BOOLEAN /\ c \in BOOLEAN /\ d \in BOOLEAN
            /\ n \in BOOLEAN
        OBVIOUS
      <4> QED
        BY <4>1, <4>2
    <3> QED
      BY <1>5, <2>1, <3>1 DEF SlotTypes, Passes
  <2>4. asserts' \subseteq Procs /\ strobe' \in BOOLEAN
    BY <1>1, <2>1 DEF SlotTypes
  <2>5. left' \in 0 .. design.runs
    <3>1. design.runs \in Nat /\ left \in 0 .. design.runs
      BY SlotAssumption DEF SlotTypes, Design
    <3> QED
      BY <2>1, <3>1
  <2> QED
    BY <1>1, <2>2, <2>3, <2>4, <2>5 DEF OtherTypes, SlotTypes
<1> QED
  BY <1>2, <1>3, <1>4, <1>7 DEF Slot!Run

LEMMA EdgesTypes ==
  ASSUME SlotTypes, Slot!Edges \/ Slot!Mark
  PROVE  OtherTypes'
<1>0. sig \in Sigs /\ sig.x \in 0 .. 1 /\ sig.x \in 0 .. 2 /\ pass \in Passes
  BY DEF SlotTypes, Sigs
<1>1. /\ sig \in Sigs /\ sig.x \in 0 .. 1 /\ pass \in Passes /\ pass.fired \in BOOLEAN
      /\ [sig EXCEPT !.ticked = sig.x] \in Sigs
  BY <1>0 DEF Sigs, Passes
<1>2. CASE Slot!Edges
  <2> DEFINE fires == design.watched /\ sig.x # sig.prev
  <2>1. /\ pass' = [pass EXCEPT !.fired = @ \/ fires, !.recorded = FALSE]
        /\ sig' = [sig EXCEPT !.prev = IF fires THEN sig.x ELSE @]
        /\ UNCHANGED <<design, time, strobe, asserts, stall, left>>
    BY <1>2 DEF Slot!Edges, Slot!output
  <2>2. pass' \in Passes
    BY <1>1, <2>1 DEF Passes
  <2>3. sig' \in Sigs
    BY <1>1, <2>1 DEF Sigs
  <2> QED
    BY <2>1, <2>2, <2>3, QuietTypes
<1>3. CASE Slot!Mark
  BY <1>1, <1>3, PassFlagTypes, QuietTypes DEF Slot!Mark, Slot!output
<1> QED
  BY <1>2, <1>3

LEMMA CommitTypes ==
  ASSUME SlotTypes, Slot!WaitTest \/ Slot!CascadeCommit \/ Slot!Commit
  PROVE  OtherTypes'
<1>1. /\ Slot!Applied \in Sigs /\ [Slot!Applied EXCEPT !.prev = Slot!Snapshot] \in Sigs
      /\ sig \in Sigs /\ pass \in Passes
  BY AppliedTypes, SnapshotTypes, PrevTypes DEF SlotTypes
<1>2. sig' \in Sigs
  BY <1>1 DEF Slot!WaitTest, Slot!CascadeCommit, Slot!Commit, Slot!Skip
<1>3. pass' \in Passes
  BY <1>1, PassFlagTypes DEF Slot!WaitTest, Slot!CascadeCommit, Slot!Commit, Slot!Skip
<1> QED
  BY <1>2, <1>3, QuietTypes
     DEF Slot!WaitTest, Slot!CascadeCommit, Slot!Commit, Slot!Skip, Slot!output

LEMMA WaitRoundTypes ==
  ASSUME SlotTypes, Here, Slot!WaitRound
  PROVE  OtherTypes'
<1> DEFINE still == {p \in Procs : Slot!Kept(p)}
           wakes == Slot!Only(lists["conds"], Procs \ still)
           r == IF pass.mode = "repass"
                THEN pass.rechecked \cup {wakes[i] : i \in DOMAIN wakes} ELSE pass.rechecked
<1>1. /\ pass' = [pass EXCEPT !.progress = FALSE, !.noted = FALSE, !.rechecked = r]
      /\ UNCHANGED <<design, time, sig, strobe, asserts, stall, left>>
  BY DEF Slot!WaitRound, Slot!output, Slot!Procs, Procs
<1>2. r \in SUBSET Procs
  <2>1. /\ pass.rechecked \subseteq Procs
        /\ Orderly(lists["conds"])
    BY HereTypes DEF SlotTypes, Passes, ListNames
  <2>2. wakes \in Seq(Procs)
    <3> HIDE DEF still
    <3> QED
      BY <2>1, OnlyIs, OnlySame DEF Orderly
  <2> HIDE DEF wakes
  <2> QED
    BY <2>1, <2>2
<1> HIDE DEF r
<1>3. pass' \in Passes /\ sig' \in Sigs
  BY <1>1, <1>2, PassFlagTypes DEF SlotTypes
<1> QED
  BY <1>1, <1>3, QuietTypes

\* The stages that set a flag or none.
LEMMA StageTypes ==
  ASSUME SlotTypes,
         \/ Slot!RunBatch \/ Slot!Waiters \/ Slot!WaitsStart \/ Slot!WaitNone \/ Slot!WaitRun
         \/ Slot!PreNba \/ Slot!Cascade \/ Slot!CascadeTest \/ Slot!Active \/ Slot!Inactive
         \/ Slot!Clocking \/ Slot!ClockingNone \/ Slot!ClockingRun \/ Slot!ClockingEnd
         \/ Slot!Reactive \/ Slot!Hops \/ Slot!Postponed \/ Slot!Late \/ Slot!PromoteLast
         \/ Slot!Stop
  PROVE  OtherTypes'
<1>1. sig' = sig /\ UNCHANGED <<design, time, asserts, stall, left>>
      /\ (strobe' = strobe \/ strobe' = FALSE)
  BY DEF Slot!RunBatch, Slot!Waiters, Slot!WaitsStart, Slot!WaitsAs, Slot!WaitNone,
         Slot!WaitRun, Slot!PreNba, Slot!Cascade, Slot!CascadeTest, Slot!Active,
         Slot!Inactive, Slot!Clocking, Slot!ClockingNone, Slot!ClockingRun,
         Slot!ClockingEnd, Slot!Reactive, Slot!Hops, Slot!Postponed, Slot!Late,
         Slot!PromoteLast, Slot!Stop, Slot!Skip, Slot!TakeAll, Slot!Promote, Slot!output
<1>2. pass \in Passes /\ sig \in Sigs
  BY DEF SlotTypes
<1>3. \/ pass' = pass
      \/ \E b \in BOOLEAN : pass' = [pass EXCEPT !.moved = b]
      \/ \E b \in BOOLEAN : pass' = [pass EXCEPT !.wrote = FALSE, !.before = b]
      \/ \E m \in Modes : pass' = [pass EXCEPT !.mode = m]
  <2>1. CASE Slot!WaitsStart
    BY <2>1 DEF Slot!WaitsStart, Slot!WaitsAs, Modes
  <2>2. CASE Slot!WaitRun \/ Slot!Reactive \/ Slot!Hops \/ Slot!Late
    BY <2>2 DEF Slot!WaitRun, Slot!Reactive, Slot!Hops, Slot!Late, Slot!Skip
  <2>3. CASE Slot!ClockingEnd
    <3> DEFINE b == \/ pass.moved \/ pass.wrote \/ pass.noted # pass.before
                    \/ Slot!Pending \/ queue[time] # <<>>
                    \/ \E l \in {"ready", "hops", "reactive", "inactive"} : lists[l] # <<>>
    <3>1. pass' = [pass EXCEPT !.moved = b]
      BY <2>3 DEF Slot!ClockingEnd
    <3>2. b \in BOOLEAN
      OBVIOUS
    <3> QED
      BY <3>1, <3>2
  <2>4. CASE Slot!Clocking
    <3>1. pass.noted \in BOOLEAN
      BY <1>2 DEF Passes
    <3> QED
      BY <2>4, <3>1 DEF Slot!Clocking
  <2>5. CASE \/ Slot!RunBatch \/ Slot!Waiters \/ Slot!WaitNone \/ Slot!PreNba \/ Slot!Cascade
             \/ Slot!CascadeTest \/ Slot!Active \/ Slot!Inactive \/ Slot!ClockingNone
             \/ Slot!ClockingRun \/ Slot!Postponed \/ Slot!PromoteLast \/ Slot!Stop
    BY <2>5 DEF Slot!RunBatch, Slot!Waiters, Slot!WaitNone, Slot!PreNba, Slot!Cascade,
         Slot!CascadeTest, Slot!Active, Slot!Inactive, Slot!ClockingNone,
         Slot!ClockingRun, Slot!Postponed, Slot!PromoteLast, Slot!Stop, Slot!Skip,
         Slot!Promote
  <2> QED
    BY <2>1, <2>2, <2>3, <2>4, <2>5
<1>4. pass' \in Passes
  BY <1>2, <1>3, PassFlagTypes
<1> QED
  BY <1>1, <1>2, <1>4, QuietTypes

\* A new tick, at this time or at another one.
LEMMA TickTypes ==
  ASSUME SlotTypes, NEW t \in Times, Slot!TickAt(t)
  PROVE  sig' \in Sigs /\ pass' \in Passes /\ time' \in Times
<1>1. sig' \in Sigs
  BY SnapshotTypes, PrevTypes DEF SlotTypes, Slot!TickAt
<1> DEFINE r == IF t = time THEN pass.rechecked ELSE {}
           h == IF t = time THEN pass.hits ELSE Slot!NoHits
<1>2. pass' = [pass EXCEPT !.advanced = FALSE, !.defer = FALSE, !.hits = h, !.rechecked = r]
  BY DEF Slot!TickAt
<1>3. r \in SUBSET Procs /\ h \in [Procs -> Nat] /\ pass \in Passes
  BY NoHitsAre DEF SlotTypes, Passes
<1> HIDE DEF r, h
<1>4. pass' \in Passes
  BY <1>2, <1>3, PassFlagTypes
<1> QED
  BY <1>1, <1>4 DEF Slot!TickAt

LEMMA LoopTypes ==
  ASSUME SlotTypes,
         \/ Slot!SameTime \/ Slot!BreakLivelock \/ Slot!NextTick \/ Slot!BreakSpinner
         \/ Slot!Advance
  PROVE  OtherTypes'
<1>0. /\ sig \in Sigs /\ pass \in Passes /\ time \in Times /\ stall \in Nat
      /\ strobe \in BOOLEAN /\ asserts \subseteq Procs /\ design \in Designs
      /\ left \in 0 .. design.runs
  BY DEF SlotTypes
<1>1. CASE Slot!SameTime
  <2>1. Slot!Stalls \in Nat
    BY <1>0 DEF Slot!Stalls
  <2> QED
    BY <1>0, <1>1, <2>1 DEF Slot!SameTime, OtherTypes
<1>2. CASE Slot!BreakLivelock
  <2>1. PICK t \in Times : Slot!BreakTo(t) /\ time' = t
    BY <1>2 DEF Slot!BreakLivelock, Slot!Times, Times
  <2>2. pass' \in Passes
    <3>1. pass' = [pass EXCEPT !.hits = Slot!NoHits, !.rechecked = {}]
      BY <1>2 DEF Slot!BreakLivelock
    <3>2. {} \in SUBSET Procs
      OBVIOUS
    <3> QED
      BY <1>0, <3>1, <3>2, NoHitsAre, PassFlagTypes
  <2>3. UNCHANGED <<sig, design, strobe, asserts, left>> /\ stall' = 0
    BY <1>2, <2>1 DEF Slot!BreakLivelock, Slot!BreakTo
  <2> QED
    BY <1>0, <2>1, <2>2, <2>3 DEF OtherTypes
<1>3. CASE Slot!NextTick
  BY <1>0, <1>3, TickTypes DEF Slot!NextTick, OtherTypes
<1>4. CASE Slot!BreakSpinner
  <2>1. PICK t \in Times : Slot!BreakTo(t) /\ Slot!TickAt(t)
    BY <1>4 DEF Slot!BreakSpinner, Slot!Times, Times
  <2>2. sig' \in Sigs /\ pass' \in Passes /\ time' \in Times
    BY <2>1, TickTypes
  <2> QED
    BY <1>0, <2>1, <2>2 DEF Slot!BreakTo, OtherTypes
<1>5. CASE Slot!Advance
  <2>1. PICK t \in Times : Slot!TickAt(t)
    BY <1>5 DEF Slot!Advance, Slot!Timed, Slot!Times, Times
  <2>2. sig' \in Sigs /\ pass' \in Passes /\ time' \in Times
    BY <2>1, TickTypes
  <2>3. UNCHANGED <<design, strobe, asserts, left>> /\ stall' = 0
    BY <1>5 DEF Slot!Advance
  <2> QED
    BY <1>0, <2>2, <2>3 DEF OtherTypes
<1> QED
  BY <1>1, <1>2, <1>3, <1>4, <1>5

LEMMA MatureTypes ==
  ASSUME SlotTypes, Slot!Mature \/ Slot!Finished
  PROVE  OtherTypes'
BY DEF SlotTypes, OtherTypes, Slot!Mature, Slot!Finished, Slot!slotVars

\* What is to come while a process runs.
LEMMA WhileRunning ==
  ASSUME SlotInv, running # 0
  PROVE  /\ stack # <<>> /\ Top \in {"run", "waitRun", "active"} /\ "promote" \in Below
         /\ Members(stack) = {Top} \cup Below
         /\ \/ Drains(Below) /\ InCascade(Below)
            \/ /\ IsLate(Below) /\ Top \in {"run", "waitRun"}
               /\ WaitsLater(Below) \/ "waitTest" \in Below
               /\ \/ pass.moved
                  \/ "clockingRun" \in Below /\ "hops" \in Below /\ WaitsLater(Below)
<1>1. stack # <<>> /\ Top \in {"run", "waitRun", "active"}
  BY DEF SlotInv, Tops
<1>2. Fits(Top, Below, pass.mode) /\ Members(stack) = {Top} \cup Below
  BY <1>1, Standing
<1>3. CASE Top = "run"
  BY <1>1, <1>2, <1>3 DEF Fits, SlotInv, Tops
<1>4. CASE Top = "waitRun"
  BY <1>1, <1>2, <1>4 DEF Fits, SlotInv, Tops, InWait
<1>5. CASE Top = "active"
  BY <1>1, <1>2, <1>5 DEF Fits, InCascade
<1> QED
  BY <1>1, <1>3, <1>4, <1>5

\* Whatever an activation does, the regions it gives work to are still to come.
LEMMA ActivationKeeps ==
  ASSUME SlotInv, running # 0, running' = 0,
         UNCHANGED <<batch, stack>>,
         pass'.mode = pass.mode, pass.defer => pass'.defer,
         pass.wrote => pass'.wrote, pass.moved => pass'.moved,
         lists'["reactive"] = lists["reactive"] \/ pass'.moved
  PROVE  SlotInv'
<1>1. /\ stack # <<>> /\ Top \in {"run", "waitRun", "active"} /\ "promote" \in Below
      /\ Members(stack) = {Top} \cup Below
      /\ \/ Drains(Below) /\ InCascade(Below)
         \/ /\ IsLate(Below) /\ Top \in {"run", "waitRun"}
            /\ WaitsLater(Below) \/ "waitTest" \in Below
            /\ \/ pass.moved
               \/ "clockingRun" \in Below /\ "hops" \in Below /\ WaitsLater(Below)
  BY WhileRunning
<1>2. Top' = Top /\ Below' = Below /\ Members(stack') = Members(stack)
  BY DEF Top, Below
<1>3. Tops'
  BY <1>1, <1>2 DEF Tops, SlotInv, Top, Below
<1>4. "clockingEnd" \in Below => pass'.wrote
  BY <1>1 DEF SlotInv, Tops
<1>5. CASE Drains(Below) /\ InCascade(Below)
  BY <1>1, <1>2, <1>3, <1>4, <1>5
     DEF SlotInv, Due, Owed, Has, Again, Drains, InCascade, WaitsLater
<1>6. CASE IsLate(Below) /\ pass.moved /\ Top \in {"run", "waitRun"}
           /\ (WaitsLater(Below) \/ "waitTest" \in Below)
  BY <1>1, <1>2, <1>3, <1>6 DEF SlotInv, Due, Owed, Has, Again, IsLate, WaitsLater
<1>7. CASE /\ IsLate(Below) /\ Top \in {"run", "waitRun"}
           /\ "clockingRun" \in Below /\ "hops" \in Below /\ WaitsLater(Below)
  BY <1>1, <1>2, <1>3, <1>7 DEF SlotInv, Due, Owed, Has, Again, IsLate, WaitsLater
<1> QED
  BY <1>1, <1>5, <1>6, <1>7

LEMMA RunKeeps ==
  ASSUME SlotTypes, SlotInv, Here, Slot!Run
  PROVE  SlotInv'
<1>1. running # 0 /\ (lists'["reactive"] = lists["reactive"] \/ pass'.moved)
  BY RunApart DEF Slot!Run, Here
<1>2. CASE Slot!SendToReactive
  BY <1>1, <1>2, ActivationKeeps DEF Slot!SendToReactive, SlotTypes, Passes
<1>3. CASE Slot!WaitAgain
  BY <1>1, <1>3, ActivationKeeps DEF Slot!WaitAgain, SlotTypes, Passes
<1>4. CASE Slot!Activate
  <2>1. PICK e : pass' = Slot!PassAfter(e)
    BY <1>4 DEF Slot!Activate
  <2> QED
    BY <1>1, <1>4, <2>1, ActivationKeeps
       DEF Slot!Activate, Slot!PassAfter, SlotTypes, Passes
<1>5. CASE Slot!Defer
  BY <1>1, <1>5, ActivationKeeps DEF Slot!Defer, SlotTypes, Passes
<1> QED
  BY <1>2, <1>3, <1>4, <1>5 DEF Slot!Run

\* Only the choice of the next tick is to come.
LEMMA SpinnerShape ==
  ASSUME NEW m
  PROVE  /\ <<"spinner">> \in Seq(Stages) /\ <<"spinner">> # <<>>
         /\ ShapeOf(<<"spinner">>, m)
         /\ Head(<<"spinner">>) = "spinner" /\ Members(Tail(<<"spinner">>)) = {}
<1> DEFINE s == <<"spinner">>
<1>1. /\ s \in Seq(Stages) /\ s # <<>> /\ Head(s) = "spinner" /\ Tail(s) = <<>>
      /\ DOMAIN s = 1 .. 1 /\ Len(s) = 1 /\ s[1] = "spinner"
  BY DEF Stages
<1>2. Under(s, 1) = {}
  BY <1>1 DEF Under
<1>3. Members(<<>>) = {}
  BY DEF Members
<1>4. Fits("spinner", {}, m)
  BY DEF Fits, InWait
<1> HIDE DEF s
<1>6. \A i \in DOMAIN s : i = 1
  BY <1>1
<1>7. 1 .. Len(s) - 1 = {}
  BY <1>1
<1>5. ShapeOf(s, m)
  BY <1>1, <1>2, <1>4, <1>6, <1>7 DEF ShapeOf
<1> QED
  BY <1>1, <1>3, <1>5 DEF s

LEMMA StopKeeps ==
  ASSUME SlotInv, Slot!Stop
  PROVE  SlotInv'
<1>1. stack' = <<>> /\ running' = 0 /\ batch' = <<>>
  BY DEF Slot!Stop, Slot!At, Slot!places, SlotInv, Tops, Top
<1>2. Tops'
  BY <1>1 DEF Tops
<1>3. stack' \in Seq(Stages) /\ ShapeOf(stack', pass'.mode)
  BY <1>1, NoStage
<1> QED
  BY <1>1, <1>2, <1>3 DEF SlotInv

\* A new tick has all the regions to come.
LEMMA TickKeeps ==
  ASSUME SlotInv, NEW t, Slot!At("loop") \/ Slot!At("spinner"), Slot!TickAt(t),
         UNCHANGED <<batch, running>>
  PROVE  SlotInv'
<1>1. /\ stack' = Slot!Tick /\ running' = 0 /\ batch' = <<>>
  BY DEF Slot!TickAt, Slot!At, SlotInv, Tops, Top
<1>2. /\ stack' \in Seq(Stages) /\ stack' # <<>> /\ ShapeOf(stack', pass'.mode)
      /\ Top' = "active"
      /\ Members(stack') = {"active", "preNba", "commit", "edges", "cascade", "mark",
                            "clocking", "reactive", "hops", "postponed", "waitsEnd",
                            "late", "promote", "loop"}
      /\ Below' = {"preNba", "commit", "edges", "cascade", "mark", "clocking", "reactive",
                   "hops", "postponed", "waitsEnd", "late", "promote", "loop"}
  BY <1>1, TickShape DEF Top, Below
<1>3. Tops'
  BY <1>1, <1>2 DEF Tops
<1>4. Owed'
  BY <1>2 DEF Owed, Has, InCascade, WaitsLater
<1> QED
  BY <1>2, <1>3, <1>4 DEF SlotInv, Due

\* The slot goes on, or its limit of ticks is passed: the tick itself is over.
LEMMA SpinnerNext ==
  ASSUME SlotTypes, SlotInv, Slot!SameTime \/ Slot!BreakLivelock
  PROVE  /\ stack' = <<"spinner">> /\ Top' = "spinner"
         /\ running = 0 /\ running' = 0 /\ batch' = <<>> /\ pass'.mode = pass.mode
<1>1. /\ stack # <<>> /\ Top = "loop" /\ running = 0 /\ running' = running /\ batch' = batch
      /\ stack' = <<"spinner">> \o Tail(stack) /\ pass'.mode = pass.mode
  <2>1. /\ stack # <<>> /\ Top = "loop" /\ running = 0
        /\ stack' = <<"spinner">> \o Tail(stack)
    BY DEF Slot!SameTime, Slot!BreakLivelock, Slot!At, Slot!Goto, Top
  <2>2. running' = running /\ batch' = batch
    BY DEF Slot!SameTime, Slot!BreakLivelock, Slot!BreakTo, Slot!places
  <2>3. pass'.mode = pass.mode
    BY DEF Slot!SameTime, Slot!BreakLivelock, SlotTypes, Passes
  <2> QED
    BY <2>1, <2>2, <2>3
<1>2. Below = {} /\ batch = <<>> /\ Tail(stack) = <<>>
  BY <1>1, Standing DEF Fits, SlotInv, Tops
<1>3. <<"spinner">> \o <<>> = <<"spinner">>
  BY SpinnerShape
<1>4. stack' = <<"spinner">>
  BY <1>1, <1>2, <1>3
<1> QED
  BY <1>1, <1>2, <1>4, SpinnerShape DEF Top

LEMMA SpinnerKeeps ==
  ASSUME SlotTypes, SlotInv, Slot!SameTime \/ Slot!BreakLivelock
  PROVE  SlotInv'
<1>1. /\ stack' = <<"spinner">> /\ running = 0 /\ running' = 0 /\ batch' = <<>>
      /\ pass'.mode = pass.mode
  BY SpinnerNext
<1>5. /\ stack' \in Seq(Stages) /\ stack' # <<>> /\ ShapeOf(stack', pass'.mode)
      /\ Top' = "spinner" /\ Below' = {}
  BY <1>1, SpinnerShape DEF Top, Below
<1>6. Tops'
  BY <1>1, <1>5 DEF Tops
<1> QED
  BY <1>5, <1>6 DEF SlotInv

LEMMA MatureKeeps ==
  ASSUME SlotInv, Slot!Mature \/ Slot!Finished
  PROVE  SlotInv'
<1>1. UNCHANGED <<time, queue, lists, batch, running, stack, wait, sig, pass>>
  BY DEF Slot!Mature, Slot!Finished, Slot!places, Slot!slotVars
<1> QED
  BY <1>1 DEF SlotInv, Tops, Due, Owed, Seen, Top, Below, Has, Again, PendingData

\* The loop begins with the regions of a tick.
LEMMA SlotInvInit ==
  ASSUME Slot!Init
  PROVE  SlotInv
<1>1. stack = Slot!Tick /\ running = 0 /\ batch = <<>>
  BY DEF Slot!Init
<1>2. /\ stack \in Seq(Stages) /\ stack # <<>> /\ ShapeOf(stack, pass.mode)
      /\ Top = "active"
      /\ Members(stack) = {"active", "preNba", "commit", "edges", "cascade", "mark",
                           "clocking", "reactive", "hops", "postponed", "waitsEnd",
                           "late", "promote", "loop"}
      /\ Below = {"preNba", "commit", "edges", "cascade", "mark", "clocking", "reactive",
                  "hops", "postponed", "waitsEnd", "late", "promote", "loop"}
  BY <1>1, TickShape DEF Top, Below
<1>3. Tops
  BY <1>1, <1>2 DEF Tops
<1>4. Owed
  BY <1>2 DEF Owed, Has, InCascade, WaitsLater
<1> QED
  BY <1>2, <1>3, <1>4 DEF SlotInv, Due

LEMMA SlotStutter ==
  ASSUME SlotInv, UNCHANGED slotVars
  PROVE  SlotInv'
BY DEF SlotInv, Tops, Due, Owed, Seen, Top, Below, Has, Again, PendingData, slotVars
-----------------------------------------------------------------------------
(* The places of a process, and the beginning. *)
LEMMA EntriesNone ==
  ASSUME NEW s, NEW p, p \notin Members(s), NEW k, NEW o
  PROVE  Entries(k, o, s, p) = {}
BY DEF Entries, Members

Single(S) == \E e : S = {e}

LEMMA EntriesOne ==
  ASSUME NEW s, Orderly(s), NEW p \in Members(s), NEW k, NEW o
  PROVE  Single(Entries(k, o, s, p))
<1>1. PICK i \in DOMAIN s : s[i] = p
  BY DEF Members
<1>2. {j \in DOMAIN s : s[j] = p} = {i}
  BY <1>1 DEF Orderly, Once
<1>3. Entries(k, o, s, p) = {<<k, o, i>>}
  BY <1>2 DEF Entries
<1> QED
  BY <1>3 DEF Single

InLists(p) == UNION {Entries("list", l, lists[l], p) : l \in ListNames}
Queued(p)  == UNION {Entries("queue", t, queue[t], p) : t \in Times}

LEMMA WhereIs ==
  ASSUME NEW p
  PROVE  Where(p) = InLists(p) \cup Queued(p) \cup Entries("batch", 0, batch, p)
                      \cup {<<"running", 0, 0>> : r \in {running} \cap {p}}
BY Zenon DEF Where, InLists, Queued

LEMMA OnePlace ==
  ASSUME SlotTypes, Here
  PROVE  OneContinuation
<1> SUFFICES ASSUME NEW p \in Procs
             PROVE  IF wait[p].on \in {"unborn", "gone"} THEN Where(p) = {}
                    ELSE \E place \in Where(p) : Where(p) = {place}
  BY DEF OneContinuation
<1>1. PICK loc : Placed(loc, lists, queue, batch, running, wait)
  BY DEF Here, Apart
<1>2. /\ \A l \in ListNames : p \in Members(lists[l]) <=> loc[p] = InList(l)
      /\ \A t \in Times : p \in Members(queue[t]) <=> loc[p] = InQueue(t)
      /\ p \in Members(batch) <=> loc[p] = InBatch
      /\ p = running <=> loc[p] = OnCpu
      /\ wait[p].on \in {"unborn", "gone"} <=> loc[p] = Nowhere
      /\ loc[p] \in Spots
  BY <1>1 DEF Placed, On, Idle
<1> DEFINE L(l) == Entries("list", l, lists[l], p)
           Q(t) == Entries("queue", t, queue[t], p)
           B == Entries("batch", 0, batch, p)
           R == {<<"running", 0, 0>> : r \in {running} \cap {p}}
<1>3. Where(p) = InLists(p) \cup Queued(p) \cup B \cup R
  BY WhereIs
<1>13. /\ InLists(p) = UNION {L(l) : l \in ListNames}
       /\ Queued(p) = UNION {Q(t) : t \in Times}
  BY DEF InLists, Queued
<1>4. /\ \A l \in ListNames : loc[p] # InList(l) => L(l) = {}
      /\ \A t \in Times : loc[p] # InQueue(t) => Q(t) = {}
      /\ loc[p] # InBatch => B = {}
  BY <1>2, EntriesNone
<1>5. loc[p] # OnCpu => R = {}
  BY <1>2
<1>6. /\ \A l \in ListNames : loc[p] = InList(l) => \E e : L(l) = {e}
      /\ \A t \in Times : loc[p] = InQueue(t) => \E e : Q(t) = {e}
      /\ loc[p] = InBatch => \E e : B = {e}
  <2>1. ASSUME NEW l \in ListNames, loc[p] = InList(l) PROVE \E e : L(l) = {e}
    <3>1. Orderly(lists[l]) /\ p \in Members(lists[l])
      BY <1>1, <1>2, <2>1 DEF Placed
    <3>2. Single(Entries("list", l, lists[l], p))
      BY <3>1, EntriesOne
    <3> QED
      BY <3>2 DEF Single
  <2>2. ASSUME NEW t \in Times, loc[p] = InQueue(t) PROVE \E e : Q(t) = {e}
    <3>1. Orderly(queue[t]) /\ p \in Members(queue[t])
      BY <1>1, <1>2, <2>2 DEF Placed
    <3>2. Single(Entries("queue", t, queue[t], p))
      BY <3>1, EntriesOne
    <3> QED
      BY <3>2 DEF Single
  <2>3. ASSUME loc[p] = InBatch PROVE \E e : B = {e}
    <3>1. Orderly(batch) /\ p \in Members(batch)
      BY <1>1, <1>2, <2>3 DEF Placed
    <3>2. Single(Entries("batch", 0, batch, p))
      BY <3>1, EntriesOne
    <3> QED
      BY <3>2 DEF Single
  <2> HIDE DEF L, Q, B
  <2> QED
    BY <2>1, <2>2, <2>3
<1>7. loc[p] = OnCpu => R = {<<"running", 0, 0>>}
  BY <1>2
<1> HIDE DEF L, Q, B, R
<1>8. CASE loc[p] = Nowhere
  <2>1. Where(p) = {}
    BY <1>3, <1>13, <1>4, <1>5, <1>8, PlacesDiffer
  <2> QED
    BY <1>2, <1>8, <2>1
<1>9. ASSUME NEW e, Where(p) = {e}, loc[p] # Nowhere
      PROVE  IF wait[p].on \in {"unborn", "gone"} THEN Where(p) = {}
             ELSE \E place \in Where(p) : Where(p) = {place}
  BY <1>2, <1>9
<1>10. CASE loc[p] \in {InBatch, OnCpu}
  <2>1. InLists(p) = {} /\ Queued(p) = {}
    BY <1>13, <1>4, <1>10, PlacesDiffer
  <2>2. PICK e : B \cup R = {e}
    BY <1>13, <1>4, <1>5, <1>6, <1>7, <1>10, PlacesDiffer
  <2>3. Where(p) = {e}
    BY <1>3, <2>1, <2>2
  <2> QED
    BY <1>9, <1>10, <2>3, PlacesDiffer
<1>11. CASE \E l \in ListNames : loc[p] = InList(l)
  <2>1. PICK l \in ListNames : loc[p] = InList(l)
    BY <1>11
  <2>2. Queued(p) = {} /\ B = {} /\ R = {}
    BY <1>13, <1>4, <1>5, <2>1, PlacesDiffer
  <2>3. \A m \in ListNames \ {l} : L(m) = {}
    BY <1>13, <1>4, <2>1, PlacesDiffer
  <2>4. InLists(p) = L(l)
    BY <1>13, <2>3
  <2>5. PICK e : L(l) = {e}
    BY <1>6, <2>1
  <2>6. Where(p) = {e}
    BY <1>3, <2>2, <2>4, <2>5
  <2> QED
    BY <1>9, <2>1, <2>6, PlacesDiffer
<1>12. CASE \E t \in Times : loc[p] = InQueue(t)
  <2>1. PICK t \in Times : loc[p] = InQueue(t)
    BY <1>12
  <2>2. InLists(p) = {} /\ B = {} /\ R = {}
    BY <1>13, <1>4, <1>5, <2>1, PlacesDiffer
  <2>3. \A n \in Times \ {t} : Q(n) = {}
    BY <1>13, <1>4, <2>1, PlacesDiffer
  <2>4. Queued(p) = Q(t)
    BY <1>13, <2>3
  <2>5. PICK e : Q(t) = {e}
    BY <1>6, <2>1
  <2>6. Where(p) = {e}
    BY <1>3, <2>2, <2>4, <2>5
  <2> QED
    BY <1>9, <2>1, <2>6, PlacesDiffer
<1> QED
  BY <1>2, <1>8, <1>10, <1>11, <1>12 DEF Spots

LEMMA AllOnce ==
  /\ Orderly([p \in Procs |-> p])
  /\ Members([p \in Procs |-> p]) = Procs
<1>1. Procs = 1 .. MaxProcs /\ MaxProcs \in Nat
  BY SlotAssumption DEF Procs
<1>2. [p \in Procs |-> p] \in Seq(Procs)
  BY <1>1
<1> QED
  BY <1>2 DEF Orderly, Once, Members

\* At the beginning the processes are queued for time 0, those of a program block are
\* in the Reactive region, and the children have not begun.
LEMMA HereInit ==
  ASSUME Slot!Init
  PROVE  Here
<1> DEFINE roots == Only([p \in Procs |-> p], Procs \ design.children)
           first == Only(roots, Procs \ design.programs)
           prog == Only(roots, design.programs)
           there == [p \in Procs |-> IF p \in design.children THEN Nowhere
                                  ELSE IF p \in design.programs THEN InList("reactive")
                                  ELSE InQueue(0)]
<1>1. design.children \subseteq Procs /\ design.programs \subseteq Procs
  BY SlotAssumption DEF Slot!Init, Design
<1>2. /\ Orderly(roots) /\ Members(roots) = Procs \ design.children
  <2>1. Members(roots) = Procs \cap (Procs \ design.children) /\ Orderly(roots)
    BY AllOnce, OnlyIs
  <2> QED
    BY <2>1
<1>3. /\ Orderly(first) /\ Members(first) = (Procs \ design.children) \cap (Procs \ design.programs)
      /\ Orderly(prog) /\ Members(prog) = (Procs \ design.children) \cap design.programs
  <2> HIDE DEF roots
  <2> QED
    BY <1>2, OnlyIs
<1>4. /\ queue = [t \in Times |-> IF t = 0 THEN first ELSE <<>>]
      /\ lists = [l \in ListNames |-> IF l = "reactive" THEN prog ELSE <<>>]
      /\ batch = <<>> /\ running = 0
      /\ wait = [p \in Procs |->
                   [on |-> IF p \in design.children THEN "unborn" ELSE "run", seen |-> 0]]
  <2> DEFINE r == Slot!Only([p \in Slot!Procs |-> p], Slot!Procs \ design.children)
  <2>1. /\ queue = [t \in Slot!Times |->
                      IF t = 0 THEN Slot!Only(r, Slot!Procs \ design.programs) ELSE <<>>]
        /\ lists = [l \in Slot!ListNames |->
                      IF l = "reactive" THEN Slot!Only(r, design.programs) ELSE <<>>]
        /\ batch = <<>> /\ running = 0
        /\ wait = [p \in Slot!Procs |->
                     [on |-> IF p \in design.children THEN "unborn" ELSE "run", seen |-> 0]]
    BY DEF Slot!Init
  <2>2. Slot!Procs = Procs /\ Slot!Times = Times /\ Slot!ListNames = ListNames
    BY DEF Slot!Procs, Procs, Slot!Times, Times, Slot!ListNames, ListNames
  <2>3. r = roots
    BY <2>2, OnlySame
  <2>4. /\ Slot!Only(roots, Procs \ design.programs) = first
        /\ Slot!Only(roots, design.programs) = prog
    <3> HIDE DEF roots
    <3> QED
      BY OnlySame
  <2> HIDE DEF r, roots, first, prog
  <2> QED
    BY <2>1, <2>2, <2>3, <2>4
<1> HIDE DEF roots, first, prog
<1>5. /\ \A p \in Procs : there[p] \in Spots
      /\ On(there, InBatch) = {} /\ On(there, OnCpu) = {} /\ On(there, Nowhere) = design.children
      /\ On(there, InList("reactive")) = Members(prog) /\ On(there, InQueue(0)) = Members(first)
      /\ \A l \in ListNames : l # "reactive" => On(there, InList(l)) = {}
      /\ \A t \in Times : t # 0 => On(there, InQueue(t)) = {}
  <2>1. 0 \in Times /\ "reactive" \in ListNames
    BY SlotAssumption DEF Times, ListNames
  <2>2. /\ \A p \in Procs : there[p] \in {Nowhere, InList("reactive"), InQueue(0)}
    OBVIOUS
  <2>3. {Nowhere, InList("reactive"), InQueue(0)} \subseteq Spots
    BY <2>1 DEF Spots
  <2>4. On(there, InBatch) = {} /\ On(there, OnCpu) = {} /\ On(there, Nowhere) = design.children
    BY <1>1, PlacesDiffer DEF On
  <2>5. On(there, InList("reactive")) = Members(prog) /\ On(there, InQueue(0)) = Members(first)
    BY <1>1, <1>3, PlacesDiffer DEF On
  <2>6. \A l \in ListNames : l # "reactive" => On(there, InList(l)) = {}
    BY <2>1, PlacesDiffer DEF On
  <2>7. \A t \in Times : t # 0 => On(there, InQueue(t)) = {}
    BY <2>1, PlacesDiffer DEF On
  <2> QED
    BY <2>2, <2>3, <2>4, <2>5, <2>6, <2>7
<1> HIDE DEF there
<1>6. /\ queue \in [Times -> Seq(Procs)] /\ lists \in [ListNames -> Seq(Procs)]
      /\ wait \in [Procs -> Waits] /\ Idle(wait) = design.children
  BY <1>1, <1>3, <1>4 DEF Orderly, Waits, Idle
<1>7. \A l \in ListNames : Orderly(lists[l]) /\ Members(lists[l]) = On(there, InList(l))
  BY <1>3, <1>4, <1>5, NothingOnce
<1>8. \A t \in Times : Orderly(queue[t]) /\ Members(queue[t]) = On(there, InQueue(t))
  BY <1>3, <1>4, <1>5, NothingOnce
<1>9. Placed(there, lists, queue, batch, running, wait)
  BY <1>4, <1>5, <1>6, <1>7, <1>8, NothingOnce, NoProcess DEF Placed
<1> QED
  BY <1>9 DEF Here, Apart

LEMMA TypesInit ==
  ASSUME Slot!Init
  PROVE  OtherTypes
<1>1. /\ design \in Designs /\ time = 0 /\ strobe = FALSE /\ asserts = {} /\ stall = 0
      /\ left = design.runs
      /\ sig = [x |-> 0, prev |-> 0, ev |-> 2, nba |-> 2, triggers |-> 0, hops |-> {},
                ticked |-> 2, y |-> 0]
      /\ pass = [mode |-> "pre", moved |-> FALSE, progress |-> FALSE, advanced |-> FALSE,
                 wrote |-> FALSE, fired |-> FALSE, recorded |-> FALSE, rechecked |-> {},
                 noted |-> TRUE, before |-> TRUE, hits |-> Slot!NoHits, defer |-> FALSE]
  BY DEF Slot!Init, Slot!Unset, Slot!NoNba
<1>2. time \in Times /\ left \in 0 .. design.runs /\ stall \in Nat
  BY <1>1, SlotAssumption DEF Times, Design
<1>3. sig \in Sigs /\ pass \in Passes
  BY <1>1, NoHitsAre DEF Sigs, Passes, Modes
<1> QED
  BY <1>1, <1>2, <1>3 DEF OtherTypes
-----------------------------------------------------------------------------
(***************************************************************************)
(* What is known of a process that was put off, and of the waits for which *)
(* nothing is noted.                                                       *)
(***************************************************************************)
\* A process that was put off is still queued for now when the loop is asked to leave
\* this time, until the tick is over.
DeferInv ==
    pass.defer => \/ stack = <<>> \/ Top = "spinner"
                  \/ \E p \in Members(queue[time]) : Spent(p)

\* A wait(y == v) that came true is noted.
NoteInv == pass.noted \/ Gated(lists["conds"], wait, sig.y)

\* In p the flags that these two read are what they were.
SameMarks(p) == p.hits = pass.hits /\ p.defer = pass.defer /\ p.noted = pass.noted

\* A step that counts no activation, notes nothing and moves no waiter.
Quiet ==
    /\ UNCHANGED <<design, time, wait>>
    /\ SameMarks(pass')
    /\ sig'.y = sig.y /\ lists'["conds"] = lists["conds"]
    /\ pass.defer => Members(queue[time]) \subseteq Members(queue'[time])

LEMMA QuietKeeps ==
  ASSUME DeferInv, NoteInv, stack # <<>>, Top # "spinner", Quiet
  PROVE  DeferInv' /\ NoteInv'
<1>1. DeferInv'
  <2> SUFFICES ASSUME pass'.defer PROVE \E p \in Members(queue'[time']) : Spent(p)'
    BY DEF DeferInv
  <2>1. PICK p \in Members(queue[time]) : Spent(p)
    BY DEF DeferInv, Quiet, SameMarks
  <2>2. p \in Members(queue'[time']) /\ Spent(p)'
    BY <2>1 DEF Quiet, SameMarks, Spent
  <2> QED
    BY <2>2
<1>2. NoteInv'
  <2>1. CASE pass.noted
    BY <2>1 DEF NoteInv, Quiet, SameMarks
  <2>2. CASE Gated(lists["conds"], wait, sig.y)
    <3>1. lists'["conds"] = lists["conds"] /\ wait' = wait /\ sig'.y = sig.y
      BY DEF Quiet, SameMarks
    <3>2. Gated(lists'["conds"], wait', sig'.y)
      BY <2>2, <3>1
    <3> QED
      BY <3>2 DEF NoteInv
  <2> QED
    BY <2>1, <2>2 DEF NoteInv
<1> QED
  BY <1>1, <1>2

LEMMA SigKeepsY ==
  ASSUME SlotTypes
  PROVE  Slot!Applied \in Sigs /\ Slot!Applied.y = sig.y
BY AppliedTypes DEF SlotTypes, Sigs, Slot!Applied

LEMMA OtherFlags ==
  ASSUME SlotTypes
  PROVE  /\ SameMarks(pass)
         /\ \A b, c : SameMarks([pass EXCEPT !.fired = b, !.recorded = c])
         /\ \A b : /\ SameMarks([pass EXCEPT !.fired = b])
                  /\ SameMarks([pass EXCEPT !.moved = b])
                  /\ SameMarks([pass EXCEPT !.mode = b])
                  /\ SameMarks([pass EXCEPT !.wrote = FALSE, !.before = b])
BY DEF SlotTypes, Passes, SameMarks

\* The stages that move no process.
LEMMA FlagsQuiet ==
  ASSUME SlotTypes,
         \/ Slot!RunBatch \/ Slot!Edges \/ Slot!WaitsStart \/ Slot!WaitNone \/ Slot!WaitTest
         \/ Slot!Cascade \/ Slot!CascadeCommit \/ Slot!CascadeTest \/ Slot!Commit
         \/ Slot!Mark \/ Slot!Clocking \/ Slot!ClockingNone \/ Slot!ClockingEnd
         \/ Slot!Postponed \/ Slot!Late
  PROVE  Quiet /\ stack # <<>> /\ Top # "spinner"
<1>1. UNCHANGED <<design, time, wait, lists, queue>>
  BY DEF Slot!RunBatch, Slot!Edges, Slot!WaitsStart, Slot!WaitsAs, Slot!WaitNone,
         Slot!WaitTest, Slot!Cascade, Slot!CascadeCommit, Slot!CascadeTest, Slot!Commit,
         Slot!Mark, Slot!Clocking, Slot!ClockingNone, Slot!ClockingEnd, Slot!Postponed,
         Slot!Late, Slot!Skip, Slot!places
<1>2. stack # <<>> /\ Top # "spinner"
  BY DEF Slot!RunBatch, Slot!Edges, Slot!WaitsStart, Slot!WaitsAs, Slot!WaitNone,
         Slot!WaitTest, Slot!Cascade, Slot!CascadeCommit, Slot!CascadeTest, Slot!Commit,
         Slot!Mark, Slot!Clocking, Slot!ClockingNone, Slot!ClockingEnd, Slot!Postponed,
         Slot!Late, Slot!At, Top
<1>3. sig'.y = sig.y
  <2>1. \/ sig' = sig \/ sig' = Slot!Applied
        \/ \E x : sig' = [Slot!Applied EXCEPT !.prev = x]
        \/ \E x : sig' = [sig EXCEPT !.prev = x]
        \/ \E x : sig' = [sig EXCEPT !.ticked = x]
    BY DEF Slot!RunBatch, Slot!Edges, Slot!WaitsStart, Slot!WaitsAs, Slot!WaitNone,
         Slot!WaitTest, Slot!Cascade, Slot!CascadeCommit, Slot!CascadeTest, Slot!Commit,
         Slot!Mark, Slot!Clocking, Slot!ClockingNone, Slot!ClockingEnd, Slot!Postponed,
         Slot!Late, Slot!Skip
  <2>2. Slot!Applied \in Sigs /\ Slot!Applied.y = sig.y /\ sig \in Sigs
    BY SigKeepsY DEF SlotTypes
  <2> QED
    BY <2>1, <2>2 DEF Sigs
<1>4. SameMarks(pass')
  <2>1. CASE \/ Slot!RunBatch \/ Slot!WaitNone \/ Slot!WaitTest \/ Slot!Cascade
             \/ Slot!CascadeTest \/ Slot!Commit \/ Slot!ClockingNone \/ Slot!Postponed
    BY <2>1 DEF Slot!RunBatch, Slot!WaitNone, Slot!WaitTest, Slot!Cascade,
         Slot!CascadeTest, Slot!Commit, Slot!ClockingNone, Slot!Postponed, Slot!Skip,
         SameMarks
  <2>2. CASE Slot!Edges
    BY <2>2, OtherFlags DEF Slot!Edges
  <2>3. CASE Slot!CascadeCommit
    BY <2>3, OtherFlags DEF Slot!CascadeCommit, Slot!Skip
  <2>4. CASE Slot!Mark \/ Slot!Late \/ Slot!ClockingEnd
    BY <2>4, OtherFlags DEF Slot!Mark, Slot!Late, Slot!ClockingEnd
  <2>5. CASE Slot!WaitsStart
    BY <2>5, OtherFlags DEF Slot!WaitsStart, Slot!WaitsAs
  <2>6. CASE Slot!Clocking
    BY <2>6, OtherFlags DEF Slot!Clocking
  <2> QED
    BY <2>1, <2>2, <2>3, <2>4, <2>5, <2>6
<1> QED
  BY <1>1, <1>2, <1>3, <1>4 DEF Quiet, SameMarks

\* The stages that take a list, and the #0 continuations that become active.
LEMMA TakesQuiet ==
  ASSUME SlotTypes,
         \/ Slot!Waiters \/ Slot!PreNba \/ Slot!ClockingRun \/ Slot!Reactive \/ Slot!Hops
         \/ Slot!Inactive \/ Slot!PromoteLast
  PROVE  Quiet /\ stack # <<>> /\ Top # "spinner"
<1>1. UNCHANGED <<design, time, wait, sig>>
  BY DEF Slot!Waiters, Slot!PreNba, Slot!ClockingRun, Slot!Reactive, Slot!Hops,
         Slot!Inactive, Slot!PromoteLast, Slot!Promote, Slot!TakeAll, Slot!Skip
<1>2. stack # <<>> /\ Top # "spinner"
  BY DEF Slot!Waiters, Slot!PreNba, Slot!ClockingRun, Slot!Reactive, Slot!Hops,
         Slot!Inactive, Slot!PromoteLast, Slot!At, Top
<1>3. SameMarks(pass')
  <2>1. pass' = pass \/ pass' = [pass EXCEPT !.moved = TRUE]
    BY DEF Slot!Waiters, Slot!PreNba, Slot!ClockingRun, Slot!Reactive, Slot!Hops,
         Slot!Inactive, Slot!PromoteLast, Slot!Promote, Slot!TakeAll, Slot!Skip
  <2> QED
    BY <2>1, OtherFlags
<1>4. lists \in [ListNames -> Seq(Procs)] /\ queue \in [Times -> Seq(Procs)] /\ time \in Times
      /\ "conds" \in ListNames /\ "inactive" \in ListNames
  BY DEF SlotTypes, ListNames
<1>5. lists'["conds"] = lists["conds"]
  <2>1. CASE Slot!Waiters
    BY <1>4, <2>1 DEF Slot!Waiters, Slot!places
  <2>2. CASE \/ Slot!PreNba \/ Slot!ClockingRun \/ Slot!Reactive \/ Slot!Hops
             \/ Slot!Inactive \/ Slot!PromoteLast
    <3>1. \/ lists' = lists
          \/ \E l \in {"inactive", "clocking", "reactive", "hops"} :
                lists' = [lists EXCEPT ![l] = <<>>]
      BY <2>2 DEF Slot!PreNba, Slot!ClockingRun, Slot!Reactive, Slot!Hops, Slot!Inactive,
           Slot!PromoteLast, Slot!Promote, Slot!TakeAll, Slot!Skip, Slot!places
    <3> QED
      BY <1>4, <3>1
  <2> QED
    BY <2>1, <2>2
<1>6. Members(queue[time]) \subseteq Members(queue'[time])
  <2>1. queue' = queue \/ queue' = [queue EXCEPT ![time] = @ \o lists["inactive"]]
    BY DEF Slot!Waiters, Slot!PreNba, Slot!ClockingRun, Slot!Reactive, Slot!Hops,
         Slot!Inactive, Slot!PromoteLast, Slot!Promote, Slot!TakeAll, Slot!Skip, Slot!places
  <2>2. queue'[time] = queue[time] \/ queue'[time] = queue[time] \o lists["inactive"]
    BY <1>4, <2>1
  <2> QED
    BY <1>4, <2>2, JoinHas
<1> QED
  BY <1>1, <1>2, <1>3, <1>5, <1>6 DEF Quiet, SameMarks

\* Running the queue: it is left alone when a process was put off.
LEMMA QueueQuiet ==
  ASSUME SlotTypes, Slot!Active \/ Slot!WaitRun
  PROVE  Quiet /\ stack # <<>> /\ Top # "spinner"
<1>1. UNCHANGED <<design, time, wait, sig, lists>> /\ stack # <<>> /\ Top # "spinner"
  BY DEF Slot!Active, Slot!WaitRun, Slot!At, Top
<1>2. SameMarks(pass')
  BY OtherFlags DEF Slot!Active, Slot!WaitRun
<1>3. pass.defer => queue' = queue
  BY DEF Slot!Active, Slot!WaitRun
<1> QED
  BY <1>1, <1>2, <1>3 DEF Quiet, SameMarks

\* A round of waits takes the notes, and wakes the waits that are noted.
LEMMA WaitRoundMarks ==
  ASSUME SlotTypes, Here, NoteInv, Slot!WaitRound
  PROVE  DeferInv' /\ NoteInv'
<1> DEFINE still == {p \in Procs : Slot!Kept(p)}
           rest == Only(lists["conds"], still)
<1>1. /\ lists'["conds"] = rest /\ UNCHANGED <<wait, sig>> /\ ~pass.defer
      /\ Orderly(lists["conds"])
  <2>1. /\ "conds" \in ListNames /\ "ready" \in ListNames
        /\ Orderly(lists["conds"]) /\ lists \in [ListNames -> Seq(Procs)]
    BY HereTypes DEF ListNames
  <2>2. /\ lists' = [lists EXCEPT !["ready"] = <<>>, !["conds"] = Slot!Only(@, still)]
        /\ UNCHANGED <<wait, sig>> /\ ~pass.defer
    BY DEF Slot!WaitRound, Slot!Procs, Procs
  <2>3. Slot!Only(lists["conds"], still) = rest
    <3> HIDE DEF still
    <3> QED
      BY OnlySame
  <2> HIDE DEF still, rest
  <2> QED
    BY <2>1, <2>2, <2>3
<1>2. Members(rest) = Members(lists["conds"]) \cap still
  <2> HIDE DEF still
  <2> QED
    BY <1>1, OnlyIs
<1>3. ~pass'.defer
  BY <1>1 DEF Slot!WaitRound, SlotTypes, Passes
<1>4. ASSUME NEW p \in Members(rest) PROVE Untrue(wait[p], sig.y)
  <2>1. p \in Members(lists["conds"]) /\ Slot!Kept(p)
    BY <1>2
  <2>2. wait[p].on = "prop" => ~pass.noted
    BY <2>1 DEF Slot!Kept
  <2> HIDE DEF rest
  <2> QED
    BY <2>1, <2>2 DEF NoteInv, Gated, Untrue
<1> HIDE DEF rest
<1>5. Gated(lists'["conds"], wait', sig'.y)
  BY <1>1, <1>4 DEF Gated
<1> QED
  BY <1>3, <1>5 DEF DeferInv, NoteInv

\* An activation counts, ...
LEMMA HitsGrow ==
  ASSUME SlotTypes, running \in Procs, NEW p \in Procs, Spent(p)
  PROVE  Slot!HitsAfter[p] >= design.stallLimit
<1>1. /\ pass.hits \in [Procs -> Nat] /\ design.stallLimit \in Nat
      /\ pass.hits[p] \in Nat /\ pass.hits[p] >= design.stallLimit
  BY SlotAssumption DEF SlotTypes, Passes, Design, Spent
<1>2. Slot!HitsAfter[p] = pass.hits[p] \/ Slot!HitsAfter[p] = pass.hits[p] + 1
  BY <1>1 DEF Slot!HitsAfter
<1> QED
  BY <1>1, <1>2

LEMMA CountedKeeps ==
  ASSUME SlotTypes, DeferInv, running \in Procs, stack # <<>>, Top # "spinner",
         pass'.defer = pass.defer, pass'.hits = Slot!HitsAfter, UNCHANGED <<design, time>>,
         Members(queue[time]) \subseteq Members(queue'[time])
  PROVE  DeferInv'
<1> SUFFICES ASSUME pass'.defer PROVE \E p \in Members(queue'[time']) : Spent(p)'
  BY DEF DeferInv
<1>1. PICK p \in Members(queue[time]) : Spent(p)
  BY DEF DeferInv
<1>2. p \in Procs
  <2>1. queue[time] \in Seq(Procs)
    BY DEF SlotTypes
  <2> QED
    BY <1>1, <2>1, MembersAre
<1>3. Spent(p)'
  BY <1>1, <1>2, HitsGrow DEF Spent
<1> QED
  BY <1>1, <1>3

\* ... or is put off, and then it is queued for now.
LEMMA RunMarks ==
  ASSUME SlotTypes, SlotInv, Here, DeferInv, NoteInv, Slot!Run
  PROVE  DeferInv' /\ NoteInv'
<1>0. running # 0 /\ running \in Procs
  BY DEF Slot!Run, SlotTypes
<1>1. stack # <<>> /\ Top # "spinner"
  BY <1>0, WhileRunning
<1>2. /\ lists \in [ListNames -> Seq(Procs)] /\ queue \in [Times -> Seq(Procs)]
      /\ time \in Times /\ "conds" \in ListNames /\ "reactive" \in ListNames
      /\ wait \in [Procs -> Waits] /\ pass \in Passes
  BY DEF SlotTypes, ListNames
<1>3. CASE Slot!SendToReactive
  <2>1. /\ UNCHANGED <<design, time, wait, sig, queue>>
        /\ lists' = [lists EXCEPT !["reactive"] = Append(@, running)]
        /\ pass' = [pass EXCEPT !.moved = TRUE]
    BY <1>3 DEF Slot!SendToReactive, Slot!Park
  <2>2. lists'["conds"] = lists["conds"]
    BY <1>2, <2>1
  <2>3. Quiet
    BY <2>1, <2>2, OtherFlags DEF Quiet
  <2> QED
    BY <1>1, <2>3, QuietKeeps
<1>4. CASE Slot!Defer
  <2>1. /\ UNCHANGED <<design, time, wait, sig, lists>> /\ Slot!Spent(running)
        /\ queue' = [queue EXCEPT ![time] = Append(@, running)]
        /\ pass' = [pass EXCEPT !.defer = TRUE]
    BY <1>4 DEF Slot!Defer
  <2>2. pass'.hits = pass.hits /\ pass'.noted = pass.noted
    BY <1>2, <2>1 DEF Passes
  <2>0. PICK p \in Procs : p = running
    BY <1>0
  <2>3. Spent(p)'
    BY <2>0, <2>1, <2>2 DEF Slot!Spent, Spent
  <2>4. p \in Members(queue'[time'])
    <3>1. queue'[time'] = Append(queue[time], p) /\ queue[time] \in Seq(Procs)
      BY <1>2, <2>0, <2>1
    <3> QED
      BY <3>1, AppendHas
  <2>5. DeferInv'
    BY <2>3, <2>4 DEF DeferInv
  <2>6. NoteInv'
    BY <2>1, <2>2 DEF NoteInv
  <2> QED
    BY <2>5, <2>6
<1>5. CASE Slot!WaitAgain
  <2>1. /\ UNCHANGED <<design, time, wait, sig, queue>> /\ Slot!IsFalse(running)
        /\ lists' = [lists EXCEPT !["conds"] = Append(@, running)]
        /\ pass' = [pass EXCEPT !.hits = Slot!HitsAfter]
    BY <1>5 DEF Slot!WaitAgain, Slot!Park
  <2>2. pass'.defer = pass.defer /\ pass'.noted = pass.noted /\ pass'.hits = Slot!HitsAfter
    BY <1>2, <2>1 DEF Passes
  <2>3. DeferInv'
    BY <1>0, <1>1, <2>1, <2>2, CountedKeeps
  <2>4. Untrue(wait[running], sig.y)
    BY <2>1 DEF Slot!IsFalse, Slot!ValueOf, Untrue
  <2>5. Gated(lists["conds"], wait, sig.y) => Gated(lists'["conds"], wait', sig'.y)
    <3>1. /\ lists'["conds"] = Append(lists["conds"], running)
          /\ lists["conds"] \in Seq(Procs)
      BY <1>2, <2>1
    <3>2. Members(lists'["conds"]) \subseteq Members(lists["conds"]) \cup {running}
      BY <1>0, <3>1, AppendHas
    <3> QED
      BY <2>1, <2>4, <3>2 DEF Gated
  <2> QED
    BY <2>2, <2>3, <2>5 DEF NoteInv
<1>6. CASE Slot!Activate
  <2>1. /\ pass.noted => pass'.noted
        /\ Gated(lists["conds"], wait, sig.y) =>
             pass'.noted \/ Gated(lists'["conds"], wait', sig'.y)
        /\ Members(queue[time]) \subseteq Members(queue'[time])
    BY <1>0, <1>6, ActivateApart DEF Here
  <2>2. PICK e : pass' = Slot!PassAfter(e)
    BY <1>6 DEF Slot!Activate
  <2>3. pass'.defer = pass.defer /\ pass'.hits = Slot!HitsAfter
    BY <1>2, <2>2 DEF Slot!PassAfter, Passes
  <2>4. UNCHANGED <<design, time>>
    BY <1>6 DEF Slot!Activate
  <2>5. DeferInv'
    BY <1>0, <1>1, <2>1, <2>3, <2>4, CountedKeeps
  <2>6. NoteInv'
    BY <2>1 DEF NoteInv
  <2> QED
    BY <2>5, <2>6
<1> QED
  BY <1>3, <1>4, <1>5, <1>6 DEF Slot!Run

\* Between two ticks.
LEMMA LoopMarks ==
  ASSUME SlotTypes, SlotInv, Here, DeferInv, NoteInv,
         \/ Slot!Stop \/ Slot!SameTime \/ Slot!BreakLivelock \/ Slot!NextTick
         \/ Slot!BreakSpinner \/ Slot!Mature \/ Slot!Advance \/ Slot!Finished
  PROVE  DeferInv' /\ NoteInv'
<1>0. pass \in Passes /\ sig \in Sigs /\ lists \in [ListNames -> Seq(Procs)]
      /\ "conds" \in ListNames /\ "inactive" \in ListNames
  BY DEF SlotTypes, ListNames
<1>1. ASSUME NEW t, Slot!TickAt(t)
      PROVE  ~pass'.defer /\ pass'.noted = pass.noted /\ sig'.y = sig.y
  BY <1>0, <1>1 DEF Slot!TickAt, Passes, Sigs
<1>2. ASSUME pass'.noted = pass.noted, sig'.y = sig.y, wait' = wait,
             lists'["conds"] = lists["conds"]
      PROVE  NoteInv'
  BY <1>2 DEF NoteInv
<1>3. ASSUME NEW t, Slot!BreakTo(t)
      PROVE  wait' = wait /\ lists'["conds"] = lists["conds"]
  BY <1>0, <1>3 DEF Slot!BreakTo
<1>4. CASE Slot!Stop
  BY <1>4 DEF Slot!Stop, Slot!places, DeferInv, NoteInv
<1>5. CASE Slot!SameTime
  <2>1. Top' = "spinner"
    BY <1>5, SpinnerNext
  <2>2. UNCHANGED <<lists, wait, sig, pass>>
    BY <1>5 DEF Slot!SameTime, Slot!places
  <2> QED
    BY <2>1, <2>2 DEF DeferInv, NoteInv
<1>6. CASE Slot!BreakLivelock
  <2>1. Top' = "spinner"
    BY <1>6, SpinnerNext
  <2>2. pass'.noted = pass.noted /\ sig'.y = sig.y
    BY <1>0, <1>6 DEF Slot!BreakLivelock, Passes
  <2>3. PICK t : Slot!BreakTo(t)
    BY <1>6 DEF Slot!BreakLivelock
  <2> QED
    BY <1>2, <1>3, <2>1, <2>2, <2>3 DEF DeferInv
<1>7. CASE Slot!NextTick \/ Slot!Advance
  <2>1. PICK t : Slot!TickAt(t)
    BY <1>7 DEF Slot!NextTick, Slot!Advance
  <2>2. UNCHANGED <<lists, wait>>
    BY <1>7 DEF Slot!NextTick, Slot!Advance, Slot!places
  <2>3. ~pass'.defer /\ pass'.noted = pass.noted /\ sig'.y = sig.y
    BY <1>1, <2>1
  <2> QED
    BY <1>2, <2>2, <2>3 DEF DeferInv
<1>8. CASE Slot!BreakSpinner
  <2>1. PICK t : Slot!BreakTo(t) /\ Slot!TickAt(t)
    BY <1>8 DEF Slot!BreakSpinner
  <2>2. ~pass'.defer /\ pass'.noted = pass.noted /\ sig'.y = sig.y
    BY <1>1, <2>1
  <2> QED
    BY <1>2, <1>3, <2>1, <2>2 DEF DeferInv
<1>9. CASE Slot!Mature \/ Slot!Finished
  BY <1>9 DEF Slot!Mature, Slot!Finished, Slot!places, Slot!slotVars, DeferInv, NoteInv,
     Top, Spent
<1> QED
  BY <1>4, <1>5, <1>6, <1>7, <1>8, <1>9

LEMMA MarksInit ==
  ASSUME Slot!Init
  PROVE  DeferInv /\ NoteInv
BY DEF Slot!Init, DeferInv, NoteInv

LEMMA MarksStutter ==
  ASSUME DeferInv, NoteInv, UNCHANGED slotVars
  PROVE  DeferInv' /\ NoteInv'
BY DEF DeferInv, NoteInv, Top, Spent, slotVars

LEMMA MarksStep ==
  ASSUME SlotTypes, SlotInv, Here, DeferInv, NoteInv, Slot!Next
  PROVE  DeferInv' /\ NoteInv'
<1>1. CASE Slot!Run
  BY <1>1, RunMarks
<1>2. CASE Slot!WaitRound
  BY <1>2, WaitRoundMarks
<1>3. CASE \/ Slot!RunBatch \/ Slot!Edges \/ Slot!WaitsStart \/ Slot!WaitNone
           \/ Slot!WaitTest \/ Slot!Cascade \/ Slot!CascadeCommit \/ Slot!CascadeTest
           \/ Slot!Commit \/ Slot!Mark \/ Slot!Clocking \/ Slot!ClockingNone
           \/ Slot!ClockingEnd \/ Slot!Postponed \/ Slot!Late
  BY <1>3, FlagsQuiet, QuietKeeps
<1>4. CASE \/ Slot!Waiters \/ Slot!PreNba \/ Slot!ClockingRun \/ Slot!Reactive \/ Slot!Hops
           \/ Slot!Inactive \/ Slot!PromoteLast
  BY <1>4, TakesQuiet, QuietKeeps
<1>5. CASE Slot!Active \/ Slot!WaitRun
  BY <1>5, QueueQuiet, QuietKeeps
<1>6. CASE \/ Slot!Stop \/ Slot!SameTime \/ Slot!BreakLivelock \/ Slot!NextTick
           \/ Slot!BreakSpinner \/ Slot!Mature \/ Slot!Advance \/ Slot!Finished
  BY <1>6, LoopMarks
<1> QED
  BY <1>1, <1>2, <1>3, <1>4, <1>5, <1>6 DEF Slot!Next

(***************************************************************************)
(* The whole invariant of the event loop: the types, the regions to come,   *)
(* the place of every process, who was put off and what is noted.           *)
(***************************************************************************)
SlotWhole == SlotTypes /\ SlotInv /\ Here /\ DeferInv /\ NoteInv

\* The steps that move no process.
LEMMA QuietApart ==
  ASSUME Here,
         \/ Slot!Edges \/ Slot!WaitsStart \/ Slot!WaitNone \/ Slot!WaitTest \/ Slot!Cascade
         \/ Slot!CascadeCommit \/ Slot!CascadeTest \/ Slot!Commit \/ Slot!Mark
         \/ Slot!Clocking \/ Slot!ClockingNone \/ Slot!ClockingEnd \/ Slot!Postponed
         \/ Slot!Late \/ Slot!Stop \/ Slot!SameTime \/ Slot!NextTick \/ Slot!Mature
         \/ Slot!Advance \/ Slot!Finished
  PROVE  Here'
<1>1. UNCHANGED <<lists, queue, batch, running, wait>>
  BY DEF Slot!Edges, Slot!WaitsStart, Slot!WaitsAs, Slot!WaitNone, Slot!WaitTest,
         Slot!Cascade, Slot!CascadeCommit, Slot!CascadeTest, Slot!Commit, Slot!Mark,
         Slot!Clocking, Slot!ClockingNone, Slot!ClockingEnd, Slot!Postponed, Slot!Late,
         Slot!Stop, Slot!SameTime, Slot!NextTick, Slot!Mature, Slot!Advance, Slot!Finished,
         Slot!Skip, Slot!places, Slot!slotVars
<1> QED
  BY <1>1, HereStays

LEMMA WaitsStartKeeps ==
  ASSUME SlotTypes, SlotInv, Slot!WaitsStart
  PROVE  SlotInv'
BY WaitsKeep DEF Slot!WaitsStart

LEMMA LoopKeeps ==
  ASSUME SlotInv, Slot!NextTick \/ Slot!BreakSpinner \/ Slot!Advance
  PROVE  SlotInv'
<1>1. PICK t : Slot!TickAt(t)
  BY DEF Slot!NextTick, Slot!BreakSpinner, Slot!Advance
<1>2. /\ Slot!At("loop") \/ Slot!At("spinner")
      /\ UNCHANGED <<batch, running>>
  BY DEF Slot!NextTick, Slot!BreakSpinner, Slot!BreakTo, Slot!Advance, Slot!places
<1> QED
  BY <1>1, <1>2, TickKeeps

LEMMA WaitRoundKeepsHere ==
  ASSUME SlotTypes, SlotInv, Here, Slot!WaitRound
  PROVE  SlotInv'
<1>1. Orderly(lists["conds"])
  BY HereTypes DEF ListNames
<1> QED
  BY <1>1, WaitRoundKeeps

LEMMA WholeInit ==
  ASSUME Slot!Init
  PROVE  SlotWhole
<1>1. Here /\ OtherTypes /\ SlotInv
  BY HereInit, TypesInit, SlotInvInit
<1> QED
  BY <1>1, MarksInit, TypesFrom DEF SlotWhole

\* Every step keeps the places, the types and the regions.
LEMMA WholeStep ==
  ASSUME SlotWhole, Slot!Next
  PROVE  SlotWhole'
<1> USE DEF SlotWhole
<1> SUFFICES Here' /\ OtherTypes' /\ SlotInv'
  BY MarksStep, TypesLater
<1>0. CASE Slot!Run
  <2>1. Here'
    BY <1>0, RunApart DEF Here
  <2> QED
    BY <1>0, <2>1, RunTypes, RunKeeps
<1>1. CASE Slot!RunBatch
  BY <1>1, NextRuns, StageTypes, RunBatchKeeps
<1>2. CASE Slot!Edges
  BY <1>2, QuietApart, EdgesTypes, EdgesKeep
<1>3. CASE Slot!Waiters
  BY <1>3, WaitersApart, StageTypes, WaitersKeep
<1>4. CASE Slot!WaitsStart
  BY <1>4, QuietApart, StageTypes, WaitsStartKeeps
<1>5. CASE Slot!WaitRound
  BY <1>5, WaitRoundApart, WaitRoundTypes, WaitRoundKeepsHere
<1>6. CASE Slot!WaitNone
  BY <1>6, QuietApart, StageTypes, WaitNoneKeeps
<1>7. CASE Slot!WaitRun
  BY <1>7, NextRuns, StageTypes, WaitRunKeeps
<1>8. CASE Slot!WaitTest
  BY <1>8, QuietApart, CommitTypes, WaitTestKeeps
<1>9. CASE Slot!PreNba
  BY <1>9, TakesApart, StageTypes, PreNbaKeeps
<1>10. CASE Slot!Cascade
  BY <1>10, QuietApart, StageTypes, CascadeKeeps
<1>11. CASE Slot!CascadeCommit
  BY <1>11, QuietApart, CommitTypes, CascadeCommitKeeps
<1>12. CASE Slot!CascadeTest
  BY <1>12, QuietApart, StageTypes, CascadeTestKeeps
<1>13. CASE Slot!Active
  BY <1>13, NextRuns, StageTypes, ActiveKeeps
<1>14. CASE Slot!Inactive
  BY <1>14, PromoteApart, StageTypes, InactiveKeeps
<1>15. CASE Slot!Commit
  BY <1>15, QuietApart, CommitTypes, CommitKeeps
<1>16. CASE Slot!Mark
  BY <1>16, QuietApart, EdgesTypes, MarkKeeps
<1>17. CASE Slot!Clocking
  BY <1>17, QuietApart, StageTypes, ClockingKeeps
<1>18. CASE Slot!ClockingNone
  BY <1>18, QuietApart, StageTypes, ClockingNoneKeeps
<1>19. CASE Slot!ClockingRun
  BY <1>19, TakesApart, StageTypes, ClockingRunKeeps
<1>20. CASE Slot!ClockingEnd
  BY <1>20, QuietApart, StageTypes, ClockingEndKeeps
<1>21. CASE Slot!Reactive
  BY <1>21, TakesApart, StageTypes, ReactiveKeeps
<1>22. CASE Slot!Hops
  BY <1>22, TakesApart, StageTypes, HopsKeep
<1>23. CASE Slot!Postponed
  BY <1>23, QuietApart, StageTypes, PostponedKeeps
<1>24. CASE Slot!Late
  BY <1>24, QuietApart, StageTypes, LateKeeps
<1>25. CASE Slot!PromoteLast
  BY <1>25, PromoteApart, StageTypes, PromoteLastKeeps
<1>26. CASE Slot!Stop
  BY <1>26, QuietApart, StageTypes, StopKeeps
<1>27. CASE Slot!NextTick
  BY <1>27, QuietApart, LoopTypes, LoopKeeps
<1>28. CASE Slot!BreakSpinner
  BY <1>28, BreakApart, LoopTypes, LoopKeeps
<1>32. CASE Slot!SameTime
  BY <1>32, QuietApart, LoopTypes, SpinnerKeeps
<1>33. CASE Slot!BreakLivelock
  BY <1>33, BreakApart, LoopTypes, SpinnerKeeps
<1>29. CASE Slot!Mature
  BY <1>29, QuietApart, MatureTypes, MatureKeeps
<1>30. CASE Slot!Advance
  BY <1>30, QuietApart, LoopTypes, LoopKeeps
<1>31. CASE Slot!Finished
  BY <1>31, QuietApart, MatureTypes, MatureKeeps
<1> QED
  BY <1>0, <1>1, <1>2, <1>3, <1>4, <1>5, <1>6, <1>7, <1>8, <1>9, <1>10, <1>11, <1>12,
     <1>13, <1>14, <1>15, <1>16, <1>17, <1>18, <1>19, <1>20, <1>21, <1>22, <1>23, <1>24,
     <1>25, <1>26, <1>27, <1>28, <1>29, <1>30, <1>31, <1>32, <1>33 DEF Slot!Next

LEMMA WholeStutter ==
  ASSUME SlotWhole, UNCHANGED Slot!slotVars
  PROVE  SlotWhole'
<1>0. UNCHANGED slotVars
  BY DEF Slot!slotVars, slotVars
<1>1. Here' /\ SlotInv' /\ DeferInv' /\ NoteInv'
  BY <1>0, HereStays, SlotStutter, MarksStutter DEF SlotWhole, slotVars
<1>2. OtherTypes'
  BY <1>0 DEF SlotWhole, SlotTypes, OtherTypes, slotVars
<1> QED
  BY <1>1, <1>2, TypesLater DEF SlotWhole

LEMMA SlotIsWhole == Slot!Spec => []SlotWhole
<1>1. Slot!Init => SlotWhole
  BY WholeInit
<1>2. SlotWhole /\ [Slot!Next]_Slot!slotVars => SlotWhole'
  BY WholeStep, WholeStutter
<1> QED
  BY <1>1, <1>2, PTL DEF Slot!Spec

\* Every value has its type, and every process that has begun and not ended is in one
\* list of the slot, in the event queue, in the batch of the stage that runs or at the
\* processor, and there once: however many processes, times and designs there are, no
\* pass over the lists loses a continuation or runs it twice.
THEOREM WaitsOnceHolds == Slot!Spec => []WaitsOnce
<1>1. SlotWhole => WaitsOnce
  BY OnePlace DEF SlotWhole, WaitsOnce
<1> QED
  BY <1>1, SlotIsWhole, PTL

\* The NBA region of a tick begins when no process is queued for now and no #0
\* continuation is parked, whatever the Active and the Inactive region give each other;
\* unless a process that has had all its activations of this time is queued, and the
\* regions were left because of it.
THEOREM ActiveComesFirst == Slot!Spec => []ActiveIsDone
<1>1. SlotWhole => ActiveIsDone
  <2> SUFFICES ASSUME SlotWhole, At("preNba"), stack[2] = "commit"
               PROVE  Spinning \/ (queue[time] = <<>> /\ lists["inactive"] = <<>>)
    BY DEF ActiveIsDone
  <2>1. stack # <<>> /\ Top = "preNba" /\ SlotInv /\ DeferInv
    BY DEF At, Top, SlotWhole
  <2>2. "commit" \in Below
    BY <2>1, Standing DEF Fits
  <2>3. pass.defer \/ (queue[time] = <<>> /\ lists["inactive"] = <<>>)
    BY <2>1, <2>2 DEF SlotInv, Tops
  <2>4. pass.defer => Spinning
    BY <2>1 DEF DeferInv, Spinning, Members
  <2> QED
    BY <2>3, <2>4
<1> QED
  BY <1>1, SlotIsWhole, PTL


\* While regions are to come the slot goes on: after any other stage than the end of the
\* tick the main loop is still below.
LEMMA GoesOn ==
  ASSUME SlotInv, stack # <<>>, Top \notin {"loop", "spinner"}, NEW x \in Seq(Stages), stack' = x \o Tail(stack)
  PROVE  stack' # <<>>
<1>1. Tail(stack) \in Seq(Stages) /\ Tail(stack) # <<>>
  <2>1. Tail(stack) \in Seq(Stages) /\ "loop" \in Members(Tail(stack))
    BY Standing DEF Fits, Below
  <2> QED
    BY <2>1, NoStage
<1> DEFINE r == Tail(stack)
<1>2. r \in Seq(Stages) /\ r # <<>> /\ Len(x \o r) = Len(x) + Len(r) /\ Len(x) \in Nat
  BY <1>1
<1> HIDE DEF r
<1>3. Len(x \o r) > 0
  BY <1>2
<1> QED
  BY <1>3 DEF r

\* What the stages put in their place.
Plans == {<<>>, <<"waiters">>, <<"run", "waiters">>, <<"edges">>, <<"waitRound">>,
          <<"waitRun", "waitTest">>, <<"run">> \o <<"preNba">>,
          <<"preNba", "cascadeWaits", "cascadeCommit">>, <<"edges", "cascadeTest">>,
          <<"cascade">>, <<"waitsPre", "inactive">>, <<"edges", "active">>,
          <<"clockingRun">>, <<"run">> \o <<"clockingRun">>,
          <<"edges", "cascade", "clockingEnd">>, <<"clockingEnd">>,
          <<"run">> \o <<"reactive">>, <<"run">> \o <<>>, Slot!LatePass}

LEMMA PlansAre == Plans \subseteq Seq(Stages)
<1>1. Slot!LatePass \in Seq(Stages)
  BY DEF Slot!LatePass, Stages
<1>2. /\ <<"run">> \in Seq(Stages) /\ <<"preNba">> \in Seq(Stages) /\ <<>> \in Seq(Stages)
      /\ <<"clockingRun">> \in Seq(Stages) /\ <<"reactive">> \in Seq(Stages)
  BY DEF Stages
<1>3. /\ <<"run">> \o <<"preNba">> \in Seq(Stages) /\ <<"run">> \o <<>> \in Seq(Stages)
      /\ <<"run">> \o <<"clockingRun">> \in Seq(Stages)
      /\ <<"run">> \o <<"reactive">> \in Seq(Stages)
  BY <1>2
<1>4. /\ <<"waiters">> \in Seq(Stages) /\ <<"run", "waiters">> \in Seq(Stages)
      /\ <<"edges">> \in Seq(Stages) /\ <<"waitRound">> \in Seq(Stages)
      /\ <<"waitRun", "waitTest">> \in Seq(Stages) /\ <<"cascade">> \in Seq(Stages)
      /\ <<"preNba", "cascadeWaits", "cascadeCommit">> \in Seq(Stages)
      /\ <<"edges", "cascadeTest">> \in Seq(Stages)
      /\ <<"waitsPre", "inactive">> \in Seq(Stages) /\ <<"edges", "active">> \in Seq(Stages)
      /\ <<"edges", "cascade", "clockingEnd">> \in Seq(Stages)
      /\ <<"clockingEnd">> \in Seq(Stages)
  BY DEF Stages
<1> QED
  BY <1>1, <1>2, <1>3, <1>4 DEF Plans

\* One stage goes on with a plan.
Goes == time' = time /\ (stack' = stack \/ \E x \in Plans : stack' = x \o Tail(stack))

LEMMA RegionsGoOn ==
  ASSUME SlotInv,
         \/ Slot!RunBatch \/ Slot!Edges \/ Slot!Waiters \/ Slot!WaitsStart
         \/ Slot!WaitRound \/ Slot!WaitNone \/ Slot!WaitRun \/ Slot!WaitTest
         \/ Slot!PreNba \/ Slot!Cascade \/ Slot!CascadeCommit \/ Slot!CascadeTest
         \/ Slot!Active \/ Slot!Inactive \/ Slot!Commit \/ Slot!Mark \/ Slot!Clocking
         \/ Slot!ClockingNone \/ Slot!ClockingRun \/ Slot!ClockingEnd \/ Slot!Reactive
         \/ Slot!Hops \/ Slot!Postponed \/ Slot!Late \/ Slot!PromoteLast
  PROVE  time' = time /\ stack # <<>> /\ stack' # <<>>
<1>0. SUFFICES stack # <<>> /\ Top \notin {"loop", "spinner"} /\ Goes
  BY GoesOn, PlansAre, Standing DEF Goes, Fits
<1> USE DEF Slot!At, Top, Slot!Goto, Slot!Skip, Slot!TakeAll, Slot!Promote, Plans, Goes
<1>1. CASE Slot!RunBatch
  BY <1>1 DEF Slot!RunBatch
<1>2. CASE Slot!Edges
  BY <1>2 DEF Slot!Edges
<1>3. CASE Slot!Waiters
  BY <1>3 DEF Slot!Waiters
<1>4. CASE Slot!WaitsStart
  BY <1>4 DEF Slot!WaitsStart, Slot!WaitsAs
<1>5. CASE Slot!WaitRound
  BY <1>5 DEF Slot!WaitRound
<1>6. CASE Slot!WaitNone
  BY <1>6 DEF Slot!WaitNone
<1>7. CASE Slot!WaitRun
  BY <1>7 DEF Slot!WaitRun
<1>8. CASE Slot!WaitTest
  BY <1>8 DEF Slot!WaitTest
<1>9. CASE Slot!PreNba
  BY <1>9 DEF Slot!PreNba
<1>10. CASE Slot!Cascade
  BY <1>10 DEF Slot!Cascade
<1>11. CASE Slot!CascadeCommit
  BY <1>11 DEF Slot!CascadeCommit
<1>12. CASE Slot!CascadeTest
  BY <1>12 DEF Slot!CascadeTest
<1>13. CASE Slot!Active
  BY <1>13 DEF Slot!Active
<1>14. CASE Slot!Inactive
  BY <1>14 DEF Slot!Inactive
<1>15. CASE Slot!Commit
  BY <1>15 DEF Slot!Commit
<1>16. CASE Slot!Mark
  BY <1>16 DEF Slot!Mark
<1>17. CASE Slot!Clocking
  BY <1>17 DEF Slot!Clocking
<1>18. CASE Slot!ClockingNone
  BY <1>18 DEF Slot!ClockingNone
<1>19. CASE Slot!ClockingRun
  BY <1>19 DEF Slot!ClockingRun
<1>20. CASE Slot!ClockingEnd
  BY <1>20 DEF Slot!ClockingEnd
<1>21. CASE Slot!Reactive
  BY <1>21 DEF Slot!Reactive
<1>22. CASE Slot!Hops
  BY <1>22 DEF Slot!Hops
<1>23. CASE Slot!Postponed
  BY <1>23 DEF Slot!Postponed
<1>24. CASE Slot!Late
  BY <1>24 DEF Slot!Late
<1>25. CASE Slot!PromoteLast
  BY <1>25 DEF Slot!PromoteLast
<1> QED
  BY <1>1, <1>2, <1>3, <1>4, <1>5, <1>6, <1>7, <1>8, <1>9, <1>10, <1>11, <1>12, <1>13,
     <1>14, <1>15, <1>16, <1>17, <1>18, <1>19, <1>20, <1>21, <1>22, <1>23, <1>24, <1>25

\* A slot ends when the run stops, when it is left at a limit or when the clock moves.
LEMMA EndsAtLoop ==
  ASSUME SlotWhole, [Slot!Next]_Slot!slotVars, SlotEnds
  PROVE  Slot!Stop \/ Slot!BreakLivelock \/ Slot!BreakSpinner \/ Slot!Advance
<1> SUFFICES ASSUME ~(Slot!Stop \/ Slot!BreakLivelock \/ Slot!BreakSpinner \/ Slot!Advance)
             PROVE  FALSE
  OBVIOUS
<1>1. time' # time \/ (stack' = <<>> /\ stack # <<>>)
  BY DEF SlotEnds
<1>2. CASE Slot!Run
  <2>1. time' = time /\ stack' = stack
    BY <1>2 DEF Slot!Run, Slot!SendToReactive, Slot!Defer, Slot!WaitAgain, Slot!Activate
  <2> QED
    BY <1>1, <2>1
<1>3. CASE Slot!Mature \/ Slot!Finished \/ UNCHANGED Slot!slotVars
  BY <1>1, <1>3 DEF Slot!Mature, Slot!Finished, Slot!slotVars
<1>4. CASE Slot!NextTick
  <2>1. time' = time /\ stack' = Slot!Tick
    BY <1>4 DEF Slot!NextTick, Slot!TickAt
  <2> QED
    BY <1>1, <2>1, TickShape
<1>6. CASE Slot!SameTime
  <2>1. time' = time /\ stack' = <<"spinner">>
    BY <1>6, SpinnerNext DEF Slot!SameTime, SlotWhole
  <2> QED
    BY <1>1, <2>1
<1>5. CASE \/ Slot!Edges \/ Slot!Waiters \/ Slot!WaitsStart \/ Slot!WaitRound \/ Slot!WaitNone
           \/ Slot!WaitRun \/ Slot!WaitTest \/ Slot!PreNba \/ Slot!Cascade
           \/ Slot!CascadeCommit \/ Slot!CascadeTest \/ Slot!Active \/ Slot!Inactive
           \/ Slot!Commit \/ Slot!Mark \/ Slot!Clocking \/ Slot!ClockingNone
           \/ Slot!ClockingRun \/ Slot!ClockingEnd \/ Slot!Reactive \/ Slot!Hops
           \/ Slot!Postponed \/ Slot!Late \/ Slot!PromoteLast \/ Slot!RunBatch
  <2>1. time' = time /\ stack' # <<>>
    BY <1>5, RegionsGoOn DEF SlotWhole
  <2> QED
    BY <1>1, <2>1
<1> QED
  BY <1>2, <1>3, <1>4, <1>5, <1>6 DEF Slot!Next

\* The main loop is reached when no region is owed anything, unless a process was put off.
LEMMA NothingOwed ==
  ASSUME SlotWhole, Slot!At("loop"), ~pass.defer
  PROVE  /\ ~PendingData
         /\ \A l \in {"inactive", "ready", "clocking", "reactive"} : lists[l] = <<>>
         /\ lists["hops"] # <<>> => queue[time] # <<>>
         /\ Seen
<1>1. stack # <<>> /\ Top = "loop" /\ SlotInv
  BY DEF Slot!At, Top, SlotWhole
<1>2. Below = {} /\ Members(stack) = {"loop"}
  BY <1>1, Standing DEF Fits
<1>3. Owed
  BY <1>1 DEF SlotInv, Due
<1> QED
  BY <1>2, <1>3 DEF Owed, Has, Again, InCascade, WaitsLater

LEMMA LoopNames ==
  /\ Slot!SameSlot <=> SameSlot
  /\ Slot!StallLimitHit <=> StallLimitHit
  /\ Slot!Timed = Timed
  /\ \A s : Slot!At(s) <=> At(s)
BY DEF Slot!SameSlot, SameSlot, Slot!StallLimitHit, StallLimitHit, Slot!Timed, Timed,
   Slot!PendingData, PendingData, Slot!Stalls, Stalls, Slot!Times, Times, Slot!NoNba, NoNba,
   Slot!At, At

\* Where a process was put off something is queued for now.
LEMMA DeferQueued ==
  ASSUME SlotWhole, Slot!At("loop"), pass.defer
  PROVE  time \in Timed
<1>1. stack # <<>> /\ Top = "loop"
  BY DEF Slot!At, Top
<1>2. Members(queue[time]) # {}
  BY <1>1 DEF SlotWhole, DeferInv
<1>3. time \in Times /\ queue[time] \in Seq(Procs)
  BY DEF SlotWhole, SlotTypes
<1> QED
  BY <1>2, <1>3, NoMembers DEF Timed

LEMMA EmptyAtEnd ==
  ASSUME SlotWhole, [Slot!Next]_Slot!slotVars, SlotEnds, ~LivelockBroken
  PROVE  /\ ~PendingData
         /\ queue[time] = <<>>
         /\ \A l \in {"inactive", "ready", "clocking", "reactive", "hops"} : lists[l] = <<>>
<1>0. ~Slot!At("spinner") /\ ~(Slot!SameSlot /\ Slot!StallLimitHit)
  BY LoopNames DEF LivelockBroken
<1>1. Slot!Over \/ ~Slot!SameSlot
  BY <1>0, EndsAtLoop DEF Slot!Stop, Slot!BreakLivelock, Slot!BreakSpinner, Slot!Advance
<1>2. Slot!At("loop")
  BY <1>0, EndsAtLoop DEF Slot!Stop, Slot!BreakLivelock, Slot!BreakSpinner, Slot!Advance
<1>4. time \notin Timed
  BY <1>1, LoopNames DEF Slot!Over, SameSlot
<1>6. ~pass.defer
  BY <1>2, <1>4, DeferQueued
<1>3. /\ ~PendingData
      /\ \A l \in {"inactive", "ready", "clocking", "reactive"} : lists[l] = <<>>
      /\ lists["hops"] # <<>> => queue[time] # <<>>
  BY <1>2, <1>6, NothingOwed
<1>5. queue[time] = <<>>
  BY <1>4 DEF Timed, SlotWhole, SlotTypes
<1> QED
  BY <1>3, <1>5

\* When a slot ends, and no livelock was broken, nothing is left in it: no process queued
\* for it, no #0 continuation, no wait that came true, no continuation of a clocking
\* block, of a program block or of @(nba), and no assignment that is not committed, for
\* every design and however the regions of the slot gave each other work.
THEOREM SlotEndsEmpty == Slot!Spec => SlotIsEmpty
<1>1. SlotWhole /\ [Slot!Next]_Slot!slotVars =>
        [SlotEnds /\ ~LivelockBroken =>
          /\ ~PendingData
          /\ queue[time] = <<>>
          /\ \A l \in {"inactive", "ready", "clocking", "reactive", "hops"} :
                lists[l] = <<>>]_slotVars
  BY EmptyAtEnd
<1> QED
  BY <1>1, SlotIsWhole, PTL DEF Slot!Spec, SlotIsEmpty

\* No gated wait, one that reads properties and locals only, is true when its slot ends:
\* what it reads was noted when it was written, and the notes are taken by a round that
\* wakes it; and another wait that is true then was looked at by a re-pass of this slot.
\* It holds of a slot left at the limit of ticks, and not of one that was left because a
\* process was put off.
THEOREM WaitsAreSeen == Slot!Spec => NoTrueWaitLeft
<1>1. ASSUME SlotWhole, [Slot!Next]_Slot!slotVars, SlotEnds, ~pass.defer,
             NEW i \in DOMAIN lists["conds"], ~IsFalse(lists["conds"][i])
      PROVE  /\ wait[lists["conds"][i]].on # "prop"
             /\ lists["conds"][i] \in pass.rechecked
  <2> DEFINE p == lists["conds"][i]
  <2>1. Slot!At("loop")
    BY <1>1, EndsAtLoop DEF Slot!Stop, Slot!BreakLivelock, Slot!BreakSpinner, Slot!Advance
  <2>2. Seen
    BY <1>1, <2>1, NothingOwed
  <2>3. p \in Members(lists["conds"])
    BY DEF Members
  <2> HIDE DEF p
  <2>4. IF wait[p].on = "prop" THEN ~pass.noted ELSE p \in pass.rechecked
    BY <2>2, <2>3 DEF Seen
  <2>5. wait[p].on # "prop"
    <3> SUFFICES ASSUME wait[p].on = "prop" PROVE FALSE
      OBVIOUS
    <3>1. Gated(lists["conds"], wait, sig.y)
      BY <1>1, <2>4 DEF SlotWhole, NoteInv
    <3>2. wait[p].seen # sig.y
      BY <2>3, <3>1 DEF Gated, Untrue
    <3> QED
      BY <1>1, <3>2 DEF p, IsFalse, ValueOf
  <2> QED
    BY <2>4, <2>5 DEF p
<1>2. SlotWhole /\ [Slot!Next]_Slot!slotVars =>
        [SlotEnds /\ ~pass.defer => \A i \in DOMAIN lists["conds"] :
          LET p == lists["conds"][i]
          IN  IsFalse(p) \/ (wait[p].on # "prop" /\ p \in pass.rechecked)]_slotVars
  BY <1>1
<1> QED
  BY <1>2, SlotIsWhole, PTL DEF Slot!Spec, NoTrueWaitLeft
=============================================================================
