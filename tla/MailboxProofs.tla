----------------------------- MODULE MailboxProofs -----------------------------
(***************************************************************************)
(* Proofs about Mailbox.tla, for any processes, bounds, usages and number  *)
(* of puts.                                                                *)
(***************************************************************************)
EXTENDS Mailbox, SequenceTheorems, WellFoundedInduction, TLAPS

-----------------------------------------------------------------------------
(* Sequences.                                                               *)

\* Induction over a set of numbers, from the well-foundedness of <.
LEMMA SetInduction ==
  ASSUME NEW T, 0 \in T, \A k \in Nat : k \in T => k + 1 \in T
  PROVE  Nat \subseteq T
<1> DEFINE U == Nat \ T
<1>1. SUFFICES ASSUME U # {} PROVE FALSE
  OBVIOUS
<1>2. IsWellFoundedOn(OpToRel(<, Nat), Nat)
  BY NatLessThanWellFounded
<1>3. PICK x \in U : \A y \in U : <<y, x>> \notin OpToRel(<, Nat)
  <2>1. U \subseteq Nat
    OBVIOUS
  <2> HIDE DEF U
  <2> QED
    BY <1>1, <1>2, <2>1, WFMin
<1>4. x # 0 /\ x - 1 \in Nat
  OBVIOUS
<1>5. <<x - 1, x>> \in OpToRel(<, Nat)
  BY <1>4 DEF OpToRel
<1>6. x - 1 \notin U
  BY <1>3, <1>5
<1> QED
  BY <1>4, <1>6

\* The head of a sequence moves to the end of the one before it.
LEMMA HeadMoves ==
  ASSUME NEW S, NEW s \in Seq(S), NEW t \in Seq(S), s # <<>>
  PROVE  /\ Head(s) \in S /\ Tail(s) \in Seq(S)
         /\ Append(t, Head(s)) \in Seq(S)
         /\ Append(t, Head(s)) \o Tail(s) = t \o s
<1>1. /\ Head(s) \in S /\ Head(s) = s[1] /\ Len(s) \in Nat \ {0}
      /\ Tail(s) \in Seq(S) /\ Len(Tail(s)) = Len(s) - 1
      /\ \A i \in 1 .. Len(s) - 1 : Tail(s)[i] = s[i + 1]
  BY HeadTailProperties, EmptySeq, LenProperties
<1>2. /\ <<Head(s)>> \in Seq(S) /\ Len(<<Head(s)>>) = 1
      /\ <<Head(s)>>[1] = Head(s)
  BY <1>1
<1> DEFINE v == <<Head(s)>> \o Tail(s)
<1>3. /\ v \in Seq(S) /\ Len(v) = Len(s)
      /\ \A i \in 1 .. Len(s) : v[i] = IF i <= 1 THEN <<Head(s)>>[i]
                                       ELSE Tail(s)[i - 1]
  BY <1>1, <1>2, ConcatProperties
<1>4. v = s
  <2> HIDE DEF v
  <2>1. ASSUME NEW i \in 1 .. Len(v) PROVE v[i] = s[i]
    <3>1. CASE i = 1
      BY <1>1, <1>2, <1>3, <3>1
    <3>2. CASE i > 1
      <4>1. i - 1 \in 1 .. Len(s) - 1 /\ (i - 1) + 1 = i
        BY <1>1, <1>3, <3>2
      <4>2. v[i] = Tail(s)[i - 1]
        BY <1>1, <1>3, <3>2
      <4> QED
        BY <1>1, <4>1, <4>2
    <3> QED
      BY <1>1, <1>3, <3>1, <3>2
  <2> QED
    BY <1>3, <2>1, SeqEqual
<1>5. /\ Append(t, Head(s)) \in Seq(S)
      /\ Append(t, Head(s)) = t \o <<Head(s)>>
  <2> DEFINE x == Head(s)
  <2>1. x \in S
    BY <1>1
  <2> HIDE DEF x
  <2>2. Append(t, x) \in Seq(S) /\ Append(t, x) = t \o <<x>>
    BY <2>1, AppendProperties, AppendIsConcat
  <2> QED
    BY <2>2 DEF x
<1>6. (t \o <<Head(s)>>) \o Tail(s) = t \o v
  <2> DEFINE u == <<Head(s)>>
             r == Tail(s)
  <2>1. u \in Seq(S) /\ r \in Seq(S)
    BY <1>1, <1>2
  <2> HIDE DEF u, r
  <2>2. (t \o u) \o r = t \o (u \o r)
    BY <2>1, ConcatAssociative
  <2> QED
    BY <2>2 DEF u, r
<1> QED
  BY <1>4, <1>5, <1>6

\* An element appended to a sequence is the last of all.
LEMMA AppendMoves ==
  ASSUME NEW S, NEW s \in Seq(S), NEW t \in Seq(S), NEW x \in S
  PROVE  t \o Append(s, x) = Append(t \o s, x)
<1>1. /\ Append(s, x) = s \o <<x>> /\ Append(t \o s, x) = (t \o s) \o <<x>>
      /\ <<x>> \in Seq(S)
  BY AppendIsConcat, ConcatProperties
<1> QED
  BY <1>1, ConcatAssociative

\* The messages of parked producers, when the first leaves or one more comes.
LEMMA MessagesAre ==
  ASSUME NEW q \in Seq(Putters)
  PROVE  /\ MessagesOf(q) \in Seq(Messages) /\ Len(MessagesOf(q)) = Len(q)
         /\ \A i \in 1 .. Len(q) : MessagesOf(q)[i] = q[i].msg
<1>1. Len(q) \in Nat /\ DOMAIN q = 1 .. Len(q) /\ \A i \in 1 .. Len(q) : q[i] \in Putters
  BY LenProperties
<1>2. \A i \in 1 .. Len(q) : q[i].msg \in Messages
  BY <1>1 DEF Putters
<1>3. MessagesOf(q) \in [1 .. Len(q) -> Messages]
  BY <1>1, <1>2 DEF MessagesOf
<1>4. MessagesOf(q) \in Seq(Messages) /\ Len(MessagesOf(q)) = Len(q)
  BY <1>1, <1>3
<1> QED
  BY <1>1, <1>4 DEF MessagesOf

LEMMA MessagesOfTail ==
  ASSUME NEW q \in Seq(Putters), q # <<>>
  PROVE  /\ MessagesOf(q) # <<>>
         /\ Head(MessagesOf(q)) = Head(q).msg
         /\ Tail(MessagesOf(q)) = MessagesOf(Tail(q))
<1> DEFINE s == MessagesOf(q)
<1>1. /\ s \in Seq(Messages) /\ Len(s) = Len(q)
      /\ \A i \in 1 .. Len(q) : s[i] = q[i].msg
  BY MessagesAre
<1>2. /\ Len(q) \in Nat \ {0} /\ Head(q) = q[1] /\ Head(s) = s[1]
      /\ Tail(q) \in Seq(Putters) /\ Len(Tail(q)) = Len(q) - 1
      /\ \A i \in 1 .. Len(q) - 1 : Tail(q)[i] = q[i + 1]
  BY HeadTailProperties, EmptySeq, LenProperties, <1>1
<1>3. s # <<>>
  BY <1>1, <1>2, EmptySeq
<1>4. /\ Tail(s) \in Seq(Messages) /\ Len(Tail(s)) = Len(q) - 1
      /\ \A i \in 1 .. Len(q) - 1 : Tail(s)[i] = s[i + 1]
  <2> HIDE DEF s
  <2>1. /\ Tail(s) \in Seq(Messages) /\ Len(Tail(s)) = Len(s) - 1
        /\ \A i \in 1 .. Len(Tail(s)) : Tail(s)[i] = s[i + 1]
    BY <1>1, <1>3, HeadTailProperties
  <2> QED
    BY <1>1, <2>1, Zenon
<1> DEFINE r == MessagesOf(Tail(q))
<1>5. /\ r \in Seq(Messages) /\ Len(r) = Len(q) - 1
      /\ \A i \in 1 .. Len(q) - 1 : r[i] = Tail(q)[i].msg
  BY <1>2, MessagesAre, Zenon
<1>6. \A i \in 1 .. Len(Tail(s)) : Tail(s)[i] = r[i]
  <2> HIDE DEF s, r
  <2> TAKE i \in 1 .. Len(Tail(s))
  <2>1. i \in 1 .. Len(q) - 1 /\ i + 1 \in 1 .. Len(q)
    BY <1>2, <1>4
  <2> QED
    BY <1>1, <1>2, <1>4, <1>5, <2>1
<1>7. Tail(s) = r
  <2> HIDE DEF s, r
  <2> QED
    BY <1>4, <1>5, <1>6, SeqEqual
<1> QED
  BY <1>1, <1>2, <1>3, <1>7

LEMMA MessagesOfAppend ==
  ASSUME NEW q \in Seq(Putters), NEW w \in Putters
  PROVE  MessagesOf(Append(q, w)) = Append(MessagesOf(q), w.msg)
<1> DEFINE s == MessagesOf(Append(q, w))
           r == Append(MessagesOf(q), w.msg)
<1>1. /\ Append(q, w) \in Seq(Putters) /\ Len(Append(q, w)) = Len(q) + 1
      /\ Len(q) \in Nat /\ w.msg \in Messages
      /\ \A i \in 1 .. Len(q) : Append(q, w)[i] = q[i]
      /\ Append(q, w)[Len(q) + 1] = w
  BY AppendProperties, LenProperties DEF Putters
<1>2. /\ s \in Seq(Messages) /\ Len(s) = Len(q) + 1
      /\ \A i \in 1 .. Len(q) + 1 : s[i] = Append(q, w)[i].msg
  BY <1>1, MessagesAre
<1>3. /\ MessagesOf(q) \in Seq(Messages) /\ Len(MessagesOf(q)) = Len(q)
      /\ \A i \in 1 .. Len(q) : MessagesOf(q)[i] = q[i].msg
  BY MessagesAre
<1>4. /\ r \in Seq(Messages) /\ Len(r) = Len(q) + 1
      /\ \A i \in 1 .. Len(q) : r[i] = q[i].msg
      /\ r[Len(q) + 1] = w.msg
  BY <1>1, <1>3, AppendProperties
<1> HIDE DEF s, r
<1>5. \A i \in 1 .. Len(s) : s[i] = r[i]
  BY <1>1, <1>2, <1>4
<1>6. s = r
  BY <1>2, <1>4, <1>5, SeqEqual
<1> QED
  BY <1>6 DEF s, r

-----------------------------------------------------------------------------
(* What the steps on a record of the mailbox keep.                          *)

Boxes == [box : Seq(Messages), getters : Seq(Getters), putters : Seq(Putters),
          state : [Procs -> States], taken : Seq(Messages)]

Once(q) == \A i, j \in DOMAIN q : q[i].pid = q[j].pid => i = j

\* A process that waits to receive is in the queue once, and it alone; one that is
\* parked in put, killed since or not, is in the other queue once.
GettersWait(m) == Once(m.getters)
                  /\ \A p \in Procs : m.state[p] = "getting" <=> Waits(p, m.getters)
PuttersWait(m) == Once(m.putters)
                  /\ \A i \in DOMAIN m.putters :
                        m.state[m.putters[i].pid] \in {"putting", "killed"}
Sound(m) == m \in Boxes /\ GettersWait(m) /\ PuttersWait(m)

\* All messages, in the order in which they are received.
All(m)     == m.taken \o m.box \o MessagesOf(m.putters)
NoSpace(m) == m.putters # <<>> => IsFull(m)
Within(m)  == bound > 0 => Len(m.box) <= bound

\* The first of a queue leaves it, or one more comes.
LEMMA QueueTail ==
  ASSUME NEW S, NEW q \in Seq(S), q # <<>>, Once(q)
  PROVE  /\ Once(Tail(q))
         /\ \A p : Waits(p, Tail(q)) <=> Waits(p, q) /\ p # Head(q).pid
<1>1. /\ Len(q) \in Nat \ {0} /\ DOMAIN q = 1 .. Len(q) /\ Head(q) = q[1]
      /\ DOMAIN Tail(q) = 1 .. Len(q) - 1
      /\ \A i \in 1 .. Len(q) - 1 : Tail(q)[i] = q[i + 1]
  BY HeadTailProperties, EmptySeq, LenProperties
<1>2. Once(Tail(q))
  <2> SUFFICES ASSUME NEW i \in 1 .. Len(q) - 1, NEW j \in 1 .. Len(q) - 1,
                      Tail(q)[i].pid = Tail(q)[j].pid
               PROVE  i = j
    BY <1>1 DEF Once
  <2>1. i + 1 \in 1 .. Len(q) /\ j + 1 \in 1 .. Len(q)
        /\ q[i + 1].pid = q[j + 1].pid
    BY <1>1
  <2>2. i + 1 = j + 1
    BY <1>1, <2>1 DEF Once
  <2> QED
    BY <2>2
<1>3. ASSUME NEW p, Waits(p, Tail(q)) PROVE Waits(p, q) /\ p # Head(q).pid
  <2>1. PICK i \in 1 .. Len(q) - 1 : Tail(q)[i].pid = p
    BY <1>1, <1>3 DEF Waits
  <2>2. i + 1 \in DOMAIN q /\ 1 \in DOMAIN q /\ i + 1 # 1 /\ q[i + 1].pid = p
    BY <1>1, <2>1
  <2> QED
    BY <1>1, <2>2 DEF Waits, Once
<1>4. ASSUME NEW p, Waits(p, q), p # Head(q).pid PROVE Waits(p, Tail(q))
  <2>1. PICK i \in 1 .. Len(q) : q[i].pid = p
    BY <1>1, <1>4 DEF Waits
  <2>2. i # 1
    BY <1>1, <1>4, <2>1
  <2>3. i - 1 \in 1 .. Len(q) - 1 /\ (i - 1) + 1 = i
    BY <1>1, <2>1, <2>2
  <2>4. Tail(q)[i - 1].pid = p
    BY <1>1, <2>1, <2>3
  <2> QED
    BY <1>1, <2>3, <2>4 DEF Waits
<1> QED
  BY <1>2, <1>3, <1>4

LEMMA QueueAppend ==
  ASSUME NEW S, NEW q \in Seq(S), NEW w \in S, Once(q), ~ Waits(w.pid, q)
  PROVE  /\ Once(Append(q, w))
         /\ \A p : Waits(p, Append(q, w)) <=> Waits(p, q) \/ p = w.pid
<1>1. /\ Len(q) \in Nat /\ DOMAIN q = 1 .. Len(q)
      /\ DOMAIN Append(q, w) = 1 .. Len(q) + 1
      /\ \A i \in 1 .. Len(q) : Append(q, w)[i] = q[i]
      /\ Append(q, w)[Len(q) + 1] = w
  BY AppendProperties, LenProperties
<1>2. \A i \in 1 .. Len(q) + 1 : i \in 1 .. Len(q) \/ i = Len(q) + 1
  BY <1>1
<1> QED
  BY <1>1, <1>2 DEF Once, Waits

-----------------------------------------------------------------------------
LEMMA AdmitKeeps ==
  ASSUME NEW m, Sound(m), bound \in Nat
  PROVE  /\ Sound(Admit(m))
         /\ All(Admit(m)) = All(m)
         /\ Admit(m).getters = m.getters
         /\ Within(m) => Within(Admit(m))
<1>1. CASE bound = 0 \/ IsFull(m) \/ m.putters = <<>>
  BY <1>1 DEF Admit
<1>2. CASE ~ (bound = 0 \/ IsFull(m) \/ m.putters = <<>>)
  <2> DEFINE w == Head(m.putters)
             n == [m EXCEPT !.box = Append(@, w.msg), !.putters = Tail(@),
                            !.state[w.pid] = Woken(@)]
  <2>1. Admit(m) = n
    BY <1>2 DEF Admit
  <2>2. /\ w \in Putters /\ w.msg \in Messages /\ w.pid \in Procs
        /\ Tail(m.putters) \in Seq(Putters)
        /\ w = m.putters[1] /\ 1 \in DOMAIN m.putters
    <3>1. m.putters \in Seq(Putters) /\ m.putters # <<>>
      BY <1>2 DEF Sound, Boxes
    <3>2. /\ w \in Putters /\ w = m.putters[1] /\ Tail(m.putters) \in Seq(Putters)
          /\ Len(m.putters) \in Nat \ {0} /\ DOMAIN m.putters = 1 .. Len(m.putters)
      BY <3>1, HeadTailProperties, EmptySeq, LenProperties
    <3> QED
      BY <3>2 DEF Putters
  <2>3. /\ Append(m.box, w.msg) \in Seq(Messages)
        /\ Len(Append(m.box, w.msg)) = Len(m.box) + 1 /\ Len(m.box) \in Nat
    BY <2>2, AppendProperties, LenProperties DEF Sound, Boxes
  <2>4. Woken(m.state[w.pid]) \in {"ready", "killed"}
    BY DEF Woken
  <2>5. /\ n \in Boxes
        /\ n.box = Append(m.box, w.msg) /\ n.putters = Tail(m.putters)
        /\ n.taken = m.taken /\ n.getters = m.getters
        /\ n.state = [m.state EXCEPT ![w.pid] = Woken(@)]
    BY <2>2, <2>3, <2>4 DEF Sound, Boxes, States
  <2> HIDE DEF n, w
  <2>6. GettersWait(n)
    <3>1. m.state[w.pid] # "getting"
      BY <2>2 DEF Sound, PuttersWait
    <3>2. \A p \in Procs : n.state[p] = "getting" <=> m.state[p] = "getting"
      BY <2>2, <2>4, <2>5, <3>1 DEF Sound, Boxes
    <3> QED
      BY <2>5, <3>2 DEF Sound, GettersWait
  <2>7. PuttersWait(n)
    <3>1. /\ Once(Tail(m.putters))
          /\ \A p : Waits(p, Tail(m.putters)) <=> Waits(p, m.putters) /\ p # w.pid
      BY <1>2, QueueTail DEF Sound, Boxes, PuttersWait, w
    <3>2. ASSUME NEW i \in DOMAIN n.putters
          PROVE  n.state[n.putters[i].pid] \in {"putting", "killed"}
      <4>1. Waits(n.putters[i].pid, Tail(m.putters))
        BY <2>5, <3>2 DEF Waits
      <4>2. PICK j \in DOMAIN m.putters : m.putters[j].pid = n.putters[i].pid
        BY <3>1, <4>1 DEF Waits
      <4>3. n.putters[i].pid # w.pid /\ n.putters[i].pid \in Procs
        <5>1. n.putters[i] \in Putters
          <6>1. n.putters \in Seq(Putters)
            BY <2>5 DEF Boxes
          <6> QED
            BY <3>2, <6>1, LenProperties
        <5> QED
          BY <3>1, <4>1, <5>1 DEF Putters
      <4> QED
        BY <2>5, <4>2, <4>3 DEF Sound, PuttersWait, Boxes
    <3> QED
      BY <2>5, <3>1, <3>2 DEF PuttersWait
  <2>8. All(n) = All(m)
    <3> DEFINE u == MessagesOf(m.putters)
    <3>1. /\ u \in Seq(Messages) /\ u # <<>> /\ Head(u) = w.msg
          /\ Tail(u) = MessagesOf(n.putters)
      BY <1>2, <2>5, MessagesAre, MessagesOfTail DEF Sound, Boxes, w
    <3>2. m.taken \in Seq(Messages) /\ m.box \in Seq(Messages)
      BY DEF Sound, Boxes
    <3> HIDE DEF u
    <3>3. m.taken \o m.box \in Seq(Messages)
      BY <3>2, ConcatProperties
    <3>4. m.taken \o n.box = Append(m.taken \o m.box, Head(u))
      <4>1. m.taken \o Append(m.box, w.msg) = Append(m.taken \o m.box, w.msg)
        BY <2>2, <3>2, AppendMoves
      <4> QED
        BY <2>5, <3>1, <4>1
    <3>5. Append(m.taken \o m.box, Head(u)) \o Tail(u) = (m.taken \o m.box) \o u
      BY <3>1, <3>3, HeadMoves
    <3> QED
      BY <2>5, <3>1, <3>4, <3>5 DEF All, u
  <2>9. Within(n)
    BY <1>2, <2>3, <2>5 DEF Within, IsFull
  <2> QED
    BY <2>1, <2>5, <2>6, <2>7, <2>8, <2>9 DEF Sound
<1> QED
  BY <1>1, <1>2

LEMMA ConsumeKeeps ==
  ASSUME NEW m, Sound(m), m.box # <<>>, bound \in Nat
  PROVE  /\ Sound(Consume(m))
         /\ All(Consume(m)) = All(m)
         /\ Consume(m).getters = m.getters
         /\ Within(m) => Within(Consume(m))
         /\ NoSpace(m) => NoSpace(Consume(m))
<1> DEFINE n == Popped(m)
<1>1. m.box \in Seq(Messages) /\ m.taken \in Seq(Messages)
  BY DEF Sound, Boxes
<1>2. /\ Head(m.box) \in Messages /\ Tail(m.box) \in Seq(Messages)
      /\ Append(m.taken, Head(m.box)) \in Seq(Messages)
      /\ Append(m.taken, Head(m.box)) \o Tail(m.box) = m.taken \o m.box
  BY <1>1, HeadMoves
<1>3. Len(m.box) \in Nat \ {0} /\ Len(Tail(m.box)) = Len(m.box) - 1
  BY <1>1, HeadTailProperties, EmptySeq
<1>4. /\ n \in Boxes /\ n.box = Tail(m.box)
      /\ n.taken = Append(m.taken, Head(m.box))
      /\ n.getters = m.getters /\ n.putters = m.putters /\ n.state = m.state
  BY <1>2 DEF Popped, Sound, Boxes
<1> HIDE DEF n
<1>5. Sound(n)
  BY <1>4 DEF Sound, GettersWait, PuttersWait
<1>6. All(n) = All(m)
  BY <1>2, <1>4 DEF All
<1>7. Within(m) => Within(n)
  BY <1>3, <1>4 DEF Within
<1>8. ASSUME NoSpace(m) PROVE NoSpace(Admit(n))
  <2>1. CASE bound = 0 \/ IsFull(n) \/ n.putters = <<>>
    <3>1. Admit(n) = n
      BY <2>1 DEF Admit
    <3>2. NoSpace(n)
      <4>1. n.putters # <<>> => bound # 0
        BY <1>4, <1>8 DEF NoSpace, IsFull
      <4> QED
        BY <2>1, <4>1 DEF NoSpace
    <3> QED
      BY <3>1, <3>2
  <2>2. CASE ~ (bound = 0 \/ IsFull(n) \/ n.putters = <<>>)
    <3>1. Admit(n).box = Append(n.box, Head(n.putters).msg)
      <4>1. n.box \in Seq(Messages)
        BY <1>4 DEF Boxes
      <4> QED
        BY <2>2, <1>4 DEF Admit, Boxes
    <3>2. Head(n.putters).msg \in Messages
      <4>1. n.putters \in Seq(Putters)
        BY <1>4 DEF Boxes
      <4>2. Head(n.putters) \in Putters
        BY <2>2, <4>1, HeadTailProperties
      <4> QED
        BY <4>2 DEF Putters
    <3>3. Len(Admit(n).box) = Len(m.box)
      <4>1. n.box \in Seq(Messages)
        BY <1>4 DEF Boxes
      <4>2. Len(Append(n.box, Head(n.putters).msg)) = Len(n.box) + 1
        BY <3>2, <4>1, AppendProperties
      <4> QED
        BY <1>3, <1>4, <3>1, <4>2
    <3>4. IsFull(m)
      BY <1>4, <1>8, <2>2 DEF NoSpace
    <3> QED
      BY <3>3, <3>4 DEF NoSpace, IsFull
  <2> QED
    BY <2>1, <2>2
<1>9. Consume(m) = Admit(n)
  BY DEF Consume, n
<1> QED
  BY <1>4, <1>5, <1>6, <1>7, <1>8, <1>9, AdmitKeeps

\* The first getter or peeker is woken and leaves the queue.
Woke(m) == [m EXCEPT !.getters = Tail(@),
                     !.state[Head(m.getters).pid] = Woken(@)]

LEMMA WakeKeeps ==
  ASSUME NEW m, Sound(m), m.getters # <<>>
  PROVE  /\ Sound(Woke(m))
         /\ Woke(m).box = m.box /\ Woke(m).putters = m.putters
         /\ Woke(m).taken = m.taken /\ Woke(m).getters = Tail(m.getters)
<1> DEFINE w == Head(m.getters)
           n == Woke(m)
<1>1. /\ w.pid \in Procs /\ Tail(m.getters) \in Seq(Getters)
      /\ w = m.getters[1] /\ 1 \in DOMAIN m.getters
  <2>1. m.getters \in Seq(Getters) /\ m.getters # <<>>
    BY DEF Sound, Boxes
  <2>2. /\ w \in Getters /\ w = m.getters[1] /\ Tail(m.getters) \in Seq(Getters)
        /\ Len(m.getters) \in Nat \ {0} /\ DOMAIN m.getters = 1 .. Len(m.getters)
    BY <2>1, HeadTailProperties, EmptySeq, LenProperties
  <2> QED
    BY <2>2 DEF Getters
<1>2. m.state[w.pid] = "getting"
  <2>1. Waits(w.pid, m.getters)
    BY <1>1 DEF Waits
  <2> QED
    BY <1>1, <2>1 DEF Sound, GettersWait
<1>3. Woken(m.state[w.pid]) = "ready"
  BY <1>2 DEF Woken
<1>4. /\ n \in Boxes
      /\ n.box = m.box /\ n.putters = m.putters /\ n.taken = m.taken
      /\ n.getters = Tail(m.getters)
      /\ n.state = [m.state EXCEPT ![w.pid] = "ready"]
  BY <1>1, <1>3 DEF Sound, Boxes, States, Woke
<1> HIDE DEF n
<1>5. GettersWait(n)
  <2>1. /\ Once(Tail(m.getters))
        /\ \A p : Waits(p, Tail(m.getters)) <=> Waits(p, m.getters) /\ p # w.pid
    BY QueueTail DEF Sound, Boxes, GettersWait
  <2> HIDE DEF w
  <2>2. ASSUME NEW p \in Procs
        PROVE  n.state[p] = "getting" <=> Waits(p, n.getters)
    BY <1>4, <2>1 DEF Sound, GettersWait, Boxes
  <2> QED
    BY <1>4, <2>1, <2>2 DEF GettersWait
<1>6. PuttersWait(n)
  <2>1. ASSUME NEW i \in DOMAIN m.putters
        PROVE  n.state[m.putters[i].pid] \in {"putting", "killed"}
    <3>1. m.putters[i].pid # w.pid
      BY <1>2 DEF Sound, PuttersWait
    <3>2. m.putters[i].pid \in Procs
      <4>1. m.putters \in Seq(Putters)
        BY DEF Sound, Boxes
      <4>2. m.putters[i] \in Putters
        BY <4>1, LenProperties
      <4> QED
        BY <4>2 DEF Putters
    <3> HIDE DEF w
    <3> QED
      BY <1>4, <3>1, <3>2 DEF Sound, PuttersWait, Boxes
  <2> QED
    BY <1>4, <2>1 DEF Sound, PuttersWait
<1> QED
  BY <1>4, <1>5, <1>6 DEF Sound, n

LEMMA DeliverKeeps ==
  ASSUME NEW m, Sound(m), bound \in Nat
  PROVE  /\ Sound(Deliver(m))
         /\ All(Deliver(m)) = All(m)
         /\ m.box = <<>> => Deliver(m) = m
         /\ m.box # <<>> /\ m.getters # <<>> => Deliver(m).getters = Tail(m.getters)
         /\ m.getters = <<>> => Deliver(m) = m
         /\ Within(m) => Within(Deliver(m))
         /\ NoSpace(m) => NoSpace(Deliver(m))
<1>1. CASE m.box = <<>> \/ m.getters = <<>>
  BY <1>1 DEF Deliver
<1>2. CASE ~ (m.box = <<>> \/ m.getters = <<>>)
  <2> DEFINE n == Woke(m)
  <2>1. Deliver(m) = IF Head(m.getters).peek THEN n ELSE Consume(n)
    BY <1>2, Zenon DEF Deliver, Woke
  <2>2. /\ Sound(n) /\ n.box = m.box /\ n.putters = m.putters
        /\ n.taken = m.taken /\ n.getters = Tail(m.getters)
    BY <1>2, WakeKeeps
  <2> HIDE DEF n
  <2>3. All(n) = All(m) /\ (Within(m) => Within(n)) /\ (NoSpace(m) => NoSpace(n))
    BY <2>2 DEF All, Within, NoSpace, IsFull
  <2>4. CASE Head(m.getters).peek
    <3>1. Deliver(m) = n
      BY <2>1, <2>4
    <3> QED
      BY <1>2, <2>2, <2>3, <3>1
  <2>5. CASE ~ Head(m.getters).peek
    <3>1. Deliver(m) = Consume(n)
      BY <2>1, <2>5
    <3> QED
      BY <1>2, <2>2, <2>3, <3>1, ConsumeKeeps
  <2> QED
    BY <2>4, <2>5
<1> QED
  BY <1>1, <1>2

-----------------------------------------------------------------------------
(* The turns of drain_mailbox_get_waiters.                                  *)

\* The recursive function of Drained exists.
LEMMA Turns ==
  ASSUME NEW m, NEW n \in Nat
  PROVE  \E g : g = [i \in 0 .. n |-> IF i = 0 THEN m ELSE Deliver(g[i - 1])]
<1> DEFINE Body(g, k) == [i \in 0 .. k |-> IF i = 0 THEN m ELSE Deliver(g[i - 1])]
           T == {k \in Nat : \E g : g = Body(g, k)}
<1>1. 0 \in T
  <2> DEFINE g == [i \in 0 .. 0 |-> m]
  <2>1. g = Body(g, 0)
    OBVIOUS
  <2> QED
    BY <2>1
<1>2. ASSUME NEW k \in Nat, k \in T PROVE k + 1 \in T
  <2>1. PICK g : g = Body(g, k)
    BY <1>2
  <2> DEFINE h == [i \in 0 .. k + 1 |-> IF i \in 0 .. k THEN g[i] ELSE Deliver(g[k])]
  <2>2. ASSUME NEW i \in 0 .. k + 1
        PROVE  h[i] = IF i = 0 THEN m ELSE Deliver(h[i - 1])
    <3>1. CASE i = 0
      <4>1. g[0] = m
        BY <2>1
      <4> QED
        BY <3>1, <4>1
    <3>2. CASE i \in 1 .. k
      <4>1. i \in 0 .. k /\ i - 1 \in 0 .. k /\ i # 0 /\ i - 1 \in 0 .. k + 1
        BY <3>2
      <4>2. g[i] = Deliver(g[i - 1])
        BY <2>1, <4>1
      <4>3. h[i] = g[i] /\ h[i - 1] = g[i - 1]
        BY <4>1
      <4> QED
        BY <4>1, <4>2, <4>3
    <3>3. CASE i = k + 1
      <4>1. h[i] = Deliver(g[k]) /\ h[i - 1] = g[k] /\ i # 0
        BY <3>3
      <4> QED
        BY <4>1
    <3> QED
      BY <3>1, <3>2, <3>3
  <2>3. h = Body(h, k + 1)
    <3>1. Body(h, k + 1) = [i \in 0 .. k + 1 |-> h[i]]
      BY <2>2, Zenon
    <3> QED
      BY <3>1
  <2>4. \E f : f = Body(f, k + 1)
    <3> HIDE DEF h, Body
    <3> QED
      BY <2>3, Zenon
  <2>5. k + 1 \in Nat
    OBVIOUS
  <2> QED
    <3> HIDE DEF h, Body
    <3> QED
      BY <2>4, <2>5, Zenon DEF T
<1>3. Nat \subseteq T
  <2> HIDE DEF T
  <2> QED
    BY <1>1, <1>2, SetInduction
<1> QED
  BY <1>3

LEMMA DrainedKeeps ==
  ASSUME NEW m, Sound(m), bound \in Nat
  PROVE  /\ Sound(Drained(m))
         /\ All(Drained(m)) = All(m)
         /\ Within(m) => Within(Drained(m))
         /\ NoSpace(m) => NoSpace(Drained(m))
         /\ Drained(m).box = <<>> \/ Drained(m).getters = <<>>
         /\ \E k \in 0 .. Len(m.getters) :
               Drained(m).getters = SubSeq(m.getters, k + 1, Len(m.getters))
<1> DEFINE q == m.getters
           n == Len(m.getters)
           after == CHOOSE g : g = [i \in 0 .. n |-> IF i = 0 THEN m ELSE Deliver(g[i - 1])]
<1>1. q \in Seq(Getters) /\ n \in Nat
  BY LenProperties DEF Sound, Boxes
<1>2. after = [i \in 0 .. n |-> IF i = 0 THEN m ELSE Deliver(after[i - 1])]
  <2>1. \E g : g = [i \in 0 .. n |-> IF i = 0 THEN m ELSE Deliver(g[i - 1])]
    BY <1>1, Turns, ZenonT(60)
  <2> QED
    BY <2>1, Zenon
<1>3. Drained(m) = after[n]
  BY Zenon DEF Drained
<1> HIDE DEF after, q
<1>4. /\ after[0] = m
      /\ \A i \in 0 .. n - 1 : after[i + 1] = Deliver(after[i])
  <2>1. \A i \in 0 .. n - 1 : i + 1 \in 0 .. n /\ i + 1 # 0 /\ (i + 1) - 1 = i
    BY <1>1
  <2>2. 0 \in 0 .. n
    BY <1>1
  <2>3. \A j \in 0 .. n : after[j] = IF j = 0 THEN m ELSE Deliver(after[j - 1])
    BY <1>2, Zenon
  <2> QED
    BY <2>1, <2>2, <2>3
<1> DEFINE Kept(i) ==
             /\ Sound(after[i])
             /\ All(after[i]) = All(m)
             /\ Within(m) => Within(after[i])
             /\ NoSpace(m) => NoSpace(after[i])
             /\ \E k \in 0 .. i : after[i].getters = SubSeq(q, k + 1, n)
             /\ after[i].box = <<>> \/ after[i].getters = SubSeq(q, i + 1, n)
           T == {i \in Nat : i <= n => Kept(i)}
<1>5. 0 \in T
  <2>1. SubSeq(q, 0 + 1, n) = q /\ q = m.getters
    BY <1>1, SubSeqFull DEF q
  <2>2. after[0] = m
    BY <1>4
  <2>3. \E k \in 0 .. 0 : after[0].getters = SubSeq(q, k + 1, n)
    BY <2>1, <2>2
  <2> HIDE DEF n
  <2> QED
    BY <2>1, <2>2, <2>3
<1>6. ASSUME NEW i \in Nat, i \in T PROVE i + 1 \in T
  <2> SUFFICES ASSUME i + 1 <= n PROVE Kept(i + 1)
    OBVIOUS
  <2>1. Kept(i) /\ i \in 0 .. n - 1
    BY <1>1, <1>6
  <2>2. after[i + 1] = Deliver(after[i])
    BY <1>4, <2>1
  <2>3. /\ Sound(after[i + 1]) /\ All(after[i + 1]) = All(m)
        /\ Within(m) => Within(after[i + 1])
        /\ NoSpace(m) => NoSpace(after[i + 1])
    BY <2>1, <2>2, DeliverKeeps
  <2>4. PICK k \in 0 .. i : after[i].getters = SubSeq(q, k + 1, n)
    BY <2>1
  <2>5. CASE after[i].box = <<>>
    <3>1. after[i + 1] = after[i]
      BY <2>1, <2>2, <2>5, DeliverKeeps
    <3>2. k \in 0 .. i + 1
      OBVIOUS
    <3> QED
      BY <2>3, <2>4, <2>5, <3>1, <3>2
  <2>6. CASE after[i].box # <<>>
    <3>1. after[i].getters = SubSeq(q, i + 1, n)
      BY <2>1, <2>6
    <3>2. i + 1 \in 1 .. Len(q) /\ n \in i + 1 .. Len(q) /\ n = Len(q)
      BY <1>1, <2>1 DEF q
    <3>3. Tail(SubSeq(q, i + 1, n)) = SubSeq(q, (i + 1) + 1, n)
      BY <1>1, <3>2, HeadTailOfSubSeq
    <3>4. after[i].getters # <<>>
      <4>1. Len(SubSeq(q, i + 1, n)) = n - (i + 1) + 1
        <5>1. \A j \in i + 1 .. n : q[j] \in Getters
          BY <1>1, <3>2, ElementOfSeq
        <5> QED
          BY <1>1, <3>2, <5>1, SubSeqProperties
      <4>2. Len(<<>>) = 0
        BY EmptySeq
      <4>3. i + 1 <= n /\ n \in Nat
        BY <1>1
      <4> DEFINE l == Len(SubSeq(q, i + 1, n))
      <4>4. l > 0
        <5> HIDE DEF n
        <5> SUFFICES n - (i + 1) + 1 > 0
          BY <4>1
        <5> QED
          BY <4>3
      <4>5. ASSUME SubSeq(q, i + 1, n) = <<>> PROVE FALSE
        <5>1. l = 0
          BY <4>2, <4>5, Zenon
        <5> QED
          BY <4>4, <5>1
      <4> QED
        BY <3>1, <4>5, Zenon
    <3>5. after[i + 1].getters = SubSeq(q, (i + 1) + 1, n)
      BY <2>1, <2>2, <2>6, <3>1, <3>3, <3>4, DeliverKeeps
    <3>6. i + 1 \in 0 .. i + 1
      OBVIOUS
    <3> QED
      BY <2>3, <3>5, <3>6
  <2> QED
    BY <2>5, <2>6
<1>7. Nat \subseteq T
  <2> HIDE DEF T
  <2> QED
    BY <1>5, <1>6, SetInduction
<1>8. Kept(n)
  <2> HIDE DEF Kept
  <2>1. n \in T
    BY <1>1, <1>7
  <2>2. n <= n
    BY <1>1
  <2> QED
    BY <2>1, <2>2
<1>9. SubSeq(q, n + 1, n) = <<>>
  BY <1>1, SubSeqEmpty
<1> QED
  BY <1>3, <1>8, <1>9 DEF q

-----------------------------------------------------------------------------
(* What a put and a purge do.                                               *)

\* The elements of a concatenation, place by place.
LEMMA Places ==
  ASSUME NEW S, NEW s \in Seq(S), NEW t \in Seq(S), NEW c, c = s \o t
  PROVE  /\ c \in Seq(S) /\ Len(s) \in Nat /\ Len(t) \in Nat
         /\ DOMAIN c = 1 .. Len(s) + Len(t)
         /\ \A i \in 1 .. Len(s) : c[i] = s[i]
         /\ \A i \in 1 .. Len(t) : c[Len(s) + i] = t[i]
<1>1. /\ c \in Seq(S) /\ Len(c) = Len(s) + Len(t) /\ DOMAIN c = 1 .. Len(c)
      /\ Len(s) \in Nat /\ Len(t) \in Nat
      /\ \A i \in 1 .. Len(s) + Len(t) : c[i] = IF i <= Len(s) THEN s[i]
                                                ELSE t[i - Len(s)]
  BY ConcatProperties, LenProperties
<1>2. ASSUME NEW i \in 1 .. Len(t) PROVE c[Len(s) + i] = t[i]
  <2>1. /\ Len(s) + i \in 1 .. Len(s) + Len(t) /\ ~ (Len(s) + i <= Len(s))
        /\ (Len(s) + i) - Len(s) = i
    BY <1>1
  <2> QED
    BY <1>1, <2>1
<1> QED
  BY <1>1, <1>2

\* The same as a statement of its own.
Joined(s, t, c) ==
    /\ DOMAIN c = 1 .. Len(s) + Len(t)
    /\ \A i \in 1 .. Len(s) : c[i] = s[i]
    /\ \A i \in 1 .. Len(t) : c[Len(s) + i] = t[i]
LEMMA JoinedPlaces ==
  ASSUME NEW S, NEW s \in Seq(S), NEW t \in Seq(S)
  PROVE  Joined(s, t, s \o t)
<1>1. PICK c : c = s \o t
  OBVIOUS
<1>2. Joined(s, t, c)
  BY <1>1, Places DEF Joined
<1> QED
  BY <1>1, <1>2, Zenon

\* One sequence is another without its element k: by places, and by a bijection.
WithoutPlace(small, big, n, k) ==
    /\ DOMAIN big = 1 .. n + 1 /\ DOMAIN small = 1 .. n
    /\ \A i \in 1 .. k - 1 : small[i] = big[i]
    /\ \A i \in k .. n : small[i] = big[i + 1]
OneApart(small, big, k) ==
    \E f \in [DOMAIN small -> DOMAIN big \ {k}] :
       /\ \A i, j \in DOMAIN small : f[i] = f[j] => i = j
       /\ \A j \in DOMAIN big \ {k} : \E i \in DOMAIN small : f[i] = j
       /\ \A i \in DOMAIN small : small[i] = big[f[i]]

LEMMA PlaceApart ==
  ASSUME NEW n \in Nat, NEW k \in 1 .. n + 1, NEW big, NEW small,
         WithoutPlace(small, big, n, k)
  PROVE  OneApart(small, big, k)
<1> USE DEF WithoutPlace
<1> DEFINE f == [i \in 1 .. n |-> IF i < k THEN i ELSE i + 1]
<1>1. f \in [1 .. n -> 1 .. n + 1 \ {k}]
  OBVIOUS
<1>2. \A i, j \in 1 .. n : f[i] = f[j] => i = j
  OBVIOUS
<1>3. ASSUME NEW j \in 1 .. n + 1 \ {k} PROVE \E i \in 1 .. n : f[i] = j
  <2>1. CASE j < k
    <3>1. j \in 1 .. n /\ f[j] = j
      BY <2>1
    <3> QED
      BY <3>1
  <2>2. CASE j > k
    <3>1. j - 1 \in 1 .. n /\ f[j - 1] = j
      BY <2>2
    <3> QED
      BY <3>1
  <2> QED
    BY <2>1, <2>2
<1>4. ASSUME NEW i \in 1 .. n PROVE small[i] = big[f[i]]
  <2>1. CASE i < k
    BY <2>1
  <2>2. CASE ~ (i < k)
    <3>1. i \in k .. n /\ f[i] = i + 1
      BY <2>2
    <3>2. small[i] = big[i + 1]
      BY <3>1
    <3> QED
      BY <3>1, <3>2
  <2> QED
    BY <2>1, <2>2
<1>5. /\ f \in [DOMAIN small -> DOMAIN big \ {k}]
      /\ \A i, j \in DOMAIN small : f[i] = f[j] => i = j
      /\ \A j \in DOMAIN big \ {k} : \E i \in DOMAIN small : f[i] = j
      /\ \A i \in DOMAIN small : small[i] = big[f[i]]
  <2> HIDE DEF f
  <2> QED
    BY <1>1, <1>2, <1>3, <1>4
<1> HIDE DEF f
<1> QED
  BY <1>5, Zenon DEF OneApart

\* The places of a suffix.
LEMMA SuffixPlaces ==
  ASSUME NEW S, NEW q \in Seq(S), NEW k \in 0 .. Len(q), NEW r,
         r = SubSeq(q, k + 1, Len(q))
  PROVE  /\ DOMAIN r = 1 .. Len(q) - k
         /\ \A i \in 1 .. Len(q) - k : r[i] = q[k + i]
<1>1. /\ SubSeq(q, k + 1, Len(q)) \in Seq(S)
      /\ Len(SubSeq(q, k + 1, Len(q))) = Len(q) - k
      /\ \A i \in 1 .. Len(q) - k : SubSeq(q, k + 1, Len(q))[i] = q[k + i]
  BY SubSeqProperties
<1>2. DOMAIN SubSeq(q, k + 1, Len(q)) = 1 .. Len(q) - k
  BY <1>1, LenProperties
<1> QED
  BY <1>1, <1>2, Zenon

\* A new message among the others leaves each in one place.
LEMMA OneMore ==
  ASSUME NEW s \in Seq(Messages), NEW t \in Seq(Messages), NEW k \in Nat,
         k + 1 \in Messages, IsInjective(s \o t), ToSet(s \o t) = 1 .. k
  PROVE  /\ IsInjective(Append(s, k + 1) \o t)
         /\ ToSet(Append(s, k + 1) \o t) = 1 .. k + 1
<1>1. PICK old : old = s \o t
  OBVIOUS
<1>2. PICK new : new = Append(s, k + 1) \o t
  OBVIOUS
<1>3. PICK a \in Nat, b \in Nat : a = Len(s) /\ b = Len(t)
  BY LenProperties
<1>4. /\ DOMAIN old = 1 .. a + b /\ \A i \in 1 .. a : old[i] = s[i]
      /\ \A i \in 1 .. b : old[a + i] = t[i]
  BY <1>1, <1>3, Places
<1>5. /\ Append(s, k + 1) \in Seq(Messages) /\ Len(Append(s, k + 1)) = a + 1
      /\ \A i \in 1 .. a : Append(s, k + 1)[i] = s[i]
      /\ Append(s, k + 1)[a + 1] = k + 1
  <2> DEFINE m == k + 1
  <2> HIDE DEF m
  <2>1. /\ Append(s, m) \in Seq(Messages) /\ Len(Append(s, m)) = a + 1
        /\ \A i \in 1 .. a : Append(s, m)[i] = s[i]
        /\ Append(s, m)[a + 1] = m
    <3>1. m \in Messages
      BY DEF m
    <3> QED
      BY <1>3, <3>1, AppendProperties
  <2> QED
    BY <2>1 DEF m
<1>6. /\ DOMAIN new = 1 .. (a + 1) + b
      /\ \A i \in 1 .. a + 1 : new[i] = Append(s, k + 1)[i]
      /\ \A i \in 1 .. b : new[(a + 1) + i] = t[i]
  <2> DEFINE r == Append(s, k + 1)
  <2>1. r \in Seq(Messages) /\ Len(r) = a + 1 /\ new = r \o t
    BY <1>2, <1>5
  <2> HIDE DEF r
  <2>2. /\ DOMAIN new = 1 .. (a + 1) + b
        /\ \A i \in 1 .. a + 1 : new[i] = r[i]
        /\ \A i \in 1 .. b : new[(a + 1) + i] = t[i]
    <3>1. r \in Seq(Messages) /\ t \in Seq(Messages)
      BY <2>1
    <3>2. Joined(r, t, new)
      BY <2>1, <3>1, JoinedPlaces, Zenon
    <3>3. Len(r) = a + 1 /\ Len(t) = b
      BY <1>3, <2>1
    <3> QED
      BY <3>2, <3>3, Zenon DEF Joined
  <2> QED
    BY <2>2 DEF r
<1>7. \A i \in 1 .. a : old[i] = new[i]
  BY <1>4, <1>5, <1>6
<1>8. ASSUME NEW i \in a + 1 .. a + b PROVE old[i] = new[i + 1]
  <2>1. PICK j \in 1 .. b : i = a + j /\ i + 1 = (a + 1) + j
    <3>1. i - a \in 1 .. b /\ i = a + (i - a) /\ i + 1 = (a + 1) + (i - a)
      OBVIOUS
    <3> QED
      BY <3>1
  <2> QED
    BY <1>4, <1>6, <2>1
<1>9. PICK f \in [DOMAIN old -> DOMAIN new \ {a + 1}] :
            /\ \A i, j \in DOMAIN old : f[i] = f[j] => i = j
            /\ \A j \in DOMAIN new \ {a + 1} : \E i \in DOMAIN old : f[i] = j
            /\ \A i \in DOMAIN old : old[i] = new[f[i]]
  <2>1. PICK n \in Nat, c \in Nat : n = a + b /\ c = a + 1
    OBVIOUS
  <2>2. /\ c \in 1 .. n + 1 /\ c - 1 = a /\ (a + 1) + b = n + 1
    BY <2>1
  <2>3. WithoutPlace(old, new, n, c)
    BY <1>4, <1>6, <1>7, <1>8, <2>1, <2>2 DEF WithoutPlace
  <2>4. OneApart(old, new, c)
    BY <2>2, <2>3, PlaceApart
  <2> QED
    BY <2>1, <2>4, Zenon DEF OneApart
<1>10. a + 1 \in DOMAIN new /\ new[a + 1] = k + 1
  BY <1>5, <1>6
<1>11. /\ \A i, j \in DOMAIN old : old[i] = old[j] => i = j
       /\ \A i \in DOMAIN old : old[i] \in 1 .. k
       /\ \A y \in 1 .. k : \E i \in DOMAIN old : old[i] = y
  <2>1. IsInjective(old) /\ ToSet(old) = 1 .. k
    BY <1>1
  <2> QED
    BY <2>1, Zenon DEF IsInjective, ToSet
<1>12. ASSUME NEW j \in DOMAIN new, j # a + 1
       PROVE  \E i \in DOMAIN old : f[i] = j /\ new[j] = old[i] /\ new[j] # k + 1
  BY <1>9, <1>11, <1>12
<1>13. ASSUME NEW i \in DOMAIN new, NEW j \in DOMAIN new, new[i] = new[j] PROVE i = j
  <2>1. CASE i = a + 1 \/ j = a + 1
    BY <1>10, <1>12, <1>13, <2>1
  <2>2. CASE i # a + 1 /\ j # a + 1
    BY <1>11, <1>12, <1>13, <2>2
  <2> QED
    BY <2>1, <2>2
<1>14. ASSUME NEW j \in DOMAIN new PROVE new[j] \in 1 .. k + 1
  BY <1>10, <1>11, <1>12
<1>15. ASSUME NEW y \in 1 .. k + 1 PROVE \E j \in DOMAIN new : new[j] = y
  <2>1. CASE y = k + 1
    BY <1>10, <2>1
  <2>2. CASE y # k + 1
    <3>1. PICK i \in DOMAIN old : old[i] = y
      BY <1>11, <2>2
    <3> QED
      BY <1>9, <3>1
  <2> QED
    BY <2>1, <2>2
<1>16. IsInjective(new) /\ ToSet(new) = 1 .. k + 1
  <2>1. IsInjective(new)
    BY <1>13, Zenon DEF IsInjective
  <2>2. ToSet(new) \subseteq 1 .. k + 1
    BY <1>14, Zenon DEF ToSet
  <2>3. 1 .. k + 1 \subseteq ToSet(new)
    BY <1>15, Zenon DEF ToSet
  <2> QED
    BY <2>1, <2>2, <2>3, Zenon
<1> QED
  BY <1>2, <1>16

\* kill() and suspend() take one process out of the getters.
LEMMA WithoutOne ==
  ASSUME NEW p, getters \in Seq(Getters), Once(getters)
  PROVE  /\ GettersWithout(p) \in Seq(Getters) /\ Once(GettersWithout(p))
         /\ \A x : Waits(x, GettersWithout(p)) <=> Waits(x, getters) /\ x # p
         /\ getters = <<>> => GettersWithout(p) = <<>>
<1>1. CASE ~ Waits(p, getters)
  BY <1>1 DEF GettersWithout
<1>2. CASE Waits(p, getters)
  <2>1. \E i \in DOMAIN getters : getters[i].pid = p
    BY <1>2 DEF Waits
  <2>2. PICK k : k = CHOOSE i \in DOMAIN getters : getters[i].pid = p
    OBVIOUS
  <2>3. k \in DOMAIN getters /\ getters[k].pid = p
    BY <2>1, <2>2, Zenon
  <2>4. PICK n \in Nat : Len(getters) = n + 1 /\ DOMAIN getters = 1 .. n + 1
    <3>1. /\ Len(getters) \in Nat /\ DOMAIN getters = 1 .. Len(getters)
          /\ k \in 1 .. Len(getters)
      BY <2>3, LenProperties
    <3>2. PICK n \in Nat : n = Len(getters) - 1
      <4>1. Len(getters) - 1 \in Nat
        BY <3>1
      <4> QED
        BY <4>1, Zenon
    <3>3. Len(getters) = n + 1
      BY <3>1, <3>2
    <3> QED
      BY <3>1, <3>3
  <2>5. PICK l, r : /\ l = SubSeq(getters, 1, k - 1)
                    /\ r = SubSeq(getters, k + 1, Len(getters))
    OBVIOUS
  <2>6. k \in 1 .. n + 1 /\ k - 1 \in Nat /\ n + 1 - k \in Nat
    BY <2>3, <2>4
  <2>7. \A i \in 1 .. n + 1 : getters[i] \in Getters
    BY <2>4, ElementOfSeq
  <2>8. /\ l \in Seq(Getters) /\ Len(l) = k - 1
        /\ \A i \in 1 .. k - 1 : l[i] = getters[i]
    <3>1. \A i \in 1 .. k - 1 : getters[i] \in Getters
      BY <2>6, <2>7
    <3>2. /\ SubSeq(getters, 1, k - 1) \in Seq(Getters)
          /\ Len(SubSeq(getters, 1, k - 1)) = IF 1 <= k - 1 THEN k - 1 - 1 + 1 ELSE 0
          /\ \A i \in 1 .. k - 1 - 1 + 1 :
                SubSeq(getters, 1, k - 1)[i] = getters[1 + i - 1]
      BY <2>6, <3>1, SubSeqProperties
    <3> QED
      BY <2>5, <2>6, <3>2
  <2>9. /\ r \in Seq(Getters) /\ Len(r) = n + 1 - k
        /\ \A i \in 1 .. n + 1 - k : r[i] = getters[k + i]
    <3>1. \A i \in k + 1 .. n + 1 : getters[i] \in Getters
      BY <2>6, <2>7
    <3>2. /\ SubSeq(getters, k + 1, n + 1) \in Seq(Getters)
          /\ Len(SubSeq(getters, k + 1, n + 1)) =
                IF k + 1 <= n + 1 THEN n + 1 - (k + 1) + 1 ELSE 0
          /\ \A i \in 1 .. n + 1 - (k + 1) + 1 :
                SubSeq(getters, k + 1, n + 1)[i] = getters[k + 1 + i - 1]
      BY <2>6, <3>1, SubSeqProperties
    <3> QED
      BY <2>4, <2>5, <2>6, <3>2
  <2>10. PICK q : q = l \o r
    OBVIOUS
  <2>11. /\ q \in Seq(Getters) /\ DOMAIN q = 1 .. n
         /\ \A i \in 1 .. k - 1 : q[i] = l[i]
         /\ \A i \in 1 .. n + 1 - k : q[k - 1 + i] = r[i]
    <3>1. (k - 1) + (n + 1 - k) = n
      BY <2>6
    <3> QED
      BY <2>8, <2>9, <2>10, <3>1, Places, SMTT(30)
  <2>12. ASSUME NEW i \in k .. n PROVE q[i] = getters[i + 1]
    <3>1. PICK j \in 1 .. n + 1 - k : i = k - 1 + j /\ i + 1 = k + j
      <4>1. /\ i - (k - 1) \in 1 .. n + 1 - k /\ i = k - 1 + (i - (k - 1))
            /\ i + 1 = k + (i - (k - 1))
        BY <2>6
      <4> QED
        BY <4>1
    <3>2. q[i] = r[j]
      BY <2>11, <3>1
    <3>3. getters[i + 1] = r[j]
      BY <2>9, <3>1
    <3> QED
      BY <3>2, <3>3
  <2>13. PICK f \in [DOMAIN q -> DOMAIN getters \ {k}] :
            /\ \A i, j \in DOMAIN q : f[i] = f[j] => i = j
            /\ \A j \in DOMAIN getters \ {k} : \E i \in DOMAIN q : f[i] = j
            /\ \A i \in DOMAIN q : q[i] = getters[f[i]]
    <3>1. \A i \in 1 .. k - 1 : q[i] = getters[i]
      BY <2>8, <2>11
    <3>2. WithoutPlace(q, getters, n, k)
      BY <2>4, <2>11, <2>12, <3>1 DEF WithoutPlace
    <3>3. OneApart(q, getters, k)
      BY <2>6, <3>2, PlaceApart
    <3> QED
      BY <3>3, Zenon DEF OneApart
  <2>14. Once(q)
    <3> SUFFICES ASSUME NEW i \in DOMAIN q, NEW j \in DOMAIN q, q[i].pid = q[j].pid
                 PROVE  i = j
      BY Zenon DEF Once
    <3>1. /\ f[i] \in DOMAIN getters /\ f[j] \in DOMAIN getters
          /\ getters[f[i]].pid = getters[f[j]].pid
      BY <2>13
    <3>2. f[i] = f[j]
      BY <3>1, Zenon DEF Once
    <3> QED
      BY <2>13, <3>2, Zenon
  <2>15. ASSUME NEW x PROVE Waits(x, q) <=> Waits(x, getters) /\ x # p
    <3>1. ASSUME Waits(x, q) PROVE Waits(x, getters) /\ x # p
      BY <2>3, <2>13, <3>1 DEF Waits, Once
    <3>2. ASSUME Waits(x, getters), x # p PROVE Waits(x, q)
      BY <2>3, <2>13, <3>2 DEF Waits
    <3> QED
      BY <3>1, <3>2
  <2>16. GettersWithout(p) = q
    BY <1>2, <2>2, <2>5, <2>10, Zenon DEF GettersWithout, RemoveAt
  <2>17. getters # <<>>
    BY <2>4, EmptySeq
  <2> QED
    BY <2>11, <2>14, <2>15, <2>16, <2>17
<1> QED
  BY <1>1, <1>2

\* A message is appended to the box.
Boxed(m, msg) == [m EXCEPT !.box = Append(@, msg)]

LEMMA BoxedKeeps ==
  ASSUME NEW m, Sound(m), bound \in Nat, NEW msg \in Messages
  PROVE  /\ Sound(Boxed(m, msg))
         /\ All(Boxed(m, msg)) = Append(m.taken \o m.box, msg) \o MessagesOf(m.putters)
         /\ ~ IsFull(m) => Within(Boxed(m, msg))
         /\ NoSpace(m) => NoSpace(Boxed(m, msg))
         /\ Boxed(m, msg).getters = m.getters
<1> DEFINE n == Boxed(m, msg)
<1>1. /\ m.box \in Seq(Messages) /\ m.taken \in Seq(Messages)
      /\ Append(m.box, msg) \in Seq(Messages) /\ Len(m.box) \in Nat
      /\ Len(Append(m.box, msg)) = Len(m.box) + 1
  BY AppendProperties, LenProperties DEF Sound, Boxes
<1>2. /\ n \in Boxes /\ n.box = Append(m.box, msg) /\ n.taken = m.taken
      /\ n.getters = m.getters /\ n.putters = m.putters /\ n.state = m.state
  BY <1>1 DEF Sound, Boxes, Boxed
<1> HIDE DEF n
<1>3. Sound(n)
  BY <1>2 DEF Sound, GettersWait, PuttersWait
<1>4. All(n) = Append(m.taken \o m.box, msg) \o MessagesOf(m.putters)
  <2>1. m.taken \o Append(m.box, msg) = Append(m.taken \o m.box, msg)
    BY <1>1, AppendMoves
  <2> QED
    BY <1>2, <2>1 DEF All
<1>5. ~ IsFull(m) => Within(n)
  BY <1>1, <1>2 DEF Within, IsFull
<1>6. NoSpace(m) => NoSpace(n)
  BY <1>1, <1>2 DEF NoSpace, IsFull
<1> QED
  BY <1>2, <1>3, <1>4, <1>5, <1>6 DEF n

\* A put that is not handed over directly.
LEMMA StoredKeeps ==
  ASSUME NEW m, Sound(m), bound \in Nat, NEW msg \in Messages
  PROVE  /\ Sound(Stored(m, msg))
         /\ All(Stored(m, msg)) = Append(m.taken \o m.box, msg) \o MessagesOf(m.putters)
         /\ ~ IsFull(m) => Within(Stored(m, msg))
         /\ NoSpace(m) => NoSpace(Stored(m, msg))
         /\ Stored(m, msg).box = <<>> \/ Stored(m, msg).getters = <<>>
         /\ \E k \in 0 .. Len(m.getters) :
               Stored(m, msg).getters = SubSeq(m.getters, k + 1, Len(m.getters))
<1> DEFINE n == Boxed(m, msg)
<1>1. Stored(m, msg) = Drained(n)
  BY Zenon DEF Stored, Boxed
<1>2. /\ Sound(n) /\ n.getters = m.getters
      /\ All(n) = Append(m.taken \o m.box, msg) \o MessagesOf(m.putters)
      /\ ~ IsFull(m) => Within(n)
      /\ NoSpace(m) => NoSpace(n)
  BY BoxedKeeps
<1> HIDE DEF n
<1>3. /\ Sound(Drained(n)) /\ All(Drained(n)) = All(n)
      /\ Within(n) => Within(Drained(n))
      /\ NoSpace(n) => NoSpace(Drained(n))
      /\ Drained(n).box = <<>> \/ Drained(n).getters = <<>>
      /\ \E k \in 0 .. Len(n.getters) :
            Drained(n).getters = SubSeq(n.getters, k + 1, Len(n.getters))
  BY <1>2, DrainedKeeps
<1> QED
  BY <1>1, <1>2, <1>3, Zenon

-----------------------------------------------------------------------------
(* The inductive invariant.                                                 *)

\* The first n messages are in the mailbox, each in its place.
Filled(m, n) == /\ IsInjective(All(m)) /\ ToSet(All(m)) = 1 .. n
                /\ ByStatements => All(m) = [k \in 1 .. n |-> k]

\* What holds of the mailbox between two calls, n messages put.
Holds(m, n) == /\ Sound(m) /\ Filled(m, n)
               /\ NoSpace(m)
               /\ "expression" \in features \/ m.getters = <<>> \/ m.box = <<>>
               /\ ByStatements => Within(m)

IInv == /\ Holds(Now, sent)
        /\ bound \in Bounds /\ features \in Usages /\ sent \in 0 .. MaxSent

\* The receivers that m wakes are the first ones.
Orderly(m) == \A i, j \in DOMAIN getters :
                 i < j /\ m.state[getters[j].pid] = "ready"
                       => m.state[getters[i].pid] # "getting"

\* What every action does.
Step == \E m : /\ Holds(m, sent') /\ Orderly(m) /\ Become(m)
               /\ sent' \in 0 .. MaxSent

LEMMA InvariantImplies ==
  ASSUME IInv
  PROVE  TypeOK /\ NothingLost /\ InOrder /\ NobodyWaitsInVain /\ WithinBound
<1>1. Sound(Now) /\ Filled(Now, sent) /\ NoSpace(Now)
  BY DEF IInv, Holds
<1>2. TypeOK
  <2>1. /\ box \in Seq(Messages) /\ getters \in Seq(Getters)
        /\ putters \in Seq(Putters) /\ state \in [Procs -> States]
        /\ taken \in Seq(Messages)
    BY <1>1 DEF Sound, Boxes, Now
  <2>2. /\ \A i, j \in DOMAIN getters : getters[i].pid = getters[j].pid => i = j
        /\ \A p \in Procs : state[p] = "getting" <=> Waits(p, getters)
    BY <1>1 DEF Sound, GettersWait, Once, Now
  <2>3. bound \in Bounds /\ features \in Usages /\ sent \in 0 .. MaxSent
    BY DEF IInv
  <2> QED
    BY <2>1, <2>2, <2>3, Zenon DEF TypeOK
<1>3. All(Now) = taken \o box \o Unsent
  BY DEF All, Now, Unsent
<1>4. NothingLost
  BY <1>1, <1>3, Zenon DEF NothingLost, Filled
<1>5. InOrder
  BY <1>1, <1>3, Zenon DEF InOrder, AllInOrder, Filled
<1>6. NobodyWaitsInVain
  <2>1. NoPutterBesideSpace
    BY <1>1 DEF NoPutterBesideSpace, NoSpace, Now
  <2>2. NoGetterBesideMessage
    BY DEF IInv, Holds, Now, NoGetterBesideMessage, NobodyBesideMessage
  <2> QED
    BY <2>1, <2>2 DEF NobodyWaitsInVain
<1>7. WithinBound
  BY DEF IInv, Holds, Within, Now, WithinBound, AllWithinBound
<1> QED
  BY <1>2, <1>4, <1>5, <1>6, <1>7

LEMMA InvariantInitially ==
  ASSUME Init PROVE IInv
<1> USE MailboxAssumption
<1>1. /\ box = <<>> /\ getters = <<>> /\ putters = <<>> /\ taken = <<>>
      /\ state = [p \in Procs |-> "active"] /\ sent = 0
      /\ bound \in Bounds /\ features \in Usages
  BY DEF Init
<1>2. Now \in Boxes
  BY <1>1 DEF Now, Boxes, States
<1>3. Sound(Now)
  <2>1. /\ DOMAIN Now.getters = {} /\ DOMAIN Now.putters = {}
        /\ Now.state = state
    BY <1>1 DEF Now
  <2>2. GettersWait(Now)
    BY <1>1, <2>1 DEF GettersWait, Once, Waits
  <2>3. PuttersWait(Now)
    BY <1>1, <2>1 DEF PuttersWait, Once
  <2> QED
    BY <1>2, <2>2, <2>3 DEF Sound
<1>4. All(Now) = <<>>
  <2>1. MessagesOf(<<>>) = <<>>
    <3>1. MessagesOf(<<>>) \in Seq(Messages) /\ Len(MessagesOf(<<>>)) = 0
      BY MessagesAre, EmptySeq
    <3> QED
      BY <3>1, EmptySeq
  <2>2. <<>> \o <<>> = <<>>
    BY EmptySeq, ConcatEmptySeq
  <2> QED
    BY <1>1, <2>1, <2>2 DEF All, Now
<1>5. Filled(Now, sent)
  <2>1. DOMAIN All(Now) = {} /\ 1 .. sent = {}
    BY <1>1, <1>4
  <2>2. IsInjective(All(Now))
    BY <2>1, Zenon DEF IsInjective
  <2>3. ToSet(All(Now)) = 1 .. sent
    BY <2>1 DEF ToSet
  <2>4. All(Now) = [k \in 1 .. sent |-> k]
    BY <1>1, <1>4
  <2> QED
    BY <2>2, <2>3, <2>4 DEF Filled
<1>6. NoSpace(Now) /\ Within(Now) /\ Now.getters = <<>>
  BY <1>1, EmptySeq DEF NoSpace, Within, Now
<1> QED
  BY <1>1, <1>3, <1>5, <1>6 DEF IInv, Holds

LEMMA StepKeeps ==
  ASSUME IInv, Step, UNCHANGED <<bound, features>>
  PROVE  IInv'
<1>1. PICK m : /\ Holds(m, sent') /\ Become(m)
               /\ sent' \in 0 .. MaxSent
  BY DEF Step
<1>2. Now' = m
  <2>1. m \in Boxes
    BY <1>1 DEF Holds, Sound
  <2>2. m = [box |-> m.box, getters |-> m.getters, putters |-> m.putters,
             state |-> m.state, taken |-> m.taken]
    BY <2>1 DEF Boxes
  <2> QED
    BY <1>1, <2>2 DEF Become, Now
<1>3. Sound(Now')
  BY <1>1, <1>2 DEF Holds
<1>4. Filled(Now, sent)'
  BY <1>1, <1>2 DEF Holds, Filled, ByStatements
<1>5. NoSpace(Now)' /\ (ByStatements => Within(Now))'
  BY <1>1, <1>2 DEF Holds, NoSpace, IsFull, Within, ByStatements
<1>6. ("expression" \in features \/ Now.getters = <<>> \/ Now.box = <<>>)'
  BY <1>1, <1>2 DEF Holds
<1>7. Holds(Now, sent)'
  BY <1>3, <1>4, <1>5, <1>6 DEF Holds
<1> QED
  BY <1>1, <1>7 DEF IInv

-----------------------------------------------------------------------------
(* One lemma for each form of call.                                         *)

\* What the actions start from.
LEMMA Before ==
  ASSUME IInv
  PROVE  /\ Sound(Now) /\ Filled(Now, sent) /\ NoSpace(Now)
         /\ bound \in Nat /\ MaxSent \in Nat /\ sent \in Nat
         /\ "expression" \in features \/ getters = <<>> \/ box = <<>>
         /\ ByStatements => Within(Now)
         /\ Now.box = box /\ Now.getters = getters /\ Now.putters = putters
         /\ Now.state = state /\ Now.taken = taken
         /\ box \in Seq(Messages) /\ getters \in Seq(Getters)
         /\ putters \in Seq(Putters) /\ state \in [Procs -> States]
         /\ taken \in Seq(Messages)
<1> USE MailboxAssumption
<1>1. /\ Sound(Now) /\ Filled(Now, sent) /\ NoSpace(Now) /\ bound \in Bounds
      /\ "expression" \in features \/ Now.getters = <<>> \/ Now.box = <<>>
      /\ ByStatements => Within(Now)
      /\ sent \in 0 .. MaxSent
  BY DEF IInv, Holds
<1>2. /\ Now.box = box /\ Now.getters = getters /\ Now.putters = putters
      /\ Now.state = state /\ Now.taken = taken
  BY DEF Now
<1> QED
  BY <1>1, <1>2 DEF Sound, Boxes

\* A put makes one message more.
LEMMA NextMessage ==
  ASSUME IInv, NEW p \in Procs, Sending(p)
  PROVE  /\ sent + 1 \in Messages /\ sent' = sent + 1 /\ sent' \in 0 .. MaxSent
         /\ state[p] = "active"
<1>1. sent \in Nat /\ MaxSent \in Nat
  BY Before
<1>2. state[p] = "active" /\ sent < MaxSent /\ sent' = sent + 1
  BY DEF Sending
<1> QED
  BY <1>1, <1>2 DEF Messages

\* Who receives is served in order where only the first ones leave the queue, and
\* where none is made ready.
LEMMA FirstOnes ==
  ASSUME IInv, NEW m, Sound(m), NEW k \in 0 .. Len(getters),
         m.getters = SubSeq(getters, k + 1, Len(getters))
  PROVE  Orderly(m)
<1>1. /\ getters \in Seq(Getters) /\ Once(getters) /\ Len(getters) \in Nat
      /\ DOMAIN getters = 1 .. Len(getters)
  BY Before, LenProperties DEF Sound, GettersWait
<1>2. /\ DOMAIN m.getters = 1 .. Len(getters) - k
      /\ \A i \in 1 .. Len(getters) - k : m.getters[i] = getters[k + i]
  BY <1>1, SuffixPlaces
<1> SUFFICES ASSUME NEW i \in DOMAIN getters, NEW j \in DOMAIN getters,
                    i < j, m.state[getters[j].pid] = "ready"
             PROVE  m.state[getters[i].pid] # "getting"
  BY Zenon DEF Orderly
<1>3. getters[i].pid \in Procs /\ getters[j].pid \in Procs
  <2>1. getters[i] \in Getters /\ getters[j] \in Getters
    BY <1>1, ElementOfSeq
  <2> QED
    BY <2>1 DEF Getters
<1>4. j <= k
  <2> SUFFICES ASSUME j > k PROVE FALSE
    BY <1>1
  <2>1. j - k \in DOMAIN m.getters /\ k + (j - k) = j
    BY <1>1, <1>2
  <2>2. m.getters[j - k].pid = getters[j].pid
    BY <1>2, <2>1
  <2>3. Waits(getters[j].pid, m.getters)
    BY <2>1, <2>2 DEF Waits
  <2> QED
    BY <1>3, <2>3 DEF Sound, GettersWait
<1>5. ~ Waits(getters[i].pid, m.getters)
  <2> SUFFICES ASSUME NEW l \in DOMAIN m.getters, m.getters[l].pid = getters[i].pid
               PROVE  FALSE
    BY DEF Waits
  <2>1. k + l \in DOMAIN getters /\ getters[k + l].pid = getters[i].pid
    BY <1>1, <1>2
  <2>2. k + l = i
    BY <1>1, <2>1 DEF Once
  <2> QED
    BY <1>1, <1>2, <1>4, <2>2
<1> QED
  BY <1>3, <1>5 DEF Sound, GettersWait

LEMMA NoneReady ==
  ASSUME IInv, NEW m,
         \A p \in Procs : state[p] = "getting" => m.state[p] # "ready"
  PROVE  Orderly(m)
<1>1. \A i \in DOMAIN getters : getters[i].pid \in Procs
  <2>1. getters \in Seq(Getters)
    BY Before
  <2>2. \A i \in DOMAIN getters : getters[i] \in Getters
    BY <2>1, LenProperties
  <2> QED
    BY <2>2 DEF Getters
<1>2. \A i \in DOMAIN getters : state[getters[i].pid] = "getting"
  BY <1>1, Before DEF Sound, GettersWait, Waits
<1> QED
  BY <1>1, <1>2, Zenon DEF Orderly

LEMMA OneLonger ==
  ASSUME NEW n \in Nat
  PROVE  Append([k \in 1 .. n |-> k], n + 1) = [k \in 1 .. n + 1 |-> k]
<1> DEFINE a == [k \in 1 .. n |-> k]
           c == [k \in 1 .. n + 1 |-> k]
<1>1. a \in Seq(Nat) /\ Len(a) = n /\ c \in Seq(Nat) /\ Len(c) = n + 1
  OBVIOUS
<1>2. /\ Append(a, n + 1) \in Seq(Nat) /\ Len(Append(a, n + 1)) = n + 1
      /\ \A i \in 1 .. n : Append(a, n + 1)[i] = a[i]
      /\ Append(a, n + 1)[n + 1] = n + 1
  BY <1>1, AppendProperties
<1>3. /\ \A i \in 1 .. n : a[i] = i
      /\ \A i \in 1 .. n + 1 : c[i] = i
  OBVIOUS
<1> HIDE DEF a, c
<1>4. \A i \in 1 .. n + 1 : Append(a, n + 1)[i] = c[i]
  BY <1>2, <1>3
<1>5. Append(a, n + 1) = c
  BY <1>1, <1>2, <1>4, SeqEqual
<1> QED
  BY <1>5 DEF a, c

\* The new message takes its place among the others.
LEMMA FilledByPut ==
  ASSUME IInv, NEW m, sent + 1 \in Messages,
         \/ All(m) = Append(taken \o box, sent + 1) \o MessagesOf(putters)
         \/ All(m) = Append(taken, sent + 1) \o (box \o MessagesOf(putters)),
         ByStatements => All(m) = Append(All(Now), sent + 1)
  PROVE  Filled(m, sent + 1)
<1> DEFINE u == MessagesOf(putters)
<1>1. /\ taken \in Seq(Messages) /\ box \in Seq(Messages) /\ u \in Seq(Messages)
      /\ taken \o box \in Seq(Messages) /\ box \o u \in Seq(Messages)
  BY Before, MessagesAre, ConcatProperties
<1>2. All(Now) = (taken \o box) \o u /\ All(Now) = taken \o (box \o u)
  <2>1. All(Now) = (taken \o box) \o u
    BY DEF All, Now
  <2> HIDE DEF u
  <2>2. (taken \o box) \o u = taken \o (box \o u)
    BY <1>1, ConcatAssociative
  <2> QED
    BY <2>1, <2>2
<1> HIDE DEF u
<1>3. IsInjective(All(Now)) /\ ToSet(All(Now)) = 1 .. sent /\ sent \in Nat
  BY Before DEF Filled
<1>4. IsInjective(All(m)) /\ ToSet(All(m)) = 1 .. sent + 1
  <2>1. CASE All(m) = Append(taken \o box, sent + 1) \o u
    <3>1. PICK a \in Seq(Messages) : a = taken \o box
      BY <1>1
    <3>2. IsInjective(a \o u) /\ ToSet(a \o u) = 1 .. sent
      BY <1>2, <1>3, <3>1
    <3>3. /\ IsInjective(Append(a, sent + 1) \o u)
          /\ ToSet(Append(a, sent + 1) \o u) = 1 .. sent + 1
      BY <1>1, <1>3, <3>2, OneMore
    <3> QED
      BY <2>1, <3>1, <3>3
  <2>2. CASE All(m) = Append(taken, sent + 1) \o (box \o u)
    <3>1. PICK a \in Seq(Messages) : a = box \o u
      BY <1>1
    <3>2. IsInjective(taken \o a) /\ ToSet(taken \o a) = 1 .. sent
      BY <1>2, <1>3, <3>1
    <3>3. /\ IsInjective(Append(taken, sent + 1) \o a)
          /\ ToSet(Append(taken, sent + 1) \o a) = 1 .. sent + 1
      BY <1>1, <1>3, <3>2, OneMore
    <3> QED
      BY <2>2, <3>1, <3>3
  <2> QED
    BY <2>1, <2>2 DEF u
<1>5. ASSUME ByStatements PROVE All(m) = [k \in 1 .. sent + 1 |-> k]
  <2>1. All(Now) = [k \in 1 .. sent |-> k]
    BY <1>5, Before DEF Filled
  <2>2. Append([k \in 1 .. sent |-> k], sent + 1) = [k \in 1 .. sent + 1 |-> k]
    BY <1>3, OneLonger
  <2> QED
    BY <1>5, <2>1, <2>2
<1> QED
  BY <1>4, <1>5 DEF Filled

LEMMA PutStep ==
  ASSUME IInv, NEW p \in Procs, Put(p) \/ PutSynchronous(p)
  PROVE  Step
<1> PICK m : m = Stored(Now, sent + 1)
  OBVIOUS
<1>1. /\ Sending(p) /\ Become(m)
      /\ ~ IsFull(Now) \/ ~ ByStatements
  BY DEF Put, PutSynchronous, ByStatements
<1>2. sent + 1 \in Messages /\ sent' = sent + 1 /\ sent' \in 0 .. MaxSent
  BY <1>1, NextMessage
<1>3. /\ Sound(m) /\ NoSpace(m)
      /\ m.box = <<>> \/ m.getters = <<>>
      /\ All(m) = Append(taken \o box, sent + 1) \o MessagesOf(putters)
      /\ ~ IsFull(Now) => Within(m)
  BY <1>2, Before, StoredKeeps
<1>4. PICK k \in 0 .. Len(getters) : m.getters = SubSeq(getters, k + 1, Len(getters))
  BY <1>2, Before, StoredKeeps
<1>5. ASSUME ByStatements PROVE All(m) = Append(All(Now), sent + 1)
  <2>1. putters = <<>>
    BY <1>1, <1>5, Before DEF NoSpace
  <2>2. MessagesOf(putters) = <<>>
    <3>1. MessagesOf(putters) \in Seq(Messages) /\ Len(MessagesOf(putters)) = Len(putters)
      BY Before, MessagesAre
    <3>2. Len(MessagesOf(putters)) = 0
      BY <2>1, <3>1, EmptySeq
    <3> QED
      BY <3>1, <3>2, EmptySeq
  <2>3. /\ taken \o box \in Seq(Messages)
        /\ Append(taken \o box, sent + 1) \in Seq(Messages)
    BY <1>2, Before, ConcatProperties, AppendProperties
  <2>4. /\ Append(taken \o box, sent + 1) \o <<>> = Append(taken \o box, sent + 1)
        /\ (taken \o box) \o <<>> = taken \o box
    BY <2>3, ConcatEmptySeq
  <2>5. All(Now) = taken \o box
    BY <2>2, <2>4, Before DEF All
  <2> QED
    BY <1>3, <2>2, <2>4, <2>5
<1>6. Filled(m, sent')
  BY <1>2, <1>3, <1>5, FilledByPut
<1>7. Orderly(m)
  BY <1>3, <1>4, FirstOnes
<1> QED
  BY <1>1, <1>2, <1>3, <1>6, <1>7 DEF Step, Holds

\* What a call that puts nothing leaves as it was.
LEMMA StillFilled ==
  ASSUME IInv, NEW m, All(m) = All(Now)
  PROVE  Filled(m, sent)
BY Before DEF Filled

LEMMA PutParksStep ==
  ASSUME IInv, NEW p \in Procs, PutParks(p)
  PROVE  Step
<1> DEFINE w == [pid |-> p, msg |-> sent + 1]
<1>1. /\ Sending(p) /\ IsFull(Now) /\ putters' = Append(putters, w)
      /\ state' = [state EXCEPT ![p] = "putting"]
      /\ box' = box /\ getters' = getters /\ taken' = taken
  BY DEF PutParks, Park
<1>2. /\ sent + 1 \in Messages /\ sent' = sent + 1 /\ sent' \in 0 .. MaxSent
      /\ state[p] = "active"
  BY <1>1, NextMessage
<1>3. w \in Putters /\ w.pid = p /\ w.msg = sent + 1
  BY <1>2 DEF Putters
<1> HIDE DEF w
<1>4. PICK m : m = [box |-> box, getters |-> getters, putters |-> Append(putters, w),
                    state |-> [state EXCEPT ![p] = "putting"], taken |-> taken]
  OBVIOUS
<1>5. /\ m.box = box /\ m.getters = getters /\ m.putters = Append(putters, w)
      /\ m.state = [state EXCEPT ![p] = "putting"] /\ m.taken = taken
  BY <1>4
<1>6. Become(m)
  BY <1>1, <1>5 DEF Become
<1>7. m \in Boxes
  <2>1. Append(putters, w) \in Seq(Putters)
    BY <1>3, Before, AppendProperties
  <2>2. [state EXCEPT ![p] = "putting"] \in [Procs -> States]
    BY Before DEF States
  <2> QED
    BY <1>4, <2>1, <2>2, Before DEF Boxes
<1>8. GettersWait(m)
  <2>1. \A x \in Procs : m.state[x] = "getting" <=> state[x] = "getting"
    BY <1>2, <1>5, Before
  <2> QED
    BY <1>5, <2>1, Before DEF Sound, GettersWait
<1>9. PuttersWait(m)
  <2>1. /\ Once(putters)
        /\ \A i \in DOMAIN putters : state[putters[i].pid] \in {"putting", "killed"}
    BY Before DEF Sound, PuttersWait
  <2>2. ~ Waits(p, putters)
    BY <1>2, <2>1 DEF Waits
  <2>3. /\ Once(Append(putters, w))
        /\ \A x : Waits(x, Append(putters, w)) <=> Waits(x, putters) \/ x = p
    BY <1>3, <2>1, <2>2, Before, QueueAppend
  <2>4. ASSUME NEW i \in DOMAIN Append(putters, w)
        PROVE  m.state[Append(putters, w)[i].pid] \in {"putting", "killed"}
    <3>1. PICK x : x = Append(putters, w)[i].pid
      OBVIOUS
    <3>2. Waits(x, putters) \/ x = p
      BY <2>3, <3>1 DEF Waits
    <3>3. Append(putters, w) \in Seq(Putters)
      BY <1>3, Before, AppendProperties
    <3>4. Append(putters, w)[i] \in Putters
      BY <3>3, LenProperties
    <3>5. x \in Procs
      BY <3>1, <3>4 DEF Putters
    <3>6. state[x] \in {"putting", "killed"} \/ x = p
      BY <2>1, <3>2 DEF Waits
    <3>7. m.state[x] \in {"putting", "killed"}
      BY <1>5, <3>5, <3>6, Before
    <3> QED
      BY <3>1, <3>7
  <2> QED
    BY <1>5, <2>3, <2>4 DEF PuttersWait
<1>10. Filled(m, sent')
  <2> DEFINE u == MessagesOf(putters)
             x == sent + 1
  <2>1. /\ u \in Seq(Messages) /\ taken \o box \in Seq(Messages)
        /\ All(Now) = (taken \o box) \o u /\ x \in Messages
    BY <1>2, Before, MessagesAre, ConcatProperties DEF All
  <2>2. MessagesOf(m.putters) = Append(u, x)
    BY <1>3, <1>5, Before, MessagesOfAppend
  <2> HIDE DEF u
  <2>3. All(m) = (taken \o box) \o Append(u, x)
    BY <1>5, <2>2 DEF All
  <2>4. (taken \o box) \o Append(u, x) = Append((taken \o box) \o u, x)
    BY <2>1, AppendMoves
  <2>5. All(m) = Append(All(Now), x)
    BY <2>1, <2>3, <2>4
  <2>6. All(Now) \in Seq(Messages) /\ <<>> \in Seq(Messages)
    BY <2>1, ConcatProperties
  <2>7. /\ All(Now) \o <<>> = All(Now)
        /\ Append(All(Now), x) \o <<>> = Append(All(Now), x)
    BY <2>1, <2>6, AppendProperties, ConcatEmptySeq
  <2>8. IsInjective(All(m)) /\ ToSet(All(m)) = 1 .. sent + 1
    <3>1. IsInjective(All(Now) \o <<>>) /\ ToSet(All(Now) \o <<>>) = 1 .. sent
      BY <2>7, Before DEF Filled
    <3>2. PICK a \in Seq(Messages), e \in Seq(Messages) : a = All(Now) /\ e = <<>>
      BY <2>6
    <3>3. IsInjective(a \o e) /\ ToSet(a \o e) = 1 .. sent /\ sent \in Nat
      BY <3>1, <3>2, Before
    <3>4. /\ IsInjective(Append(a, sent + 1) \o e)
          /\ ToSet(Append(a, sent + 1) \o e) = 1 .. sent + 1
      BY <1>2, <3>3, OneMore
    <3> QED
      BY <2>5, <2>7, <3>2, <3>4
  <2>9. ByStatements => All(m) = [k \in 1 .. sent + 1 |-> k]
    BY <2>5, Before, OneLonger DEF Filled
  <2> QED
    BY <1>2, <2>8, <2>9 DEF Filled
<1>11. Orderly(m)
  <2>1. \A x \in Procs : state[x] = "getting" => m.state[x] # "ready"
    BY <1>5, Before
  <2> QED
    BY <2>1, NoneReady
<1>12. NoSpace(m) /\ (ByStatements => Within(m))
  BY <1>1, <1>5, Before DEF NoSpace, IsFull, Within
<1>13. Sound(m)
  BY <1>7, <1>8, <1>9 DEF Sound
<1> QED
  BY <1>2, <1>5, <1>6, <1>10, <1>11, <1>12, <1>13, Before DEF Step, Holds

\* A process changes what it does and, if it waited to receive, leaves the queue.
LEMMA MovesOn ==
  ASSUME IInv, NEW p \in Procs, NEW why \in States \ {"getting"},
         NEW q \in Seq(Getters), Once(q),
         \A x : Waits(x, q) <=> Waits(x, getters) /\ x # p,
         getters = <<>> => q = <<>>,
         state[p] = "getting" => why # "ready",
         state[p] \in {"putting", "killed"} => why = "killed",
         getters' = q, state' = [state EXCEPT ![p] = why],
         UNCHANGED <<box, putters, taken, sent>>
  PROVE  Step
<1>1. PICK m : m = [box |-> box, getters |-> q, putters |-> putters,
                    state |-> [state EXCEPT ![p] = why], taken |-> taken]
  OBVIOUS
<1>2. /\ m.box = box /\ m.getters = q /\ m.putters = putters
      /\ m.state = [state EXCEPT ![p] = why] /\ m.taken = taken
  BY <1>1
<1>3. Become(m)
  BY <1>2 DEF Become
<1>4. m \in Boxes
  BY <1>1, Before DEF Boxes
<1>5. GettersWait(m)
  <2>1. \A x \in Procs : state[x] = "getting" <=> Waits(x, getters)
    BY Before DEF Sound, GettersWait
  <2>2. \A x \in Procs : m.state[x] = "getting" <=> state[x] = "getting" /\ x # p
    BY <1>2, Before
  <2> QED
    BY <1>2, <2>1, <2>2 DEF GettersWait
<1>6. PuttersWait(m)
  <2>1. /\ Once(putters)
        /\ \A i \in DOMAIN putters : state[putters[i].pid] \in {"putting", "killed"}
    BY Before DEF Sound, PuttersWait
  <2>2. ASSUME NEW i \in DOMAIN putters
        PROVE  m.state[putters[i].pid] \in {"putting", "killed"}
    <3>1. putters[i] \in Putters
      BY Before, LenProperties
    <3>2. PICK x \in Procs : x = putters[i].pid
      BY <3>1 DEF Putters
    <3>3. m.state[x] \in {"putting", "killed"}
      BY <1>2, <2>1, <3>2, Before
    <3> QED
      BY <3>2, <3>3
  <2> QED
    BY <1>2, <2>1, <2>2 DEF PuttersWait
<1>7. All(m) = All(Now)
  BY <1>2, Before DEF All
<1>8. Filled(m, sent')
  BY <1>7, StillFilled
<1>9. Orderly(m)
  <2>1. \A x \in Procs : state[x] = "getting" => m.state[x] # "ready"
    BY <1>2, Before
  <2> QED
    BY <2>1, NoneReady
<1>10. NoSpace(m) /\ (ByStatements => Within(m))
  BY <1>2, Before DEF NoSpace, IsFull, Within
<1>11. "expression" \in features \/ m.getters = <<>> \/ m.box = <<>>
  BY <1>2, Before
<1>12. sent' \in 0 .. MaxSent
  BY DEF IInv
<1> QED
  BY <1>3, <1>4, <1>5, <1>6, <1>8, <1>9, <1>10, <1>11, <1>12 DEF Step, Holds, Sound

LEMMA OtherStep ==
  ASSUME IInv, NEW p \in Procs, Dispatch(p) \/ Resume(p) \/ Kill(p) \/ Suspend(p)
  PROVE  Step
<1>1. getters \in Seq(Getters) /\ Once(getters)
      /\ \A x \in Procs : state[x] = "getting" <=> Waits(x, getters)
  BY Before DEF Sound, GettersWait
<1>2. /\ GettersWithout(p) \in Seq(Getters) /\ Once(GettersWithout(p))
      /\ \A x : Waits(x, GettersWithout(p)) <=> Waits(x, getters) /\ x # p
      /\ getters = <<>> => GettersWithout(p) = <<>>
  BY <1>1, WithoutOne
<1>3. CASE Dispatch(p) \/ Resume(p)
  <2>1. \A x : Waits(x, getters) <=> Waits(x, getters) /\ x # p
    BY <1>1, <1>3 DEF Dispatch, Resume
  <2>2. CASE Dispatch(p)
    BY <1>1, <2>1, <2>2, MovesOn DEF Dispatch, Park, States
  <2>3. CASE Resume(p)
    BY <1>1, <2>1, <2>3, MovesOn DEF Resume, Park, States
  <2> QED
    BY <1>3, <2>2, <2>3
<1>4. CASE Kill(p)
  BY <1>2, <1>4, MovesOn DEF Kill, Park, States
<1>5. CASE Suspend(p)
  BY <1>2, <1>5, MovesOn DEF Suspend, Park, States
<1> QED
  BY <1>3, <1>4, <1>5

\* A message is taken out.
LEMMA ConsumeStep ==
  ASSUME IInv, box # <<>>, Become(Consume(Now)), sent' = sent
  PROVE  Step
<1>1. PICK m : m = Consume(Now)
  OBVIOUS
<1>2. /\ Sound(m) /\ All(m) = All(Now) /\ m.getters = getters
      /\ Within(Now) => Within(m)
      /\ NoSpace(m)
  BY <1>1, Before, ConsumeKeeps
<1>3. Filled(m, sent')
  BY <1>2, StillFilled
<1>4. Orderly(m)
  <2>1. \A x \in Procs : state[x] = "getting" => m.state[x] # "ready"
    BY <1>2, Before DEF Sound, GettersWait
  <2> QED
    BY <2>1, NoneReady
<1>5. "expression" \in features \/ m.getters = <<>> \/ m.box = <<>>
  BY <1>2, Before
<1>6. ByStatements => Within(m)
  BY <1>2, Before
<1>7. sent' \in 0 .. MaxSent
  BY DEF IInv
<1> QED
  BY <1>1, <1>2, <1>3, <1>4, <1>5, <1>6, <1>7 DEF Step, Holds

LEMMA GetStep ==
  ASSUME IInv, NEW p \in Procs, NEW peek \in BOOLEAN,
         GetOrPeek(p, peek) \/ TryGet(p)
  PROVE  Step
<1>1. CASE TryGet(p)
  BY <1>1, ConsumeStep DEF TryGet
<1>2. CASE GetOrPeek(p, peek)
  <2>1. Admit(Now) = Now
    BY Before DEF Admit, NoSpace
  <2> DEFINE w == [pid |-> p, peek |-> peek]
             n == [Now EXCEPT !.getters = Append(@, w), !.state[p] = "getting"]
  <2>2. /\ state[p] = "active" /\ sent' = sent
        /\ Become(IF box = <<>> THEN n ELSE IF peek THEN Now ELSE Consume(Now))
    BY <1>2, <2>1, Before DEF GetOrPeek
  <2>3. CASE box # <<>> /\ ~ peek
    BY <2>2, <2>3, ConsumeStep
  <2>4. CASE box # <<>> /\ peek
    <3>1. Become(Now)
      BY <2>2, <2>4
    <3>2. Orderly(Now)
      BY Before, NoneReady
    <3>3. Holds(Now, sent') /\ sent' \in 0 .. MaxSent
      BY <2>2 DEF IInv
    <3> QED
      BY <3>1, <3>2, <3>3 DEF Step
  <2>5. CASE box = <<>>
    <3>1. PICK m : m = n
      OBVIOUS
    <3>2. w \in Getters /\ w.pid = p
      BY DEF Getters
    <3> HIDE DEF w
    <3>3. Append(getters, w) \in Seq(Getters)
      BY <3>2, Before, AppendProperties
    <3>4. /\ m.box = box /\ m.getters = Append(getters, w) /\ m.putters = putters
          /\ m.state = [state EXCEPT ![p] = "getting"] /\ m.taken = taken
      BY <3>1 DEF Now
    <3>5. m \in Boxes
      BY <3>1, <3>3, Before DEF Boxes, Now, States
    <3> HIDE DEF n
    <3>6. GettersWait(m)
      <4>1. Once(getters) /\ \A x \in Procs : state[x] = "getting" <=> Waits(x, getters)
        BY Before DEF Sound, GettersWait
      <4>2. ~ Waits(p, getters)
        BY <2>2, <4>1
      <4>3. /\ Once(Append(getters, w))
            /\ \A x : Waits(x, Append(getters, w)) <=> Waits(x, getters) \/ x = p
        BY <3>2, <4>1, <4>2, Before, QueueAppend
      <4>4. \A x \in Procs : m.state[x] = "getting" <=> state[x] = "getting" \/ x = p
        BY <3>4, Before
      <4> QED
        BY <3>4, <4>1, <4>3, <4>4 DEF GettersWait
    <3>7. PuttersWait(m)
      <4>1. /\ Once(putters)
            /\ \A i \in DOMAIN putters : state[putters[i].pid] \in {"putting", "killed"}
        BY Before DEF Sound, PuttersWait
      <4>2. ASSUME NEW i \in DOMAIN putters
            PROVE  m.state[putters[i].pid] \in {"putting", "killed"}
        <5>1. putters[i] \in Putters
          BY Before, LenProperties
        <5>2. PICK x \in Procs : x = putters[i].pid
          BY <5>1 DEF Putters
        <5>3. m.state[x] \in {"putting", "killed"}
          BY <2>2, <3>4, <4>1, <5>2, Before
        <5> QED
          BY <5>2, <5>3
      <4> QED
        BY <3>4, <4>1, <4>2 DEF PuttersWait
    <3>8. All(m) = All(Now) /\ NoSpace(m) /\ (ByStatements => Within(m))
      BY <3>4, Before DEF All, NoSpace, IsFull, Within
    <3>9. Filled(m, sent')
      BY <2>2, <3>8, StillFilled
    <3>10. Orderly(m)
      <4>1. \A x \in Procs : state[x] = "getting" => m.state[x] # "ready"
        BY <3>4, Before
      <4> QED
        BY <4>1, NoneReady
    <3>11. Become(m)
      BY <2>2, <2>5, <3>1
    <3>12. sent' \in 0 .. MaxSent /\ m.box = <<>>
      BY <2>2, <2>5, <3>4 DEF IInv
    <3> QED
      BY <3>5, <3>6, <3>7, <3>8, <3>9, <3>10, <3>11, <3>12 DEF Step, Holds, Sound
  <2> QED
    BY <2>3, <2>4, <2>5
<1> QED
  BY <1>1, <1>2

LEMMA PutExpressionStep ==
  ASSUME IInv, NEW p \in Procs, PutExpression(p)
  PROVE  Step
<1>1. /\ Sending(p) /\ "expression" \in features /\ ~ ByStatements
  BY DEF PutExpression, ByStatements
<1>2. sent + 1 \in Messages /\ sent' = sent + 1 /\ sent' \in 0 .. MaxSent
  BY <1>1, NextMessage
<1>3. CASE getters = <<>>
  <2>1. PICK m : m = Boxed(Now, sent + 1)
    OBVIOUS
  <2>2. Become(m)
    BY <1>3, <2>1 DEF PutExpression, Boxed
  <2>3. /\ Sound(m) /\ NoSpace(m) /\ m.getters = <<>>
        /\ All(m) = Append(taken \o box, sent + 1) \o MessagesOf(putters)
    BY <1>2, <1>3, <2>1, Before, BoxedKeeps
  <2>4. Filled(m, sent')
    BY <1>1, <1>2, <2>3, FilledByPut
  <2>5. Orderly(m)
    <3>1. DOMAIN getters = {}
      BY <1>3
    <3> QED
      BY <3>1 DEF Orderly
  <2> QED
    BY <1>1, <1>2, <2>2, <2>3, <2>4, <2>5 DEF Step, Holds
<1>4. CASE getters # <<>>
  <2>1. PICK n : n = Woke(Now)
    OBVIOUS
  <2>2. /\ Sound(n) /\ n.box = box /\ n.putters = putters
        /\ n.taken = taken /\ n.getters = Tail(getters)
    BY <1>4, <2>1, Before, WakeKeeps
  <2>3. NoSpace(n)
    BY <2>2, Before DEF NoSpace, IsFull
  <2>4. PICK m : /\ Become(m)
                 /\ \/ m = Boxed(n, sent + 1)
                    \/ m = [n EXCEPT !.taken = Append(@, sent + 1)]
    <3>1. Become(IF Head(getters).peek THEN Boxed(n, sent + 1)
                 ELSE [n EXCEPT !.taken = Append(@, sent + 1)])
      BY <1>4, <2>1, Before DEF PutExpression, Boxed, Woke
    <3> QED
      BY <3>1
  <2>5. /\ Sound(m) /\ NoSpace(m) /\ m.getters = Tail(getters)
        /\ \/ All(m) = Append(taken \o box, sent + 1) \o MessagesOf(putters)
           \/ All(m) = Append(taken, sent + 1) \o (box \o MessagesOf(putters))
    <3>1. CASE m = Boxed(n, sent + 1)
      BY <1>2, <2>2, <2>3, <3>1, Before, BoxedKeeps
    <3>2. CASE m = [n EXCEPT !.taken = Append(@, sent + 1)]
      <4>1. Append(taken, sent + 1) \in Seq(Messages)
        BY <1>2, Before, AppendProperties
      <4>2. /\ m \in Boxes /\ m.box = box /\ m.putters = putters
            /\ m.getters = n.getters /\ m.state = n.state
            /\ m.taken = Append(taken, sent + 1)
        BY <2>2, <3>2, <4>1 DEF Sound, Boxes
      <4>3. Sound(m)
        BY <2>2, <4>2 DEF Sound, GettersWait, PuttersWait
      <4>4. NoSpace(m)
        BY <2>2, <2>3, <4>2 DEF NoSpace, IsFull
      <4>5. (Append(taken, sent + 1) \o box) \o MessagesOf(putters)
               = Append(taken, sent + 1) \o (box \o MessagesOf(putters))
        <5>1. MessagesOf(putters) \in Seq(Messages) /\ box \in Seq(Messages)
          BY Before, MessagesAre
        <5>2. PICK a \in Seq(Messages), b \in Seq(Messages), c \in Seq(Messages) :
                 a = Append(taken, sent + 1) /\ b = box /\ c = MessagesOf(putters)
          BY <4>1, <5>1
        <5>3. (a \o b) \o c = a \o (b \o c)
          BY ConcatAssociative
        <5> QED
          BY <5>2, <5>3, Zenon
      <4> QED
        BY <2>2, <4>2, <4>3, <4>4, <4>5 DEF All
    <3> QED
      BY <2>4, <3>1, <3>2
  <2>6. Filled(m, sent')
    BY <1>1, <1>2, <2>5, FilledByPut
  <2>7. Orderly(m)
    <3>1. Len(getters) \in Nat \ {0}
      BY <1>4, Before, EmptySeq, LenProperties
    <3>2. Tail(getters) = SubSeq(getters, 1 + 1, Len(getters))
      BY <1>4, Before, TailIsSubSeq
    <3>3. 1 \in 0 .. Len(getters)
      BY <3>1
    <3> QED
      BY <2>5, <3>2, <3>3, FirstOnes
  <2> QED
    BY <1>1, <1>2, <2>4, <2>5, <2>6, <2>7 DEF Step, Holds
<1> QED
  BY <1>3, <1>4

LEMMA NextIsStep ==
  ASSUME IInv, Next
  PROVE  Step /\ UNCHANGED <<bound, features>>
<1>1. UNCHANGED <<bound, features>>
  BY DEF Next
<1>2. PICK p \in Procs :
         \/ Put(p) \/ PutParks(p) \/ PutSynchronous(p) \/ PutExpression(p)
         \/ \E peek \in BOOLEAN : GetOrPeek(p, peek)
         \/ TryGet(p)
         \/ Dispatch(p) \/ Kill(p) \/ Suspend(p) \/ Resume(p)
  BY Zenon DEF Next
<1>3. ASSUME Put(p) \/ PutSynchronous(p) PROVE Step
  BY <1>3, PutStep
<1>4. ASSUME PutParks(p) PROVE Step
  BY <1>4, PutParksStep
<1>5. ASSUME PutExpression(p) PROVE Step
  BY <1>5, PutExpressionStep
<1>6. ASSUME NEW peek \in BOOLEAN, GetOrPeek(p, peek) \/ TryGet(p) PROVE Step
  BY <1>6, GetStep
<1>7. ASSUME Dispatch(p) \/ Kill(p) \/ Suspend(p) \/ Resume(p) PROVE Step
  BY <1>7, OtherStep
<1> QED
  BY <1>1, <1>2, <1>3, <1>4, <1>5, <1>6, <1>7, Zenon

LEMMA InvariantKept ==
  ASSUME IInv, [Next]_vars
  PROVE  IInv'
<1>1. CASE Next
  BY <1>1, NextIsStep, StepKeeps
<1>2. CASE UNCHANGED vars
  <2>1. UNCHANGED <<box, bound, features, getters, putters, state, sent, taken>>
    BY <1>2 DEF vars
  <2>2. Now' = Now
    BY <2>1 DEF Now
  <2>3. Holds(Now, sent)'
    BY <2>1, <2>2 DEF IInv, Holds, Filled, ByStatements, NoSpace, IsFull, Within
  <2> QED
    BY <2>1, <2>3 DEF IInv
<1> QED
  BY <1>1, <1>2

-----------------------------------------------------------------------------
\* Each message put is in one place, where it belongs, and each process that waits
\* to receive is in the queue once: put, get, peek, try_get and the drain lose,
\* repeat and reorder nothing, for any number of processes, puts and any bound.
THEOREM EveryMessageOnce == Spec => []EachOnce
<1>1. Init => IInv
  BY InvariantInitially
<1>2. IInv /\ [Next]_vars => IInv'
  BY InvariantKept
<1>3. IInv => EachOnce
  BY InvariantImplies, Zenon DEF EachOnce
<1> QED
  BY <1>1, <1>2, <1>3, PTL DEF Spec

\* Nobody sleeps beside a message or beside a free slot: drain_mailbox_get_waiters
\* and admit_mailbox_put_waiter wake all who can go on.
THEOREM NobodySleepsInVain == Spec => []NobodyWaitsInVain
<1>1. Init => IInv
  BY InvariantInitially
<1>2. IInv /\ [Next]_vars => IInv'
  BY InvariantKept
<1>3. IInv => NobodyWaitsInVain
  BY InvariantImplies
<1> QED
  BY <1>1, <1>2, <1>3, PTL DEF Spec

\* A mailbox that only statements put to never holds more than its bound, the
\* producers that admit_mailbox_put_waiter lets in included.
THEOREM BoundIsKept == Spec => []WithinBound
<1>1. Init => IInv
  BY InvariantInitially
<1>2. IInv /\ [Next]_vars => IInv'
  BY InvariantKept
<1>3. IInv => WithinBound
  BY InvariantImplies
<1> QED
  BY <1>1, <1>2, <1>3, PTL DEF Spec

\* Receivers are served in the order they parked, by every form of put.
THEOREM FirstComeFirstServed == Spec => ServedInOrder
<1> DEFINE A == \A i, j \in DOMAIN getters :
                   i < j /\ state'[getters[j].pid] = "ready"
                        => state'[getters[i].pid] # "getting"
<1>1. Init => IInv
  BY InvariantInitially
<1>2. IInv /\ [Next]_vars => IInv'
  BY InvariantKept
<1>3. ASSUME IInv, Next PROVE A
  <2>1. PICK m : Orderly(m) /\ Become(m)
    BY <1>3, NextIsStep DEF Step
  <2>2. state' = m.state
    BY <2>1 DEF Become
  <2> QED
    BY <2>1, <2>2 DEF Orderly
<1>4. IInv /\ [Next]_vars => [A]_vars
  BY <1>3
<1> QED
  BY <1>1, <1>2, <1>4, PTL DEF Spec, ServedInOrder
=============================================================================
