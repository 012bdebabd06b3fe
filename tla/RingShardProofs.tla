-------------------------- MODULE RingShardProofs --------------------------
(* Proofs about RingShard, for every capacity, entry and batch size; and about *)
(* RingSizing, for every configuration.                                        *)
EXTENDS RingShard, RingSizing, SequenceTheorems, WellFoundedInduction, NaturalsInduction, TLAPS

USE CapAssumption, NilAssumption, BatchAssumption, MaxTailAssumption

\* An index maps into the array.
LEMMA SlotRange == \A i \in Nat : Slot(i) \in 0 .. Cap - 1
  BY DEF Slot

\* Two indices less than Cap apart have different slots.
LEMMA SlotInjective ==
    ASSUME NEW i \in Nat, NEW j \in Nat, i < j, j < i + Cap
    PROVE  Slot(i) # Slot(j)
<1> DEFINE a == i \div Cap  b == j \div Cap
<1>1. i = Cap * a + Slot(i) /\ j = Cap * b + Slot(j) /\ a \in Int /\ b \in Int
  BY DEF Slot
<1>2. SUFFICES ASSUME Slot(i) = Slot(j) PROVE FALSE
  OBVIOUS
<1> HIDE DEF a, b
<1>3. Slot(i) \in Int
  BY SlotRange
<1>4. Cap * b - Cap * a = j - i
  <2>1. Cap * a \in Int /\ Cap * b \in Int
    BY <1>1
  <2>2. QED
    BY <1>1, <1>2, <1>3, <2>1
<1>5. Cap * (b - a) = j - i
  BY <1>1, <1>4
<1>6. b - a >= 1
  <2>1. SUFFICES ASSUME b - a <= 0 PROVE FALSE
    BY <1>1
  <2>2. Cap * (b - a) <= 0
    BY <1>1, <2>1
  <2>3. QED
    BY <1>5, <2>2
<1>7. Cap * (b - a) >= Cap
  BY <1>1, <1>6
<1>8. QED
  BY <1>5, <1>7

\* The slots of the indices between head and tail are all different.
LEMMA WindowInjective ==
    ASSUME TypeOK, NEW i \in head .. tail - 1, NEW j \in head .. tail - 1, Slot(i) = Slot(j)
    PROVE  i = j
  BY SlotInjective DEF TypeOK

Inv == TypeOK /\ LiveSlots

\* What a step of PopBatch does to the counters and the slots.
LEMMA PopEffect ==
    ASSUME Inv, NEW k \in BatchSizes, PopBatch(k)
    PROVE  /\ Popped(k) \in 0 .. tail - head
           /\ head' = head + Popped(k) /\ tail' = tail /\ drop' = drop
           /\ \A i \in head .. tail - 1 : buf[Slot(i)] \in Entries
           /\ \A i \in head' .. tail - 1 : buf'[Slot(i)] = buf[Slot(i)]
           /\ buf' \in [0 .. Cap - 1 -> Entries \cup {Nil}]
           /\ batch' = [i \in 1 .. Popped(k) |-> buf[Slot(head + i - 1)]]
<1> USE DEF Inv
<1>1. Popped(k) \in 0 .. tail - head
  BY DEF Popped, TypeOK
<1>2. \A i \in head .. tail - 1 : buf[Slot(i)] \in Entries
  <2> TAKE i \in head .. tail - 1
  <2>0. i \in Nat
    BY DEF TypeOK
  <2>1. Slot(i) \in 0 .. Cap - 1
    BY <2>0, SlotRange
  <2>2. QED
    BY <2>1 DEF LiveSlots, TypeOK
<1>3. \A i \in head' .. tail - 1 : buf'[Slot(i)] = buf[Slot(i)]
  <2> TAKE i \in head' .. tail - 1
  <2>1. i \in head .. tail - 1 /\ i \notin head .. head + Popped(k) - 1
    BY <1>1 DEF PopBatch, TypeOK
  <2>2. Slot(i) \notin {Slot(j) : j \in head .. head + Popped(k) - 1}
    <3>1. \A j \in head .. head + Popped(k) - 1 : j \in head .. tail - 1
      BY <1>1 DEF TypeOK
    <3>2. QED
      BY <2>1, <3>1, WindowInjective
  <2>3. Slot(i) \in 0 .. Cap - 1
    <3>1. i \in Nat
      BY <2>1 DEF TypeOK
    <3>2. QED
      BY <3>1, SlotRange
  <2> DEFINE read == {Slot(j) : j \in head .. head + Popped(k) - 1}
  <2>4. buf' = [m \in 0 .. Cap - 1 |-> IF m \in read THEN Nil ELSE buf[m]]
    BY DEF PopBatch
  <2> HIDE DEF read
  <2>5. Slot(i) \notin read
    BY <2>2 DEF read
  <2>6. QED
    BY <2>3, <2>4, <2>5
<1>4. QED
  BY <1>1, <1>2, <1>3 DEF PopBatch, TypeOK

LEMMA InvInit == Init => Inv
  BY EmptySeq DEF Init, Inv, TypeOK, LiveSlots

LEMMA InvPush ==
    ASSUME Inv, NEW e \in Entries, Push(e)
    PROVE  Inv'
<1> USE DEF Inv
<1>1. CASE UNCHANGED <<buf, tail>>
  BY <1>1 DEF Push, TypeOK, LiveSlots
<1>2. CASE ~UNCHANGED <<buf, tail>>
  <2>1. /\ tail - head < Cap /\ tail' = tail + 1 /\ head' = head /\ drop' = drop /\ batch' = batch
        /\ buf' = [buf EXCEPT ![Slot(tail)] = e]
    BY <1>2 DEF Push
  <2>2. Slot(tail) \in 0 .. Cap - 1
    BY SlotRange DEF TypeOK
  <2>3. TypeOK'
    BY <2>1, <2>2 DEF TypeOK
  <2>4. ASSUME NEW i \in 0 .. Cap - 1
        PROVE  buf'[i] # Nil <=> \E k \in head .. tail : Slot(k) = i
    <3>1. CASE i = Slot(tail)
      BY <2>1, <2>2, <3>1 DEF TypeOK
    <3>2. CASE i # Slot(tail)
      <4>1. buf'[i] = buf[i]
        BY <2>1, <3>2 DEF TypeOK
      <4>2. (\E k \in head .. tail : Slot(k) = i) <=> \E k \in head .. tail - 1 : Slot(k) = i
        BY <3>2 DEF TypeOK
      <4>3. QED
        BY <4>1, <4>2 DEF LiveSlots
    <3>3. QED
      BY <3>1, <3>2
  <2>5. LiveSlots'
    <3>1. head' .. tail' - 1 = head .. tail
      BY <2>1 DEF TypeOK
    <3>2. QED
      BY <2>4, <3>1 DEF LiveSlots, Slot
  <2>6. QED
    BY <2>3, <2>5
<1>3. QED
  BY <1>1, <1>2

LEMMA InvPop ==
    ASSUME Inv, NEW k \in BatchSizes, PopBatch(k)
    PROVE  Inv'
<1>1. batch' \in Seq(Entries)
  <2>1. \A i \in 1 .. Popped(k) : buf[Slot(head + i - 1)] \in Entries
    BY PopEffect DEF Inv, TypeOK
  <2>2. QED
    BY <2>1, PopEffect, IsASeq
<1>2. TypeOK'
  BY <1>1, PopEffect DEF TypeOK, Inv
<1>3. ASSUME NEW i \in 0 .. Cap - 1
      PROVE  buf'[i] # Nil <=> \E j \in head' .. tail - 1 : Slot(j) = i
  <2> DEFINE read == {Slot(j) : j \in head .. head + Popped(k) - 1}
  <2>1. CASE i \in read
    <3>1. buf'[i] = Nil
      BY <2>1 DEF PopBatch
    <3>2. PICK j \in head .. head + Popped(k) - 1 : Slot(j) = i
      BY <2>1
    <3>3. ASSUME NEW m \in head' .. tail - 1, Slot(m) = i PROVE FALSE
      <4>1. j \in head .. tail - 1 /\ m \in head .. tail - 1 /\ j # m
        BY PopEffect DEF Inv, TypeOK
      <4>2. QED
        BY <3>2, <3>3, <4>1, WindowInjective DEF Inv
    <3>4. QED
      BY <3>1, <3>3
  <2>2. CASE i \notin read
    <3>1. buf'[i] = buf[i]
      BY <2>2 DEF PopBatch
    <3>2. ASSUME NEW j \in head .. tail - 1, Slot(j) = i PROVE j \in head' .. tail - 1
      BY <2>2, <3>2, PopEffect DEF Inv, TypeOK
    <3>3. \A j \in head' .. tail - 1 : j \in head .. tail - 1
      BY PopEffect DEF Inv, TypeOK
    <3>4. QED
      BY <3>1, <3>2, <3>3 DEF Inv, LiveSlots
  <2>3. QED
    BY <2>1, <2>2
<1>4. QED
  BY <1>2, <1>3, PopEffect DEF Inv, LiveSlots, Slot

LEMMA InvStep == Inv /\ [Next]_vars => Inv'
<1>1. Inv /\ UNCHANGED vars => Inv'
  BY DEF Inv, TypeOK, LiveSlots, Slot, vars
<1>2. QED
  BY <1>1, InvPush, InvPop DEF Next

\* The counters stay in order and the shard never holds more than Cap.
THEOREM TypeCorrect == Spec => []TypeOK
<1>1. Inv => TypeOK
  BY DEF Inv
<1>2. QED
  BY <1>1, InvInit, InvStep, PTL DEF Spec

\* A slot holds an entry exactly while the entry is queued.
THEOREM SlotsCorrect == Spec => []LiveSlots
<1>1. Inv => LiveSlots
  BY DEF Inv
<1>2. QED
  BY <1>1, InvInit, InvStep, PTL DEF Spec

-----------------------------------------------------------------------------
(* The shard implements the bounded queue *)

Items == [i \in 1 .. tail - head |-> buf[Slot(head + i - 1)]]

ItemsOK ==
    /\ Items \in Seq(Entries) /\ Len(Items) = tail - head
    /\ \A i \in 1 .. tail - head : Items[i] = buf[Slot(head + i - 1)]

LEMMA ItemsType == Inv => ItemsOK
<1> SUFFICES ASSUME Inv PROVE ItemsOK
  OBVIOUS
<1>1. \A i \in 1 .. tail - head : buf[Slot(head + i - 1)] \in Entries
  <2> TAKE i \in 1 .. tail - head
  <2>1. head + i - 1 \in head .. tail - 1 /\ head + i - 1 \in Nat
    BY DEF Inv, TypeOK
  <2>2. Slot(head + i - 1) \in 0 .. Cap - 1
    BY <2>1, SlotRange
  <2>3. QED
    BY <2>1, <2>2 DEF Inv, LiveSlots, TypeOK
<1>2. tail - head \in Nat
  BY DEF Inv, TypeOK
<1>3. Items \in Seq(Entries)
  BY <1>1, <1>2, IsASeq DEF Items
<1>4. QED
  BY <1>2, <1>3, LenProperties DEF Items, ItemsOK

LEMMA InitRefines == Init => Queue!QueueInit
<1> SUFFICES ASSUME Init PROVE Queue!QueueInit
  OBVIOUS
<1>1. Items \in Seq(Entries) /\ Len(Items) = 0
  BY InvInit, ItemsType DEF ItemsOK, Init
<1>2. Items = <<>>
  BY <1>1, EmptySeq
<1>3. QED
  BY <1>2 DEF Init, Queue!QueueInit, Items

LEMMA PushRefines ==
    ASSUME Inv, Inv', NEW e \in Entries, Push(e)
    PROVE  Queue!Put(e) \/ Queue!Refuse
<1>1. CASE UNCHANGED <<buf, tail>>
  <2>1. tail - head = Cap /\ drop' = drop + 1 /\ UNCHANGED <<head, batch>>
    BY <1>1 DEF Push, Inv, TypeOK
  <2>2. Items' = Items
    BY <1>1, <2>1 DEF Items, Slot
  <2>3. QED
    BY <2>1, <2>2, ItemsType DEF ItemsOK, Queue!Refuse, Items
<1>2. CASE ~UNCHANGED <<buf, tail>>
  <2>1. /\ tail - head < Cap /\ tail' = tail + 1 /\ UNCHANGED <<head, drop, batch>>
        /\ buf' = [buf EXCEPT ![Slot(tail)] = e]
    BY <1>2 DEF Push
  <2>2. /\ Items' \in Seq(Entries) /\ Len(Items') = tail - head + 1
        /\ \A i \in 1 .. tail - head + 1 : Items'[i] = buf'[Slot(head + i - 1)]
    <3>1. tail' - head' = tail - head + 1
      BY <2>1 DEF Inv, TypeOK
    <3>2. /\ Items' \in Seq(Entries) /\ Len(Items') = tail' - head'
          /\ \A i \in 1 .. tail' - head' : Items'[i] = buf'[Slot(head' + i - 1)]
      <4>1. ItemsOK'
        BY ItemsType, PTL
      <4>2. QED
        BY <4>1 DEF ItemsOK, Slot
    <3>3. QED
      BY <2>1, <3>1, <3>2
  <2>3. ASSUME NEW i \in 1 .. tail - head + 1
        PROVE  Items'[i] = Append(Items, e)[i]
    <3>1. Slot(tail) \in 0 .. Cap - 1
      BY SlotRange DEF Inv, TypeOK
    <3>2. CASE i = tail - head + 1
      <4>1. head + i - 1 = tail
        BY <3>2 DEF Inv, TypeOK
      <4>2. Items'[i] = e
        BY <2>1, <2>2, <3>1, <4>1 DEF Inv, TypeOK
      <4>3. QED
        BY <3>2, <4>2, ItemsType DEF ItemsOK
    <3>3. CASE i # tail - head + 1
      <4>1. i \in 1 .. tail - head /\ head + i - 1 \in Nat /\ head + i - 1 < tail
            /\ tail < head + i - 1 + Cap
        BY <2>1, <3>3 DEF Inv, TypeOK
      <4>2. Slot(head + i - 1) # Slot(tail) /\ Slot(head + i - 1) \in 0 .. Cap - 1
        BY <4>1, SlotInjective, SlotRange DEF Inv, TypeOK
      <4>3. buf'[Slot(head + i - 1)] = buf[Slot(head + i - 1)]
        BY <2>1, <4>2 DEF Inv, TypeOK
      <4>4. QED
        BY <2>2, <4>1, <4>3, ItemsType DEF ItemsOK
    <3>4. QED
      BY <3>2, <3>3
  <2>4. Items' = Append(Items, e)
    <3>1. Append(Items, e) \in Seq(Entries) /\ Len(Append(Items, e)) = tail - head + 1
      BY ItemsType DEF ItemsOK
    <3>2. QED
      BY <2>2, <2>3, <3>1, SeqEqual
  <2>5. QED
    BY <2>1, <2>4, ItemsType DEF ItemsOK, Queue!Put, Items
<1>3. QED
  BY <1>1, <1>2

\* Splitting a sequence at n.
LEMMA SplitSeq ==
    ASSUME NEW q \in Seq(Entries), NEW n \in 0 .. Len(q)
    PROVE  /\ SubSeq(q, 1, n) \in Seq(Entries) /\ Len(SubSeq(q, 1, n)) = n
           /\ \A i \in 1 .. n : SubSeq(q, 1, n)[i] = q[i]
           /\ SubSeq(q, n + 1, Len(q)) \in Seq(Entries)
           /\ Len(SubSeq(q, n + 1, Len(q))) = Len(q) - n
           /\ \A i \in 1 .. Len(q) - n : SubSeq(q, n + 1, Len(q))[i] = q[n + i]
  OBVIOUS

LEMMA PopRefines ==
    ASSUME Inv, Inv', NEW k \in BatchSizes, PopBatch(k)
    PROVE  Queue!Take(k)
<1> DEFINE n == Popped(k)
<1>1. n \in 0 .. tail - head /\ n = IF k < Len(Items) THEN k ELSE Len(Items)
  BY PopEffect, ItemsType DEF Popped, ItemsOK
<1>2. ItemsOK /\ ItemsOK'
  BY ItemsType, PTL
<1>3. head' = head + n /\ tail' = tail /\ drop' = drop
  BY PopEffect
<1>4. \A i \in head + n .. tail - 1 : buf'[Slot(i)] = buf[Slot(i)]
  BY PopEffect
<1>5. batch' \in Seq(Entries) /\ Len(batch') = n /\ \A i \in 1 .. n : batch'[i] = Items[i]
  <2>1. batch' \in Seq(Entries)
    BY InvPop DEF Inv, TypeOK
  <2>2. batch' = [i \in 1 .. n |-> buf[Slot(head + i - 1)]]
    BY PopEffect
  <2>3. n \in Nat
    BY <1>1 DEF Inv, TypeOK
  <2> HIDE DEF n
  <2>4. Len(batch') = n
    BY <2>1, <2>2, <2>3, LenProperties
  <2>5. \A i \in 1 .. n : Items[i] = buf[Slot(head + i - 1)]
    BY <1>1, <1>2 DEF ItemsOK, Inv, TypeOK
  <2>6. QED
    BY <2>1, <2>2, <2>4, <2>5
<1> HIDE DEF n
<1>6. batch' = SubSeq(Items, 1, n)
  <2>1. /\ SubSeq(Items, 1, n) \in Seq(Entries) /\ Len(SubSeq(Items, 1, n)) = n
        /\ \A i \in 1 .. n : SubSeq(Items, 1, n)[i] = Items[i]
    <3>1. Items \in Seq(Entries) /\ n \in 0 .. Len(Items)
      BY <1>1, <1>2 DEF ItemsOK, Inv, TypeOK
    <3>2. SubSeq(Items, 1, n) \in Seq(Entries)
      BY <3>1
    <3>3. Len(SubSeq(Items, 1, n)) = n
      BY <3>1
    <3>4. \A i \in 1 .. n : SubSeq(Items, 1, n)[i] = Items[i]
      BY <3>1
    <3> QED  BY <3>2, <3>3, <3>4
  <2>2. QED
    BY <1>5, <2>1, SeqEqual
<1>7. Items' = SubSeq(Items, n + 1, Len(Items))
  <2>1. /\ SubSeq(Items, n + 1, Len(Items)) \in Seq(Entries)
        /\ Len(SubSeq(Items, n + 1, Len(Items))) = tail - head - n
        /\ \A i \in 1 .. tail - head - n : SubSeq(Items, n + 1, Len(Items))[i] = Items[n + i]
    BY <1>1, <1>2, SplitSeq DEF ItemsOK
  <2>2. /\ Items' \in Seq(Entries) /\ Len(Items') = tail - head - n
        /\ \A i \in 1 .. tail - head - n : Items'[i] = buf'[Slot(head + n + i - 1)]
    <3>1. tail' - head' = tail - head - n /\ \A i \in Int : head' + i - 1 = head + n + i - 1
      BY <1>1, <1>3 DEF Inv, TypeOK
    <3>2. \A i \in 1 .. tail' - head' : Items'[i] = buf'[Slot(head' + i - 1)]
      BY <1>2 DEF ItemsOK, Slot
    <3>3. QED
      BY <1>2, <3>1, <3>2 DEF ItemsOK
  <2>3. ASSUME NEW i \in 1 .. tail - head - n
        PROVE  Items'[i] = Items[n + i]
    <3>1. head + n + i - 1 \in head + n .. tail - 1 /\ n + i \in 1 .. tail - head
          /\ head + (n + i) - 1 = head + n + i - 1
      BY <1>1 DEF Inv, TypeOK
    <3>2. Items[n + i] = buf[Slot(head + n + i - 1)]
      BY <1>2, <3>1 DEF ItemsOK
    <3>3. QED
      BY <1>4, <2>2, <3>1, <3>2
  <2>4. QED
    BY <2>1, <2>2, <2>3, SeqEqual
<1>8. QED
  BY <1>1, <1>3, <1>6, <1>7 DEF Queue!Take, Items

\* The circular array behaves as a bounded FIFO queue: entries come out in the
\* order they went in, none is lost or repeated, and an entry is refused
\* exactly when Cap entries are queued.
THEOREM RingRefinesQueue == Spec => ImplementsQueue
<1>1. Inv /\ Inv' /\ [Next]_vars => [Queue!QueueNext]_(Queue!bqVars)
  <2> SUFFICES ASSUME Inv, Inv', [Next]_vars PROVE [Queue!QueueNext]_(Queue!bqVars)
    OBVIOUS
  <2>1. ASSUME NEW e \in Entries, Push(e) PROVE Queue!QueueNext
    BY <2>1, PushRefines DEF Queue!QueueNext
  <2>2. ASSUME NEW k \in BatchSizes, PopBatch(k) PROVE Queue!QueueNext
    BY <2>2, PopRefines DEF Queue!QueueNext
  <2>3. CASE UNCHANGED vars
    BY <2>3 DEF vars, Slot, Queue!bqVars
  <2>4. QED
    BY <2>1, <2>2, <2>3 DEF Next
<1>2. QED
  BY <1>1, InvInit, InvStep, InitRefines, PTL DEF Spec, ImplementsQueue, Queue!QueueSpec

-----------------------------------------------------------------------------
(* Recursive functions *)

\* A non-empty set of naturals has a least element,
LEMMA Least ==
    ASSUME NEW T, T \subseteq Nat, T # {}
    PROVE  \E n \in T : \A m \in T : n <= m
<1>1. PICK n \in T : \A m \in T : ~(<<m, n>> \in OpToRel(<, Nat))
  BY NatLessThanWellFounded, WFMin, Zenon
<1>2. ASSUME NEW m \in T, ~(n <= m) PROVE FALSE
  <2>1. m \in Nat /\ n \in Nat /\ m < n
    BY <1>2
  <2>2. <<m, n>> \in OpToRel(<, Nat)
    BY <2>1, Zenon DEF OpToRel
  <2> QED  BY <1>1, <2>2
<1> QED  BY <1>2

\* ... so a set that has each natural whose predecessors it has, has them all.
LEMMA Induct ==
    ASSUME NEW S, \A n \in Nat : (\A m \in 0 .. n - 1 : m \in S) => n \in S
    PROVE  Nat \subseteq S
<1> SUFFICES ASSUME Nat \ S # {} PROVE FALSE
  OBVIOUS
<1>1. PICK n \in Nat \ S : \A m \in Nat \ S : n <= m
  BY Least
<1>2. \A m \in 0 .. n - 1 : m \in Nat /\ ~(n <= m)
  OBVIOUS
<1>3. \A m \in 0 .. n - 1 : m \in S
  BY <1>1, <1>2, Zenon
<1> QED  BY <1>3

\* f obeys, on S, a recursion in which step[x] takes what f has for prev[x].
Obeys(f, S, base, prev, step) ==
    \A x \in S : f[x] = IF x = 0 THEN base ELSE step[x][f[prev[x]]]

Decreasing(prev) == \A x \in Nat \ {0} : prev[x] \in 0 .. x - 1
Closed(step, V)  == \A x \in Nat \ {0} : \A v \in V : step[x][v] \in V

\* There is a function that obeys a recursion everywhere.
LEMMA Recursion ==
    ASSUME NEW V, NEW base \in V, NEW prev, NEW step, Decreasing(prev), Closed(step, V)
    PROVE  \E h \in [Nat -> V] : Obeys(h, Nat, base, prev, step)
<1> USE DEF Decreasing, Closed
<1> DEFINE Good(f, n) == f \in [0 .. n -> V] /\ Obeys(f, 0 .. n, base, prev, step)
           There      == {n \in Nat : \E f : Good(f, n)}
\* up to each n there is one:
<1>1. \A n \in Nat : (\A m \in 0 .. n - 1 : m \in There) => n \in There
  <2> SUFFICES ASSUME NEW n \in Nat, \A m \in 0 .. n - 1 : m \in There PROVE \E f : Good(f, n)
    OBVIOUS
  <2>1. CASE n = 0
    <3>1. Good([x \in 0 .. 0 |-> base], 0)
      BY DEF Obeys
    <3> QED  BY <2>1, <3>1
  <2>2. CASE n # 0
    <3>1. n - 1 \in 0 .. n - 1 /\ prev[n] \in 0 .. n - 1
      BY <2>2
    <3>2. PICK f : Good(f, n - 1)
      BY <3>1
    <3> DEFINE e == [x \in 0 .. n |-> IF x = n THEN step[n][f[prev[n]]] ELSE f[x]]
    <3>3. e \in [0 .. n -> V]
      <4>1. step[n][f[prev[n]]] \in V
        <5>1. f[prev[n]] \in V
          BY <3>1, <3>2
        <5> QED  BY <5>1, <2>2
      <4>2. \A x \in 0 .. n : x # n => f[x] \in V
        BY <3>2
      <4> QED  BY <4>1, <4>2
    <3>4. ASSUME NEW x \in 0 .. n PROVE e[x] = IF x = 0 THEN base ELSE step[x][e[prev[x]]]
      <4>1. CASE x = n
        <5>1. prev[x] \in 0 .. n /\ prev[x] # n
          BY <3>1, <4>1
        <5>2. e[prev[x]] = f[prev[x]]
          BY <5>1
        <5> QED  BY <4>1, <5>2, <2>2
      <4>2. CASE x # n
        <5>1. x \in 0 .. n - 1 /\ (x # 0 => prev[x] \in 0 .. x - 1)
          BY <4>2
        <5>2. f[x] = IF x = 0 THEN base ELSE step[x][f[prev[x]]]
          BY <3>2, <5>1 DEF Obeys
        <5>3. x # 0 => e[prev[x]] = f[prev[x]]
          <6>1. x # 0 => prev[x] \in 0 .. n /\ prev[x] # n
            BY <5>1
          <6> QED  BY <6>1
        <5> QED  BY <4>2, <5>2, <5>3
      <4> QED  BY <4>1, <4>2
    <3>5. Good(e, n)
      BY <3>3, <3>4, Zenon DEF Obeys
    <3> QED  BY <3>5
  <2> QED  BY <2>1, <2>2
<1>2. \A n \in Nat : \E f : Good(f, n)
  <2>1. Nat \subseteq There
    <3> HIDE DEF There
    <3> QED  BY <1>1, Induct
  <2> QED  BY <2>1
\* any two of them agree:
<1>3. ASSUME NEW f, NEW g, NEW n \in Nat, NEW m \in Nat, Good(f, n), Good(g, m)
      PROVE  \A x \in Nat : x <= n /\ x <= m => f[x] = g[x]
  <2> DEFINE Same == {x \in Nat : x <= n /\ x <= m => f[x] = g[x]}
  <2>1. ASSUME NEW x \in Nat, \A y \in 0 .. x - 1 : y \in Same PROVE x \in Same
    <3>1. SUFFICES ASSUME x <= n, x <= m PROVE f[x] = g[x]
      OBVIOUS
    <3>2. x \in 0 .. n /\ x \in 0 .. m
      BY <3>1
    <3>3. /\ f[x] = IF x = 0 THEN base ELSE step[x][f[prev[x]]]
          /\ g[x] = IF x = 0 THEN base ELSE step[x][g[prev[x]]]
      BY <1>3, <3>2 DEF Obeys
    <3>4. x # 0 => f[prev[x]] = g[prev[x]]
      <4>1. x # 0 => prev[x] \in 0 .. x - 1
        OBVIOUS
      <4>2. x # 0 => prev[x] \in Same /\ prev[x] <= n /\ prev[x] <= m
        BY <2>1, <3>1, <4>1
      <4> QED  BY <4>2
    <3> QED  BY <3>3, <3>4
  <2>2. Nat \subseteq Same
    <3> HIDE DEF Same
    <3> QED  BY <2>1, Induct
  <2> QED  BY <2>2
\* together they are a function on all of Nat.
<1> DEFINE F == [n \in Nat |-> CHOOSE f : Good(f, n)]
           h == [x \in Nat |-> F[x][x]]
<1>4. \A n \in Nat : Good(F[n], n)
  <2> HIDE DEF Good
  <2> QED  BY <1>2, Zenon
<1> HIDE DEF F
<1>5. ASSUME NEW x \in Nat
      PROVE  h[x] \in V /\ h[x] = IF x = 0 THEN base ELSE step[x][h[prev[x]]]
  <2>1. Good(F[x], x) /\ x \in 0 .. x
    BY <1>4
  <2>2. h[x] \in V /\ h[x] = IF x = 0 THEN base ELSE step[x][F[x][prev[x]]]
    BY <2>1 DEF Obeys
  <2>3. x # 0 => F[x][prev[x]] = F[prev[x]][prev[x]] /\ prev[x] \in Nat
    <3>1. SUFFICES ASSUME x # 0 PROVE F[x][prev[x]] = F[prev[x]][prev[x]] /\ prev[x] \in Nat
      OBVIOUS
    <3>2. prev[x] \in Nat /\ prev[x] <= x /\ prev[x] <= prev[x]
      <4>1. prev[x] \in 0 .. x - 1
        BY <3>1
      <4> QED  BY <4>1
    <3>3. Good(F[prev[x]], prev[x])
      BY <1>4, <3>2
    <3>4. Good(F[x], x)
      BY <2>1
    <3> HIDE DEF Good
    <3> QED  BY <1>3, <3>2, <3>3, <3>4
  <2>4. x # 0 => h[prev[x]] = F[x][prev[x]]
    BY <2>3
  <2> QED  BY <2>2, <2>4
<1>6. h \in [Nat -> V]
  BY <1>5
<1>7. Obeys(h, Nat, base, prev, step)
  <2> HIDE DEF h
  <2> QED  BY <1>5, Zenon DEF Obeys
<1> HIDE DEF h
<1> QED  BY <1>6, <1>7

-----------------------------------------------------------------------------
(* Bits *)

\* Half of a number and its last bit.
LEMMA Halves ==
    ASSUME NEW x \in Nat
    PROVE  /\ x \div 2 \in Nat /\ x % 2 \in 0 .. 1 /\ x = 2 * (x \div 2) + (x % 2)
           /\ x # 0 => x \div 2 \in 0 .. x - 1
<1>1. x \div 2 \in Int /\ x % 2 \in 0 .. 1 /\ x = 2 * (x \div 2) + (x % 2)
  OBVIOUS
<1>2. PICK h \in Int : h = x \div 2
  BY <1>1
<1> QED  BY <1>1, <1>2

\* The larger and the smaller of two bits.
LEMMA BitOps ==
    ASSUME NEW p \in 0 .. 1, NEW q \in 0 .. 1
    PROVE  /\ AtLeast(p, q) \in 0 .. 1 /\ AtLeast(p, q) >= p /\ AtLeast(p, q) >= q
           /\ AtMost(p, q) \in 0 .. 1 /\ AtMost(p, q) <= q
           /\ p = q => AtMost(p, q) = p
           /\ q = 1 => AtMost(p, q) = p
           /\ p = 1 => AtMost(p, q) = q
           /\ q = 0 => AtMost(p, q) = 0
  BY DEF AtLeast, AtMost

\* What Or is for two numbers, from what it is for their halves.
LEMMA OrUnfolds ==
    \A x, y \in Nat :
        /\ Or[x][y] \in Nat
        /\ Or[x][y] = IF x = 0 THEN y ELSE 2 * Or[x \div 2][y \div 2] + AtLeast(x % 2, y % 2)
<1> DEFINE V    == [Nat -> Nat]
           base == [y \in Nat |-> y]
           prev == [x \in Nat |-> x \div 2]
           step == [x \in Nat |-> [v \in V |->
                       [y \in Nat |-> 2 * v[y \div 2] + AtLeast(x % 2, y % 2)]]]
           Or1(x, y) == IF x = 0 THEN y ELSE 2 * Or[x \div 2][y \div 2] + AtLeast(x % 2, y % 2)
<1>1. \E h \in [Nat -> V] : Obeys(h, Nat, base, prev, step)
  <2>1. base \in V
    OBVIOUS
  <2>2. Decreasing(prev)
    BY Halves DEF Decreasing
  <2>3. Closed(step, V)
    <3> SUFFICES ASSUME NEW x \in Nat \ {0}, NEW v \in V PROVE step[x][v] \in V
      BY DEF Closed
    <3>1. \A y \in Nat : 2 * v[y \div 2] + AtLeast(x % 2, y % 2) \in Nat
      <4>1. SUFFICES ASSUME NEW y \in Nat PROVE 2 * v[y \div 2] + AtLeast(x % 2, y % 2) \in Nat
        OBVIOUS
      <4>2. v[y \div 2] \in Nat
        BY Halves
      <4>3. AtLeast(x % 2, y % 2) \in 0 .. 1
        BY Halves, BitOps
      <4> QED  BY <4>2, <4>3
    <3> QED  BY <3>1
  <2> HIDE DEF V, base, prev, step
  <2> QED  BY <2>1, <2>2, <2>3, Recursion
<1>2. PICK h \in [Nat -> V] : \A x \in Nat : h[x] = IF x = 0 THEN base ELSE step[x][h[prev[x]]]
  BY <1>1, Zenon DEF Obeys
<1>3. ASSUME NEW x \in Nat
      PROVE  h[x] = [y \in Nat |-> IF x = 0 THEN y ELSE 2 * h[x \div 2][y \div 2] + AtLeast(x % 2, y % 2)]
  <2>1. CASE x = 0
    BY <1>2, <2>1
  <2>2. CASE x # 0
    <3>1. prev[x] = x \div 2 /\ x \div 2 \in Nat
      BY Halves
    <3>2. h[x \div 2] \in V
      BY <1>2, <3>1
    <3>3. h[x] = step[x][h[x \div 2]]
      BY <1>2, <2>2, <3>1
    <3>4. step[x][h[x \div 2]] = [y \in Nat |-> 2 * h[x \div 2][y \div 2] + AtLeast(x % 2, y % 2)]
      BY <3>2
    <3> QED  BY <2>2, <3>3, <3>4
  <2> QED  BY <2>1, <2>2
<1>4. h = [x \in Nat |-> [y \in Nat |-> IF x = 0 THEN y ELSE 2 * h[x \div 2][y \div 2] + AtLeast(x % 2, y % 2)]]
  BY <1>3
<1>5. Or = [x \in Nat |-> [y \in Nat |-> IF x = 0 THEN y ELSE 2 * Or[x \div 2][y \div 2] + AtLeast(x % 2, y % 2)]]
  BY <1>4, Zenon DEF Or
<1>6. ASSUME NEW x \in Nat, NEW y \in Nat PROVE Or[x][y] = Or1(x, y)
  <2>1. Or[x] = [b \in Nat |-> IF x = 0 THEN b ELSE 2 * Or[x \div 2][b \div 2] + AtLeast(x % 2, b % 2)]
    BY <1>5, Zenon
  <2> QED  BY <2>1, Zenon
<1> DEFINE Typed == {x \in Nat : \A y \in Nat : Or[x][y] \in Nat}
<1>7. ASSUME NEW x \in Nat, \A m \in 0 .. x - 1 : m \in Typed PROVE x \in Typed
  <2> SUFFICES ASSUME NEW y \in Nat PROVE Or[x][y] \in Nat
    OBVIOUS
  <2>1. x # 0 => Or[x \div 2][y \div 2] \in Nat
    BY <1>7, Halves
  <2>2. AtLeast(x % 2, y % 2) \in 0 .. 1
    BY Halves, BitOps
  <2>3. Or[x][y] = Or1(x, y)
    BY <1>6
  <2> HIDE DEF Typed, V
  <2> QED  BY <2>1, <2>2, <2>3
<1>8. Nat \subseteq Typed
  <2> HIDE DEF Typed
  <2> QED  BY <1>7, Induct
<1> QED  BY <1>6, <1>8

\* ... and And.
LEMMA AndUnfolds ==
    \A x, y \in Nat :
        /\ And[x][y] \in Nat
        /\ And[x][y] = IF x = 0 THEN 0 ELSE 2 * And[x \div 2][y \div 2] + AtMost(x % 2, y % 2)
<1> DEFINE V    == [Nat -> Nat]
           base == [y \in Nat |-> 0]
           prev == [x \in Nat |-> x \div 2]
           step == [x \in Nat |-> [v \in V |->
                       [y \in Nat |-> 2 * v[y \div 2] + AtMost(x % 2, y % 2)]]]
           And1(x, y) == IF x = 0 THEN 0 ELSE 2 * And[x \div 2][y \div 2] + AtMost(x % 2, y % 2)
<1>1. \E h \in [Nat -> V] : Obeys(h, Nat, base, prev, step)
  <2>1. base \in V
    OBVIOUS
  <2>2. Decreasing(prev)
    BY Halves DEF Decreasing
  <2>3. Closed(step, V)
    <3> SUFFICES ASSUME NEW x \in Nat \ {0}, NEW v \in V PROVE step[x][v] \in V
      BY DEF Closed
    <3>1. \A y \in Nat : 2 * v[y \div 2] + AtMost(x % 2, y % 2) \in Nat
      <4>1. SUFFICES ASSUME NEW y \in Nat PROVE 2 * v[y \div 2] + AtMost(x % 2, y % 2) \in Nat
        OBVIOUS
      <4>2. v[y \div 2] \in Nat
        BY Halves
      <4>3. AtMost(x % 2, y % 2) \in 0 .. 1
        BY Halves, BitOps
      <4> QED  BY <4>2, <4>3
    <3> QED  BY <3>1
  <2> HIDE DEF V, base, prev, step
  <2> QED  BY <2>1, <2>2, <2>3, Recursion
<1>2. PICK h \in [Nat -> V] : \A x \in Nat : h[x] = IF x = 0 THEN base ELSE step[x][h[prev[x]]]
  BY <1>1, Zenon DEF Obeys
<1>3. ASSUME NEW x \in Nat
      PROVE  h[x] = [y \in Nat |-> IF x = 0 THEN 0 ELSE 2 * h[x \div 2][y \div 2] + AtMost(x % 2, y % 2)]
  <2>1. CASE x = 0
    BY <1>2, <2>1
  <2>2. CASE x # 0
    <3>1. prev[x] = x \div 2 /\ x \div 2 \in Nat
      BY Halves
    <3>2. h[x \div 2] \in V
      BY <1>2, <3>1
    <3>3. h[x] = step[x][h[x \div 2]]
      BY <1>2, <2>2, <3>1
    <3>4. step[x][h[x \div 2]] = [y \in Nat |-> 2 * h[x \div 2][y \div 2] + AtMost(x % 2, y % 2)]
      BY <3>2
    <3> QED  BY <2>2, <3>3, <3>4
  <2> QED  BY <2>1, <2>2
<1>4. h = [x \in Nat |-> [y \in Nat |-> IF x = 0 THEN 0 ELSE 2 * h[x \div 2][y \div 2] + AtMost(x % 2, y % 2)]]
  BY <1>3
<1>5. And = [x \in Nat |-> [y \in Nat |-> IF x = 0 THEN 0 ELSE 2 * And[x \div 2][y \div 2] + AtMost(x % 2, y % 2)]]
  BY <1>4, Zenon DEF And
<1>6. ASSUME NEW x \in Nat, NEW y \in Nat PROVE And[x][y] = And1(x, y)
  <2>1. And[x] = [b \in Nat |-> IF x = 0 THEN 0 ELSE 2 * And[x \div 2][b \div 2] + AtMost(x % 2, b % 2)]
    BY <1>5, Zenon
  <2> QED  BY <2>1, Zenon
<1> DEFINE Typed == {x \in Nat : \A y \in Nat : And[x][y] \in Nat}
<1>7. ASSUME NEW x \in Nat, \A m \in 0 .. x - 1 : m \in Typed PROVE x \in Typed
  <2> SUFFICES ASSUME NEW y \in Nat PROVE And[x][y] \in Nat
    OBVIOUS
  <2>1. x # 0 => And[x \div 2][y \div 2] \in Nat
    BY <1>7, Halves
  <2>2. AtMost(x % 2, y % 2) \in 0 .. 1
    BY Halves, BitOps
  <2>3. And[x][y] = And1(x, y)
    BY <1>6
  <2> HIDE DEF Typed, V
  <2> QED  BY <2>1, <2>2, <2>3
<1>8. Nat \subseteq Typed
  <2> HIDE DEF Typed
  <2> QED  BY <1>7, Induct
<1> QED  BY <1>6, <1>8

\* The powers of two, by doubling: the provers know 2^i only for a literal i.
TwoTo[i \in Nat] == IF i = 0 THEN 1 ELSE 2 * TwoTo[i - 1]

\* They begin with 1, and each is twice the one before.
LEMMA TwoToUnfolds ==
    TwoTo[0] = 1 /\ \A i \in Nat : TwoTo[i] \in Nat \ {0} /\ TwoTo[i + 1] = 2 * TwoTo[i]
<1> DEFINE V    == Nat \ {0}
           prev == [i \in Nat |-> i - 1]
           step == [i \in Nat |-> [v \in V |-> 2 * v]]
           Next1(h, i) == IF i = 0 THEN 1 ELSE 2 * h[i - 1]
<1>1. \E h \in [Nat -> V] : Obeys(h, Nat, 1, prev, step)
  <2>1. 1 \in V
    OBVIOUS
  <2>2. Decreasing(prev)
    BY DEF Decreasing
  <2>3. Closed(step, V)
    BY DEF Closed
  <2> HIDE DEF V, prev, step
  <2> QED  BY <2>1, <2>2, <2>3, Recursion
<1>2. PICK h \in [Nat -> V] : \A i \in Nat : h[i] = IF i = 0 THEN 1 ELSE step[i][h[prev[i]]]
  BY <1>1, Zenon DEF Obeys
<1>3. ASSUME NEW i \in Nat PROVE h[i] = Next1(h, i)
  <2>1. CASE i = 0
    BY <1>2, <2>1
  <2>2. CASE i # 0
    <3>1. prev[i] = i - 1 /\ i - 1 \in Nat
      BY <2>2
    <3>2. h[i - 1] \in V
      BY <1>2, <3>1
    <3>3. h[i] = step[i][h[i - 1]]
      BY <1>2, <2>2, <3>1
    <3> QED  BY <2>2, <3>2, <3>3
  <2> QED  BY <2>1, <2>2
<1>4. h = [i \in Nat |-> Next1(h, i)]
  BY <1>2, <1>3
<1>5. TwoTo = [i \in Nat |-> Next1(TwoTo, i)]
  BY <1>4, Zenon DEF TwoTo
<1>6. \A i \in Nat : TwoTo[i] = Next1(TwoTo, i)
  BY <1>5, Zenon
<1>7. TwoTo[0] = 1
  BY <1>6
<1>8. ASSUME NEW i \in Nat PROVE TwoTo[i + 1] = 2 * TwoTo[i]
  <2>1. i + 1 \in Nat /\ i + 1 # 0 /\ (i + 1) - 1 = i
    OBVIOUS
  <2> QED  BY <1>6, <2>1
<1> DEFINE Typed == {i \in Nat : TwoTo[i] \in Nat \ {0}}
<1>9. ASSUME NEW i \in Nat, \A m \in 0 .. i - 1 : m \in Typed PROVE i \in Typed
  <2>1. i # 0 => TwoTo[i - 1] \in Nat \ {0}
    BY <1>9
  <2> QED  BY <1>6, <2>1
<1>10. Nat \subseteq Typed
  <2> HIDE DEF Typed
  <2> QED  BY <1>9, Induct
<1> QED  BY <1>7, <1>8, <1>10

\* Or has every bit of its first argument,
LEMMA OrAbove == \A x, y \in Nat : Or[x][y] >= x
<1> DEFINE S == {x \in Nat : \A y \in Nat : Or[x][y] >= x}
<1>1. ASSUME NEW x \in Nat, \A m \in 0 .. x - 1 : m \in S PROVE x \in S
  <2> SUFFICES ASSUME NEW y \in Nat PROVE Or[x][y] >= x
    OBVIOUS
  <2>1. Or[x][y] = IF x = 0 THEN y ELSE 2 * Or[x \div 2][y \div 2] + AtLeast(x % 2, y % 2)
    BY OrUnfolds
  <2>2. x # 0 => Or[x \div 2][y \div 2] >= x \div 2
    BY <1>1, Halves
  <2>3. Or[x \div 2][y \div 2] \in Nat
    BY Halves, OrUnfolds
  <2>4. AtLeast(x % 2, y % 2) \in 0 .. 1 /\ AtLeast(x % 2, y % 2) >= x % 2
    BY Halves, BitOps
  <2>5. x = 2 * (x \div 2) + (x % 2) /\ x \div 2 \in Nat /\ x % 2 \in 0 .. 1
    BY Halves
  <2> HIDE DEF S
  <2> QED  BY <2>1, <2>2, <2>3, <2>4, <2>5
<1>2. Nat \subseteq S
  <2> HIDE DEF S
  <2> QED  BY <1>1, Induct
<1> QED  BY <1>2

\* and no bit above those of both.
LEMMA OrBelow == \A k \in Nat : \A x, y \in Nat : x < TwoTo[k] /\ y < TwoTo[k] => Or[x][y] < TwoTo[k]
<1> DEFINE S == {k \in Nat : \A x, y \in Nat : x < TwoTo[k] /\ y < TwoTo[k] => Or[x][y] < TwoTo[k]}
<1>1. ASSUME NEW k \in Nat, \A m \in 0 .. k - 1 : m \in S PROVE k \in S
  <2> SUFFICES ASSUME NEW x \in Nat, NEW y \in Nat, x < TwoTo[k], y < TwoTo[k] PROVE Or[x][y] < TwoTo[k]
    OBVIOUS
  <2>1. Or[x][y] = IF x = 0 THEN y ELSE 2 * Or[x \div 2][y \div 2] + AtLeast(x % 2, y % 2)
    BY OrUnfolds
  <2>2. CASE k = 0
    BY <2>1, <2>2, TwoToUnfolds
  <2>3. CASE k # 0
    <3>1. k - 1 \in 0 .. k - 1 /\ (k - 1) + 1 = k
      BY <2>3
    <3>2. TwoTo[k] = 2 * TwoTo[k - 1] /\ TwoTo[k - 1] \in Nat
      BY <3>1, TwoToUnfolds
    <3>3. /\ x = 2 * (x \div 2) + (x % 2) /\ x \div 2 \in Nat /\ x % 2 \in 0 .. 1
          /\ y = 2 * (y \div 2) + (y % 2) /\ y \div 2 \in Nat /\ y % 2 \in 0 .. 1
      BY Halves
    <3>4. x \div 2 < TwoTo[k - 1] /\ y \div 2 < TwoTo[k - 1]
      BY <3>2, <3>3
    <3>5. Or[x \div 2][y \div 2] < TwoTo[k - 1]
      BY <1>1, <3>1, <3>3, <3>4
    <3>6. Or[x \div 2][y \div 2] \in Nat
      BY Halves, OrUnfolds
    <3>7. AtLeast(x % 2, y % 2) \in 0 .. 1
      BY <3>3, BitOps
    <3> HIDE DEF S
    <3> QED  BY <2>1, <3>2, <3>5, <3>6, <3>7
  <2> QED  BY <2>2, <2>3
<1>2. Nat \subseteq S
  <2> HIDE DEF S
  <2> QED  BY <1>1, Induct
<1> QED  BY <1>2

\* Where all bits of x from j up to k are set, Or adds to them what y has below.
LEMMA OrFills ==
    \A j \in Nat : \A k, x, y \in Nat :
        j <= k /\ x < TwoTo[k] /\ x >= TwoTo[k] - TwoTo[j] /\ y < TwoTo[j]
            => Or[x][y] >= TwoTo[k] - TwoTo[j] + y
<1> DEFINE Fills(j, k, x, y) ==
               j <= k /\ x < TwoTo[k] /\ x >= TwoTo[k] - TwoTo[j] /\ y < TwoTo[j]
                   => Or[x][y] >= TwoTo[k] - TwoTo[j] + y
           S == {j \in Nat : \A k, x, y \in Nat : Fills(j, k, x, y)}
<1>1. ASSUME NEW j \in Nat, \A m \in 0 .. j - 1 : m \in S PROVE j \in S
  <2> SUFFICES ASSUME NEW k \in Nat, NEW x \in Nat, NEW y \in Nat,
                      j <= k, x < TwoTo[k], x >= TwoTo[k] - TwoTo[j], y < TwoTo[j]
               PROVE  Or[x][y] >= TwoTo[k] - TwoTo[j] + y
    OBVIOUS
  <2>1. Or[x][y] = IF x = 0 THEN y ELSE 2 * Or[x \div 2][y \div 2] + AtLeast(x % 2, y % 2)
    BY OrUnfolds
  <2>2. CASE j = 0
    <3>1. TwoTo[0] = 1 /\ TwoTo[k] \in Nat /\ Or[x][y] >= x /\ Or[x][y] \in Nat
      BY OrAbove, OrUnfolds, TwoToUnfolds
    <3> HIDE DEF S, Fills
    <3> QED  BY <2>2, <3>1
  <2>3. CASE j # 0
    <3>1. j - 1 \in 0 .. j - 1 /\ k - 1 \in Nat /\ (j - 1) + 1 = j /\ (k - 1) + 1 = k /\ j - 1 <= k - 1
      BY <2>3
    <3>2. /\ TwoTo[k] = 2 * TwoTo[k - 1] /\ TwoTo[k - 1] \in Nat
          /\ TwoTo[j] = 2 * TwoTo[j - 1] /\ TwoTo[j - 1] \in Nat
      BY <3>1, TwoToUnfolds
    <3>3. /\ x = 2 * (x \div 2) + (x % 2) /\ x \div 2 \in Nat /\ x % 2 \in 0 .. 1
          /\ y = 2 * (y \div 2) + (y % 2) /\ y \div 2 \in Nat /\ y % 2 \in 0 .. 1
      BY Halves
    <3>4. /\ x \div 2 < TwoTo[k - 1] /\ y \div 2 < TwoTo[j - 1]
          /\ x \div 2 >= TwoTo[k - 1] - TwoTo[j - 1]
      BY <3>2, <3>3
    <3>5. Or[x \div 2][y \div 2] >= TwoTo[k - 1] - TwoTo[j - 1] + (y \div 2)
      <4>1. Fills(j - 1, k - 1, x \div 2, y \div 2)
        <5>1. j - 1 \in S
          BY <1>1, <3>1
        <5> QED  BY <5>1, <3>1, <3>3
      <4> QED  BY <4>1, <3>1, <3>4
    <3>6. Or[x \div 2][y \div 2] \in Nat
      BY Halves, OrUnfolds
    <3>7. AtLeast(x % 2, y % 2) \in 0 .. 1 /\ AtLeast(x % 2, y % 2) >= y % 2
      BY <3>3, BitOps
    <3> HIDE DEF S, Fills
    <3>8. CASE x = 0
      BY <2>1, <3>2, <3>4, <3>8
    <3>9. CASE x # 0
      BY <2>1, <3>2, <3>3, <3>5, <3>6, <3>7, <3>9
    <3> QED  BY <3>8, <3>9
  <2> QED  BY <2>2, <2>3
<1>2. Nat \subseteq S
  <2> HIDE DEF S
  <2> QED  BY <1>1, Induct
<1> QED  BY <1>2

\* A number has all its bits in common with itself.
LEMMA AndSelf == \A x \in Nat : And[x][x] = x
<1> DEFINE S == {x \in Nat : And[x][x] = x}
<1>1. ASSUME NEW x \in Nat, \A m \in 0 .. x - 1 : m \in S PROVE x \in S
  <2>1. And[x][x] = IF x = 0 THEN 0 ELSE 2 * And[x \div 2][x \div 2] + AtMost(x % 2, x % 2)
    BY AndUnfolds
  <2>2. x # 0 => And[x \div 2][x \div 2] = x \div 2
    BY <1>1, Halves
  <2>3. AtMost(x % 2, x % 2) = x % 2
    BY Halves, BitOps
  <2>4. x = 2 * (x \div 2) + (x % 2) /\ x \div 2 \in Nat /\ x % 2 \in 0 .. 1
    BY Halves
  <2>5. And[x][x] = x
    BY <2>1, <2>2, <2>3, <2>4
  <2> QED  BY <2>5
<1>2. Nat \subseteq S
  <2> HIDE DEF S
  <2> QED  BY <1>1, Induct
<1> QED  BY <1>2

\* A number and its predecessor share a bit, unless it is a power of two.
LEMMA AndOfPredecessor == \A c \in Nat \ {0} : And[c][c - 1] = 0 => \E k \in Nat : c = TwoTo[k]
<1> DEFINE Claim(c) == And[c][c - 1] = 0 => \E k \in Nat : c = TwoTo[k]
           S == {c \in Nat : c # 0 => Claim(c)}
<1>1. ASSUME NEW c \in Nat, \A m \in 0 .. c - 1 : m \in S PROVE c \in S
  <2> SUFFICES ASSUME c # 0, And[c][c - 1] = 0 PROVE \E k \in Nat : c = TwoTo[k]
    OBVIOUS
  <2>1. c - 1 \in Nat
    OBVIOUS
  <2>2. And[c][c - 1] = 2 * And[c \div 2][(c - 1) \div 2] + AtMost(c % 2, (c - 1) % 2)
    BY <2>1, AndUnfolds
  <2>3. /\ c = 2 * (c \div 2) + (c % 2) /\ c \div 2 \in Nat /\ c % 2 \in 0 .. 1
        /\ c - 1 = 2 * ((c - 1) \div 2) + ((c - 1) % 2) /\ (c - 1) \div 2 \in Nat /\ (c - 1) % 2 \in 0 .. 1
    BY <2>1, Halves
  <2>4. And[c \div 2][(c - 1) \div 2] \in Nat /\ AtMost(c % 2, (c - 1) % 2) \in 0 .. 1
    BY <2>3, AndUnfolds, BitOps
  <2>5. And[c \div 2][(c - 1) \div 2] = 0
    BY <2>2, <2>4
  <2>6. CASE c % 2 = 1
    <3>1. (c - 1) \div 2 = c \div 2
      <4> HIDE DEF S, Claim
      <4>1. PICK h \in Nat, g \in Nat, p \in 0 .. 1 : h = c \div 2 /\ g = (c - 1) \div 2 /\ p = (c - 1) % 2
        BY <2>3
      <4>2. c = 2 * h + 1 /\ c - 1 = 2 * g + p
        BY <2>3, <2>6, <4>1
      <4>3. g = h
        BY <4>2
      <4> QED  BY <4>1, <4>3
    <3>2. c \div 2 = 0
      BY <2>3, <2>5, <3>1, AndSelf
    <3>3. c = TwoTo[0] /\ 0 \in Nat
      BY <2>3, <2>6, <3>2, TwoToUnfolds
    <3> QED  BY <3>3
  <2>7. CASE c % 2 = 0
    <3>1. (c - 1) \div 2 = (c \div 2) - 1 /\ c \div 2 # 0 /\ c \div 2 \in 0 .. c - 1
      <4> HIDE DEF S, Claim
      <4>1. PICK h \in Nat, g \in Nat, p \in 0 .. 1 : h = c \div 2 /\ g = (c - 1) \div 2 /\ p = (c - 1) % 2
        BY <2>3
      <4>2. c = 2 * h /\ c - 1 = 2 * g + p
        BY <2>3, <2>7, <4>1
      <4>3. g = h - 1 /\ h # 0 /\ h \in 0 .. c - 1
        BY <4>2
      <4> QED  BY <4>1, <4>3
    <3>2. Claim(c \div 2)
      BY <1>1, <2>3, <3>1
    <3>3. PICK k \in Nat : c \div 2 = TwoTo[k]
      BY <2>5, <3>1, <3>2
    <3>4. c = 2 * TwoTo[k] /\ k + 1 \in Nat
      BY <2>3, <2>7, <3>3, TwoToUnfolds
    <3>5. c = TwoTo[k + 1]
      BY <3>4, TwoToUnfolds
    <3> QED  BY <3>4, <3>5
  <2> QED  BY <2>3, <2>6, <2>7
<1>2. Nat \subseteq S
  <2> HIDE DEF S
  <2> QED  BY <1>1, Induct
<1> QED  BY <1>2

-----------------------------------------------------------------------------
(* Powers of two *)

\* They grow,
LEMMA TwoToGrows == \A j, i \in Nat : i <= j => TwoTo[i] <= TwoTo[j]
<1> DEFINE S == {j \in Nat : \A i \in Nat : i <= j => TwoTo[i] <= TwoTo[j]}
<1>1. ASSUME NEW j \in Nat, \A m \in 0 .. j - 1 : m \in S PROVE j \in S
  <2> SUFFICES ASSUME NEW i \in Nat, i <= j PROVE TwoTo[i] <= TwoTo[j]
    OBVIOUS
  <2>1. CASE i = j
    BY <2>1, TwoToUnfolds
  <2>2. CASE i # j
    <3>1. j - 1 \in 0 .. j - 1 /\ i <= j - 1 /\ (j - 1) + 1 = j /\ j - 1 \in Nat
      BY <2>2
    <3>2. TwoTo[i] <= TwoTo[j - 1]
      BY <1>1, <3>1
    <3>3. TwoTo[j] = 2 * TwoTo[j - 1] /\ TwoTo[j - 1] \in Nat /\ TwoTo[i] \in Nat
      BY <3>1, TwoToUnfolds
    <3> HIDE DEF S
    <3> QED  BY <3>2, <3>3
  <2> QED  BY <2>1, <2>2
<1>2. Nat \subseteq S
  <2> HIDE DEF S
  <2> QED  BY <1>1, Induct
<1> QED  BY <1>2

\* strictly,
LEMMA TwoToOrder == \A i, j \in Nat : TwoTo[i] < TwoTo[j] => i < j
  BY TwoToGrows, TwoToUnfolds

\* and the product of two is a third.
LEMMA TwoToAdds == \A j, i \in Nat : TwoTo[i + j] = TwoTo[i] * TwoTo[j]
<1> DEFINE S == {j \in Nat : \A i \in Nat : TwoTo[i + j] = TwoTo[i] * TwoTo[j]}
<1>1. ASSUME NEW j \in Nat, \A m \in 0 .. j - 1 : m \in S PROVE j \in S
  <2> SUFFICES ASSUME NEW i \in Nat PROVE TwoTo[i + j] = TwoTo[i] * TwoTo[j]
    OBVIOUS
  <2>1. CASE j = 0
    BY <2>1, TwoToUnfolds
  <2>2. CASE j # 0
    <3>1. /\ j - 1 \in 0 .. j - 1 /\ (j - 1) + 1 = j /\ j - 1 \in Nat
          /\ i + (j - 1) \in Nat /\ (i + (j - 1)) + 1 = i + j
      BY <2>2
    <3>2. TwoTo[i + (j - 1)] = TwoTo[i] * TwoTo[j - 1]
      BY <1>1, <3>1
    <3>3. TwoTo[j] = 2 * TwoTo[j - 1] /\ TwoTo[i + j] = 2 * TwoTo[i + (j - 1)]
      BY <3>1, TwoToUnfolds
    <3>4. PICK a \in Nat, b \in Nat : a = TwoTo[i] /\ b = TwoTo[j - 1]
      BY <3>1, TwoToUnfolds
    <3>5. a * (2 * b) = 2 * (a * b)
      OBVIOUS
    <3> HIDE DEF S
    <3> QED  BY <3>2, <3>3, <3>4, <3>5
  <2> QED  BY <2>1, <2>2
<1>2. Nat \subseteq S
  <2> HIDE DEF S
  <2> QED  BY <1>1, Induct
<1> QED  BY <1>2

\* The first of them.
LEMMA TwoToLiterals ==
    /\ TwoTo[1] = 2 /\ TwoTo[2] = 4 /\ TwoTo[4] = 16 /\ TwoTo[8] = 256 /\ TwoTo[10] = 1024
    /\ TwoTo[16] = 65536 /\ TwoTo[30] = 1073741824
<1>1. TwoTo[1] = 2 /\ TwoTo[2] = 4
  <2>1. TwoTo[0 + 1] = 2 * TwoTo[0] /\ TwoTo[1 + 1] = 2 * TwoTo[1]
    BY TwoToUnfolds
  <2> QED  BY <2>1, TwoToUnfolds
<1>2. TwoTo[4] = 16
  <2>1. TwoTo[2 + 2] = TwoTo[2] * TwoTo[2]
    BY TwoToAdds
  <2> QED  BY <1>1, <2>1
<1>3. TwoTo[8] = 256
  <2>1. TwoTo[4 + 4] = TwoTo[4] * TwoTo[4]
    BY TwoToAdds
  <2> QED  BY <1>2, <2>1
<1>4. TwoTo[16] = 65536
  <2>1. TwoTo[8 + 8] = TwoTo[8] * TwoTo[8]
    BY TwoToAdds
  <2> QED  BY <1>3, <2>1
<1>5. TwoTo[10] = 1024
  <2>1. TwoTo[8 + 2] = TwoTo[8] * TwoTo[2]
    BY TwoToAdds
  <2> QED  BY <1>1, <1>3, <2>1
<1>6. TwoTo[30] = 1073741824
  <2>1. TwoTo[10 + 10] = TwoTo[10] * TwoTo[10] /\ TwoTo[20 + 10] = TwoTo[20] * TwoTo[10]
    BY TwoToAdds
  <2> QED  BY <1>5, <2>1
<1> QED  BY <1>1, <1>2, <1>3, <1>4, <1>5, <1>6

\* Up to 30 they are what the exponential is.
LEMMA TwoToIsPower == \A i \in 0 .. 30 : TwoTo[i] = 2^i
<1>1. \A i \in Nat : TwoTo[i + 1] = 2 * TwoTo[i]
  BY TwoToUnfolds
<1>2. /\ TwoTo[0] = 2^0 /\ TwoTo[1] = 2^1 /\ TwoTo[2] = 2^2 /\ TwoTo[3] = 2^3 /\ TwoTo[4] = 2^4
      /\ TwoTo[5] = 2^5 /\ TwoTo[6] = 2^6 /\ TwoTo[7] = 2^7 /\ TwoTo[8] = 2^8 /\ TwoTo[9] = 2^9
  <2>1. /\ TwoTo[0 + 1] = 2 * TwoTo[0] /\ TwoTo[1 + 1] = 2 * TwoTo[1] /\ TwoTo[2 + 1] = 2 * TwoTo[2]
        /\ TwoTo[3 + 1] = 2 * TwoTo[3] /\ TwoTo[4 + 1] = 2 * TwoTo[4] /\ TwoTo[5 + 1] = 2 * TwoTo[5]
        /\ TwoTo[6 + 1] = 2 * TwoTo[6] /\ TwoTo[7 + 1] = 2 * TwoTo[7] /\ TwoTo[8 + 1] = 2 * TwoTo[8]
    BY <1>1
  <2> QED  BY <2>1, TwoToUnfolds
<1>3. /\ TwoTo[10] = 2^10 /\ TwoTo[11] = 2^11 /\ TwoTo[12] = 2^12 /\ TwoTo[13] = 2^13 /\ TwoTo[14] = 2^14
      /\ TwoTo[15] = 2^15 /\ TwoTo[16] = 2^16 /\ TwoTo[17] = 2^17 /\ TwoTo[18] = 2^18 /\ TwoTo[19] = 2^19
      /\ TwoTo[20] = 2^20
  <2>1. /\ TwoTo[9 + 1] = 2 * TwoTo[9] /\ TwoTo[10 + 1] = 2 * TwoTo[10] /\ TwoTo[11 + 1] = 2 * TwoTo[11]
        /\ TwoTo[12 + 1] = 2 * TwoTo[12] /\ TwoTo[13 + 1] = 2 * TwoTo[13] /\ TwoTo[14 + 1] = 2 * TwoTo[14]
        /\ TwoTo[15 + 1] = 2 * TwoTo[15] /\ TwoTo[16 + 1] = 2 * TwoTo[16] /\ TwoTo[17 + 1] = 2 * TwoTo[17]
        /\ TwoTo[18 + 1] = 2 * TwoTo[18] /\ TwoTo[19 + 1] = 2 * TwoTo[19]
    BY <1>1
  <2> QED  BY <1>2, <2>1
<1>4. /\ TwoTo[21] = 2^21 /\ TwoTo[22] = 2^22 /\ TwoTo[23] = 2^23 /\ TwoTo[24] = 2^24 /\ TwoTo[25] = 2^25
      /\ TwoTo[26] = 2^26 /\ TwoTo[27] = 2^27 /\ TwoTo[28] = 2^28 /\ TwoTo[29] = 2^29 /\ TwoTo[30] = 2^30
  <2>1. /\ TwoTo[20 + 1] = 2 * TwoTo[20] /\ TwoTo[21 + 1] = 2 * TwoTo[21] /\ TwoTo[22 + 1] = 2 * TwoTo[22]
        /\ TwoTo[23 + 1] = 2 * TwoTo[23] /\ TwoTo[24 + 1] = 2 * TwoTo[24] /\ TwoTo[25 + 1] = 2 * TwoTo[25]
        /\ TwoTo[26 + 1] = 2 * TwoTo[26] /\ TwoTo[27 + 1] = 2 * TwoTo[27] /\ TwoTo[28 + 1] = 2 * TwoTo[28]
        /\ TwoTo[29 + 1] = 2 * TwoTo[29]
    BY <1>1
  <2> QED  BY <1>3, <2>1
<1>5. ASSUME NEW i \in 0 .. 9 PROVE TwoTo[i] = 2^i
  <2>1. i = 0 \/ i = 1 \/ i = 2 \/ i = 3 \/ i = 4 \/ i = 5 \/ i = 6 \/ i = 7 \/ i = 8 \/ i = 9
    OBVIOUS
  <2> QED  BY <1>2, <2>1, Zenon
<1>6. ASSUME NEW i \in 10 .. 20 PROVE TwoTo[i] = 2^i
  <2>1. \/ i = 10 \/ i = 11 \/ i = 12 \/ i = 13 \/ i = 14 \/ i = 15
        \/ i = 16 \/ i = 17 \/ i = 18 \/ i = 19 \/ i = 20
    OBVIOUS
  <2> QED  BY <1>3, <2>1, Zenon
<1>7. ASSUME NEW i \in 21 .. 30 PROVE TwoTo[i] = 2^i
  <2>1. \/ i = 21 \/ i = 22 \/ i = 23 \/ i = 24 \/ i = 25
        \/ i = 26 \/ i = 27 \/ i = 28 \/ i = 29 \/ i = 30
    OBVIOUS
  <2> QED  BY <1>4, <2>1, Zenon
<1>8. \A i \in 0 .. 30 : i \in 0 .. 9 \/ i \in 10 .. 20 \/ i \in 21 .. 30
  OBVIOUS
<1> QED  BY <1>5, <1>6, <1>7, <1>8, Zenon

\* Every number but 0 lies between two neighbours.
LEMMA TwoToAround == \A x \in Nat \ {0} : \E k \in Nat : TwoTo[k] <= x /\ x < TwoTo[k + 1]
<1> DEFINE S == {x \in Nat : x # 0 => \E k \in Nat : TwoTo[k] <= x /\ x < TwoTo[k + 1]}
<1>1. ASSUME NEW x \in Nat, \A m \in 0 .. x - 1 : m \in S PROVE x \in S
  <2> SUFFICES ASSUME x # 0 PROVE \E k \in Nat : TwoTo[k] <= x /\ x < TwoTo[k + 1]
    OBVIOUS
  <2>0. x = 2 * (x \div 2) + (x % 2) /\ x \div 2 \in Nat /\ x % 2 \in 0 .. 1 /\ x \div 2 \in 0 .. x - 1
    BY Halves
  <2>1. CASE x \div 2 = 0
    <3>1. x = 1 /\ TwoTo[0] = 1 /\ TwoTo[0 + 1] = 2 /\ 0 \in Nat
      BY <2>0, <2>1, TwoToUnfolds
    <3>2. TwoTo[0] <= x /\ x < TwoTo[0 + 1]
      BY <3>1
    <3> QED  BY <3>2
  <2>2. CASE x \div 2 # 0
    <3>1. PICK k \in Nat : TwoTo[k] <= x \div 2 /\ x \div 2 < TwoTo[k + 1]
      BY <1>1, <2>0, <2>2
    <3>2. TwoTo[k + 1] = 2 * TwoTo[k] /\ TwoTo[k + 1 + 1] = 2 * TwoTo[k + 1] /\ TwoTo[k] \in Nat /\ TwoTo[k + 1] \in Nat
      BY TwoToUnfolds
    <3>3. TwoTo[k + 1] <= x /\ x < TwoTo[k + 1 + 1] /\ k + 1 \in Nat
      <4> HIDE DEF S
      <4> QED  BY <2>0, <3>1, <3>2
    <3> QED  BY <3>3
  <2> QED  BY <2>1, <2>2
<1>2. Nat \subseteq S
  <2> HIDE DEF S
  <2> QED  BY <1>1, Induct
<1> QED  BY <1>2

-----------------------------------------------------------------------------
(* RoundUp *)

\* A quotient lies where multiples of the divisor put it.
LEMMA Quotient ==
    ASSUME NEW x \in Nat, NEW d \in Nat \ {0}
    PROVE  /\ x \div d \in Nat /\ x \div d <= x
           /\ \A q \in Int : (d * q <= x => q <= x \div d) /\ (x < d * q => x \div d < q)
<1>1. PICK h \in Int, r \in 0 .. d - 1 : h = x \div d /\ x = d * h + r
  <2>1. x \div d \in Int /\ x % d \in 0 .. d - 1 /\ x = d * (x \div d) + (x % d)
    OBVIOUS
  <2> QED  BY <2>1
<1>2. h \in Nat
  <2>1. SUFFICES ASSUME h <= -1 PROVE FALSE
    BY <1>1
  <2>2. d * h <= d * (-1)
    BY <2>1
  <2> QED  BY <1>1, <2>2
<1>3. h <= x
  <2>1. d * h >= h
    BY <1>2
  <2> QED  BY <1>1, <2>1
<1>4. ASSUME NEW q \in Int, d * q <= x PROVE q <= h
  <2>1. SUFFICES ASSUME h + 1 <= q PROVE FALSE
    BY <1>1
  <2>2. d * (h + 1) <= d * q /\ d * (h + 1) = d * h + d
    BY <2>1
  <2> QED  BY <1>1, <1>4, <2>2
<1>5. ASSUME NEW q \in Int, x < d * q PROVE h < q
  <2>1. SUFFICES ASSUME q <= h PROVE FALSE
    BY <1>1
  <2>2. d * q <= d * h
    BY <2>1
  <2> QED  BY <1>1, <1>5, <2>2
<1>6. \A q \in Int : (d * q <= x => q <= h) /\ (x < d * q => h < q)
  BY <1>4, <1>5
<1> QED  BY <1>1, <1>2, <1>3, <1>6, Zenon

\* Where m upper bits of a number are set (those from j up to k), a shift by m sets the
\* next m of them; where all are, it keeps them.
LEMMA SmearFills ==
    ASSUME NEW k \in Nat, NEW j \in Nat, NEW m \in 0 .. 30, NEW x \in Nat,
           j <= k, x < TwoTo[k], x >= TwoTo[k] - TwoTo[j], k = j + m \/ j = 0
    PROVE  /\ Smear(x, m) \in Nat /\ Smear(x, m) < TwoTo[k]
           /\ \A i \in Nat : (i = j - m \/ (j <= m /\ i = 0)) => Smear(x, m) >= TwoTo[k] - TwoTo[i]
<1>0. m \in Nat
  OBVIOUS
<1>1. PICK d \in Nat \ {0} : d = TwoTo[m] /\ d = 2^m
  <2>1. TwoTo[m] = 2^m
    BY TwoToIsPower, Zenon
  <2>2. TwoTo[m] \in Nat \ {0}
    BY <1>0, TwoToUnfolds
  <2> QED  BY <2>1, <2>2, Zenon
<1>2. PICK y \in Nat : y = x \div d /\ y <= x
  BY Quotient
<1>3. Smear(x, m) = Or[x][y]
  BY <1>1, <1>2 DEF Smear
<1>4. Or[x][y] \in Nat /\ Or[x][y] < TwoTo[k] /\ Or[x][y] >= x
  <2>1. y < TwoTo[k]
    BY <1>2, TwoToUnfolds
  <2> QED  BY <2>1, OrAbove, OrBelow, OrUnfolds
<1>5. \A q \in Int : (d * q <= x => q <= y) /\ (x < d * q => y < q)
  BY <1>2, Quotient, Zenon
<1>6. ASSUME NEW i \in Nat, i = j - m \/ (j <= m /\ i = 0)
      PROVE  Or[x][y] >= TwoTo[k] - TwoTo[i]
  <2>1. CASE j = 0
    <3>1. i = 0
      BY <1>6, <2>1
    <3> QED  BY <1>4, <2>1, <3>1, TwoToUnfolds
  <2>2. CASE j # 0
    <3>1. k = j + m
      BY <2>2
    <3>2. TwoTo[k] = TwoTo[j] * d
      BY <1>0, <1>1, <3>1, TwoToAdds
    <3>3. PICK b \in Nat \ {0}, c \in Nat \ {0} : b = TwoTo[j] /\ c = TwoTo[i]
      BY TwoToUnfolds
    <3>4. TwoTo[k] = d * b
      <4>1. TwoTo[k] = b * d
        BY <3>2, <3>3, Zenon
      <4>2. b * d = d * b
        OBVIOUS
      <4> QED  BY <4>1, <4>2, Zenon
    <3>5. y < b
      <4>1. x < d * b /\ b \in Int
        BY <3>4
      <4> QED  BY <1>5, <4>1, Zenon
    <3>6. b - c <= y
      <4>1. d * (b - c) <= x
        <5>1. d * (b - c) = d * b - d * c
          BY <3>3
        <5>2. d * c >= b
          <6>1. CASE i = j - m
            <7>1. TwoTo[i + m] = TwoTo[i] * TwoTo[m] /\ i + m = j
              BY <1>0, <6>1, TwoToAdds
            <7> QED  BY <1>1, <3>3, <7>1
          <6>2. CASE j <= m /\ i = 0
            <7>1. c = 1 /\ b <= d
              BY <1>0, <1>1, <3>3, <6>2, TwoToGrows, TwoToUnfolds
            <7> QED  BY <7>1
          <6> QED  BY <1>6, <6>1, <6>2
        <5>3. x >= d * b - b
          BY <3>3, <3>4
        <5>4. PICK p \in Int, q \in Int : p = d * b /\ q = d * c
          OBVIOUS
        <5> QED  BY <5>1, <5>2, <5>3, <5>4
      <4>2. b - c \in Int
        BY <3>3
      <4> QED  BY <1>5, <4>1, <4>2, Zenon
    <3>7. Or[x][y] >= TwoTo[k] - TwoTo[j] + y
      BY <3>3, <3>5, OrFills
    <3>8. TwoTo[k] \in Nat
      BY TwoToUnfolds
    <3> QED  BY <1>4, <3>3, <3>6, <3>7, <3>8
  <2> QED  BY <2>1, <2>2
<1> QED  BY <1>3, <1>4, <1>6

\* RoundUp returns the first power of two that is not smaller.
LEMMA RoundUpIs ==
    ASSUME NEW c \in Nat \ {0}, c <= 2^30
    PROVE  \E k \in 0 .. 30 : RoundUp(c) = TwoTo[k] /\ c <= RoundUp(c) /\ RoundUp(c) < 2 * c
<1>0. c <= TwoTo[30]
  BY TwoToIsPower
<1>1. ASSUME NEW k \in Nat, RoundUp(c) = TwoTo[k], c <= TwoTo[k], TwoTo[k] < 2 * c
      PROVE  k \in 0 .. 30
  <2>1. TwoTo[k] < TwoTo[30 + 1]
    BY <1>0, <1>1, TwoToUnfolds
  <2>2. k < 30 + 1
    BY <2>1, TwoToOrder
  <2> QED  BY <2>2
<1>2. CASE And[c][c - 1] = 0
  <2>1. PICK k \in Nat : c = TwoTo[k]
    BY <1>2, AndOfPredecessor
  <2>2. RoundUp(c) = TwoTo[k] /\ c <= TwoTo[k] /\ TwoTo[k] < 2 * c
    BY <1>2, <2>1 DEF RoundUp
  <2> QED  BY <1>1, <2>2
<1>3. CASE And[c][c - 1] # 0
  <2>1. c - 1 \in Nat \ {0}
    <3>1. c # 1
      <4>1. SUFFICES ASSUME c = 1 PROVE FALSE
        OBVIOUS
      <4>2. And[1][0] = 2 * And[1 \div 2][0 \div 2] + AtMost(1 % 2, 0 % 2)
        BY AndUnfolds
      <4>3. 1 \div 2 = 0 /\ 0 \div 2 = 0 /\ 1 % 2 = 1 /\ 0 % 2 = 0
        OBVIOUS
      <4>4. And[0][0] = 0
        BY AndSelf
      <4>5. AtMost(1, 0) = 0
        BY DEF AtMost
      <4>6. c - 1 = 0
        BY <4>1
      <4> QED  BY <1>3, <4>1, <4>2, <4>3, <4>4, <4>5, <4>6
    <3> QED  BY <3>1
  <2>2. PICK j \in Nat : TwoTo[j] <= c - 1 /\ c - 1 < TwoTo[j + 1]
    BY <2>1, TwoToAround
  <2>3. PICK k \in Nat : k = j + 1
    OBVIOUS
  <2>4. TwoTo[k] = 2 * TwoTo[j] /\ TwoTo[j] \in Nat
    BY <2>3, TwoToUnfolds
  <2>5. k \in 1 .. 30 /\ j = k - 1
    <3>1. TwoTo[j] < TwoTo[30]
      BY <1>0, <2>1, <2>2, <2>4, TwoToUnfolds
    <3> QED  BY <2>3, <3>1, TwoToOrder
  <2> DEFINE Bits(x, i) == x \in Nat /\ x < TwoTo[k] /\ x >= TwoTo[k] - TwoTo[i]
             Left(n) == IF k > n THEN k - n ELSE 0
  <2>6. Bits(c - 1, Left(1))
    <3>1. Left(1) = j
      BY <2>5, TwoToUnfolds
    <3> QED  BY <2>1, <2>2, <2>3, <2>4, <3>1
  <2>7. ASSUME NEW x, NEW m \in 1 .. 16, Bits(x, Left(m)) PROVE Bits(Smear(x, m), Left(2 * m))
    <3>1. /\ Left(m) \in Nat /\ Left(m) <= k /\ (k = Left(m) + m \/ Left(m) = 0)
          /\ Left(2 * m) \in Nat /\ m \in 0 .. 30
          /\ Left(2 * m) = Left(m) - m \/ (Left(m) <= m /\ Left(2 * m) = 0)
      BY <2>5
    <3>2. x \in Nat /\ x < TwoTo[k] /\ x >= TwoTo[k] - TwoTo[Left(m)]
      BY <2>7
    <3> HIDE DEF Left
    <3> QED  BY <3>1, <3>2, SmearFills
  <2> DEFINE s1 == Smear(c - 1, 1)  s2 == Smear(s1, 2)  s3 == Smear(s2, 4)
             s4 == Smear(s3, 8)  s5 == Smear(s4, 16)
  <2>8. RoundUp(c) = s5 + 1
    BY <1>3 DEF RoundUp
  <2>9. Bits(s5, Left(32))
    <3> HIDE DEF Bits, Left
    <3>1. Bits(s1, Left(2))
      <4>1. Bits(s1, Left(2 * 1))
        BY <2>6, <2>7
      <4> QED  BY <4>1
    <3> HIDE DEF s1
    <3>2. Bits(s2, Left(4))
      <4>1. Bits(s2, Left(2 * 2))
        BY <2>7, <3>1
      <4> QED  BY <4>1
    <3> HIDE DEF s2
    <3>3. Bits(s3, Left(8))
      <4>1. Bits(s3, Left(2 * 4))
        BY <2>7, <3>2
      <4> QED  BY <4>1
    <3> HIDE DEF s3
    <3>4. Bits(s4, Left(16))
      <4>1. Bits(s4, Left(2 * 8))
        BY <2>7, <3>3
      <4> QED  BY <4>1
    <3> HIDE DEF s4
    <3>5. Bits(s5, Left(2 * 16))
      BY <2>7, <3>4
    <3> QED  BY <3>5
  <2>10. RoundUp(c) = TwoTo[k]
    <3>1. Left(32) = 0 /\ TwoTo[0] = 1
      BY <2>5, TwoToUnfolds
    <3> HIDE DEF Left, s5
    <3> QED  BY <2>4, <2>8, <2>9, <3>1
  <2>11. c <= TwoTo[k] /\ TwoTo[k] < 2 * c
    BY <2>2, <2>3, <2>4
  <2> QED  BY <1>1, <2>10, <2>11
<1> QED  BY <1>2, <1>3

\* AtLeast and AtMost on numbers.
LEMMA Bounds ==
    ASSUME NEW a \in Int, NEW b \in Int
    PROVE  /\ AtLeast(a, b) \in Int /\ AtLeast(a, b) >= a /\ AtLeast(a, b) >= b
           /\ AtLeast(a, b) = a \/ AtLeast(a, b) = b
           /\ AtMost(a, b) \in Int /\ AtMost(a, b) <= a /\ AtMost(a, b) <= b
           /\ AtMost(a, b) = a \/ AtMost(a, b) = b
  BY DEF AtLeast, AtMost

-----------------------------------------------------------------------------
(* CapacityFits *)

\* What NewFromConfig passes on.
LEMMA RequestedType ==
    ASSUME NEW size \in BufferSizes, NEW prealloc \in BOOLEAN
    PROVE  Requested(size, prealloc) \in 1 .. 2^29
<1>1. size \in 0 .. 2^28
  BY SizeAssumption
<1>2. 2^29 = 2 * 2^28 /\ 2^28 \in Nat /\ 2^28 >= 10000
  BY SMT
<1> QED  BY <1>1, <1>2, SMT DEF Requested

\* The number of shards.
LEMMA WorkersType ==
    ASSUME NEW cpus \in Cpus, NEW multiplier \in Multipliers, NEW lockFree \in BOOLEAN
    PROVE  Workers(cpus, multiplier, lockFree) \in 1 .. 32
<1>1. PICK p \in Int : p = cpus * (IF multiplier <= 0 THEN 1 ELSE multiplier)
  BY CpuAssumption, MultiplierAssumption
<1> DEFINE n == AtMost(AtLeast(p, 1), 32)
<1>2. n \in 1 .. 32
  <2>1. PICK a \in Int : a = AtLeast(p, 1) /\ a >= 1
    BY Bounds
  <2>2. AtMost(a, 32) \in 1 .. 32
    BY <2>1 DEF AtMost
  <2> QED  BY <2>1, <2>2
<1>3. AtLeast(n, 4) \in 1 .. 32
  <2> HIDE DEF n
  <2> QED  BY <1>2 DEF AtLeast
<1>4. Workers(cpus, multiplier, lockFree) = IF lockFree THEN AtLeast(n, 4) ELSE n
  BY <1>1 DEF Workers
<1> HIDE DEF n
<1> QED  BY <1>2, <1>3, <1>4

\* A power of two from 256 on is a multiple of 256.
LEMMA TwoToMultiple ==
    ASSUME NEW k \in Nat, TwoTo[k] >= 256
    PROVE  \E q \in Nat : TwoTo[k] = 256 * q
<1>1. k >= 8
  <2>1. SUFFICES ASSUME k < 8 PROVE FALSE
    OBVIOUS
  <2>2. TwoTo[k + 1] <= TwoTo[8] /\ TwoTo[k + 1] = 2 * TwoTo[k]
    BY <2>1, TwoToGrows, TwoToUnfolds
  <2> QED  BY <2>2, TwoToLiterals, TwoToUnfolds
<1>2. k - 8 \in Nat /\ (k - 8) + 8 = k
  BY <1>1
<1>3. TwoTo[k] = TwoTo[k - 8] * 256 /\ TwoTo[k - 8] \in Nat
  <2>1. TwoTo[(k - 8) + 8] = TwoTo[k - 8] * TwoTo[8]
    BY <1>2, TwoToAdds
  <2> QED  BY <1>2, <2>1, TwoToLiterals, TwoToUnfolds
<1> QED  BY <1>3

\* CapacityFits, of a ring's numbers.
Fits(asked, shards, slots) ==
    /\ PowerOfTwo(slots) /\ slots >= 256
    /\ shards * slots >= AtLeast(asked, 1024)
    /\ shards * slots < 4 * AtLeast(asked, 1024) \/ slots = 256

\* It is what Fits says of the ring.
LEMMA CapacityFitsIs == CapacityFits <=> Fits(ring.asked, ring.shards, ring.slots)
  BY DEF CapacityFits, Total, Fits

\* The shards of a ring hold what was asked for.
LEMMA PerShardFits ==
    ASSUME NEW asked \in 1 .. 2^29, NEW shards \in 1 .. 32
    PROVE  LET slots == PerShard(asked, shards)
           IN  slots \in Nat /\ Fits(asked, shards, slots)
<1>0. 2^30 = 2 * 2^29 /\ 2^29 \in Nat /\ 2^29 >= 1024
  BY SMT
<1>1. PICK a \in Nat : a = AtLeast(asked, 1024) /\ a >= 1024 /\ a <= 2^29
  BY <1>0, SMT DEF AtLeast
<1>2. PICK i \in 0 .. 30 : RoundUp(a) = TwoTo[i] /\ a <= RoundUp(a) /\ RoundUp(a) < 2 * a
  <2>1. a \in Nat \ {0} /\ a <= 2^30
    BY <1>0, <1>1, SMT
  <2> QED  BY <2>1, RoundUpIs
<1>3. PICK c \in Nat : c = RoundUp(a) /\ c = TwoTo[i] /\ a <= c /\ c < 2 * a
  BY <1>2, TwoToUnfolds
<1>4. AtLeast(shards, 1) = shards
  BY DEF AtLeast
<1>5. PICK h \in Nat : /\ h = c \div shards /\ h <= c
                       /\ \A q \in Int : (shards * q <= c => q <= h) /\ (c < shards * q => h < q)
  BY Quotient
<1>6. PICK d \in Nat : d = AtLeast(h, 256) /\ d >= 256 /\ d >= h /\ (d = h \/ d = 256) /\ d <= c
  <2>1. h <= c /\ 256 <= c
    BY <1>1, <1>3, <1>5
  <2> QED  BY <2>1 DEF AtLeast
<1>7. PICK j \in 0 .. 30 : RoundUp(d) = TwoTo[j] /\ d <= RoundUp(d) /\ RoundUp(d) < 2 * d
  <2>1. d <= 2^30 /\ d \in Nat \ {0}
    BY <1>0, <1>1, <1>3, <1>6, SMT
  <2> QED  BY <2>1, RoundUpIs
<1>8. PICK s \in Nat : s = RoundUp(d) /\ s = TwoTo[j] /\ d <= s /\ s < 2 * d
  BY <1>7, TwoToUnfolds
<1>9. PerShard(asked, shards) = s
  BY <1>1, <1>3, <1>4, <1>5, <1>6, <1>8, SMT DEF PerShard
<1>10. PowerOfTwo(s) /\ s >= 256
  <2>1. s = 2^j
    BY <1>8, TwoToIsPower
  <2>2. PowerOfTwo(s)
    BY <2>1, Zenon DEF PowerOfTwo
  <2>3. s >= 256
    BY <1>6, <1>8
  <2> QED  BY <2>2, <2>3
<1>11. shards * s >= a
  <2>1. PICK e \in Nat, q \in Nat : c = 256 * e /\ s = 256 * q
    <3>1. PICK e \in Nat : c = 256 * e
      BY <1>1, <1>3, TwoToMultiple
    <3>2. PICK q \in Nat : s = 256 * q
      BY <1>8, <1>10, TwoToMultiple
    <3> QED  BY <3>1, <3>2
  <2>2. c < shards * (s + 1)
    <3>1. SUFFICES ASSUME shards * (s + 1) <= c PROVE FALSE
      OBVIOUS
    <3>2. s + 1 <= h
      BY <1>5, <3>1
    <3> QED  BY <1>6, <1>8, <3>2
  <2>3. PICK p \in Int : p = shards * q
    OBVIOUS
  <2>4. shards * (s + 1) = 256 * p + shards /\ shards * s = 256 * p
    <3>1. shards * s = 256 * (shards * q) /\ shards * (s + 1) = shards * s + shards
      BY <2>1
    <3> QED  BY <2>3, <3>1
  <2>5. 256 * e < 256 * p + 32
    BY <2>1, <2>2, <2>4
  <2>6. e <= p
    BY <2>5
  <2> QED  BY <1>3, <2>1, <2>4, <2>6
<1>12. shards * s < 4 * a \/ s = 256
  <2>1. CASE d = 256
    <3>1. TwoTo[j] < TwoTo[8 + 1] /\ TwoTo[8] < TwoTo[j + 1]
      BY <1>7, <2>1, TwoToLiterals, TwoToUnfolds
    <3>2. j < 8 + 1 /\ 8 < j + 1
      BY <3>1, TwoToOrder
    <3>3. j = 8
      BY <3>2
    <3> QED  BY <1>8, <3>3, TwoToLiterals
  <2>2. CASE d = h /\ d # 256
    <3>1. shards * h <= c
      <4>1. SUFFICES ASSUME c < shards * h PROVE FALSE
        OBVIOUS
      <4> QED  BY <1>5, <4>1
    <3>2. shards * s < shards * (2 * h)
      <4>1. s < 2 * h
        BY <1>8, <2>2
      <4> QED  BY <4>1
    <3>3. shards * (2 * h) = 2 * (shards * h)
      OBVIOUS
    <3>4. PICK p \in Int, q \in Int : p = shards * s /\ q = shards * h
      OBVIOUS
    <3> QED  BY <1>3, <3>1, <3>2, <3>3, <3>4
  <2> QED  BY <1>6, <2>1, <2>2
<1> QED  BY <1>1, <1>9, <1>10, <1>11, <1>12 DEF Fits

\* For every configuration, each shard gets a power of two of slots, and all of them
\* together what was asked for and less than four times that, or the minimum.
THEOREM CapacityCorrect == SizingSpec => []CapacityFits
<1>1. SizingInit => CapacityFits
  <2> SUFFICES ASSUME NEW size \in BufferSizes, NEW prealloc \in BOOLEAN, NEW lockFree \in BOOLEAN,
                      NEW cpus \in Cpus, NEW multiplier \in Multipliers,
                      ring = [asked  |-> Requested(size, prealloc),
                              shards |-> Workers(cpus, multiplier, lockFree),
                              slots  |-> PerShard(Requested(size, prealloc), Workers(cpus, multiplier, lockFree))]
               PROVE  CapacityFits
    BY Zenon DEF SizingInit
  <2>1. PICK asked \in 1 .. 2^29 : asked = Requested(size, prealloc)
    BY RequestedType, Zenon
  <2>2. PICK shards \in 1 .. 32 : shards = Workers(cpus, multiplier, lockFree)
    BY WorkersType, Zenon
  <2>3. PICK slots \in Nat : slots = PerShard(asked, shards) /\ Fits(asked, shards, slots)
    BY PerShardFits, Zenon
  <2>4. ring.asked = asked /\ ring.shards = shards /\ ring.slots = slots
    BY <2>1, <2>2, <2>3
  <2> QED  BY <2>3, <2>4, CapacityFitsIs
<1>2. CapacityFits /\ [UNCHANGED ring]_ring => CapacityFits'
  BY DEF CapacityFits, Total
<1> QED  BY <1>1, <1>2, PTL DEF SizingSpec

-----------------------------------------------------------------------------
(* The mask of an index *)

\* And has no bit that its second argument lacks.
LEMMA AndBelow == \A x, y \in Nat : And[x][y] <= y
<1> DEFINE S == {x \in Nat : \A y \in Nat : And[x][y] <= y}
<1>1. ASSUME NEW x \in Nat, \A m \in 0 .. x - 1 : m \in S PROVE x \in S
  <2> SUFFICES ASSUME NEW y \in Nat PROVE And[x][y] <= y
    OBVIOUS
  <2>1. And[x][y] = IF x = 0 THEN 0 ELSE 2 * And[x \div 2][y \div 2] + AtMost(x % 2, y % 2)
    BY AndUnfolds
  <2>2. x # 0 => And[x \div 2][y \div 2] <= y \div 2
    BY <1>1, Halves
  <2>3. And[x \div 2][y \div 2] \in Nat
    BY Halves, AndUnfolds
  <2>4. AtMost(x % 2, y % 2) \in 0 .. 1 /\ AtMost(x % 2, y % 2) <= y % 2
    BY Halves, BitOps
  <2>5. y = 2 * (y \div 2) + (y % 2) /\ y \div 2 \in Nat /\ y % 2 \in 0 .. 1
    BY Halves
  <2> HIDE DEF S
  <2> QED  BY <2>1, <2>2, <2>3, <2>4, <2>5
<1>2. Nat \subseteq S
  <2> HIDE DEF S
  <2> QED  BY <1>1, Induct
<1> QED  BY <1>2

\* And with a power of two less one leaves the remainder.
LEMMA MaskIs ==
    \A i \in Nat : \A q, r \in Nat : r < TwoTo[i] => And[q * TwoTo[i] + r][TwoTo[i] - 1] = r
<1> DEFINE S == {i \in Nat : \A q, r \in Nat : r < TwoTo[i] => And[q * TwoTo[i] + r][TwoTo[i] - 1] = r}
<1>1. ASSUME NEW i \in Nat, \A m \in 0 .. i - 1 : m \in S PROVE i \in S
  <2> SUFFICES ASSUME NEW q \in Nat, NEW r \in Nat, r < TwoTo[i]
               PROVE  And[q * TwoTo[i] + r][TwoTo[i] - 1] = r
    OBVIOUS
  <2>0. PICK x \in Nat : x = q * TwoTo[i] + r
    <3>1. TwoTo[i] \in Nat
      BY TwoToUnfolds
    <3>2. q * TwoTo[i] \in Nat
      BY <3>1
    <3> QED  BY <3>2
  <2>1. CASE i = 0
    <3>1. r = 0 /\ TwoTo[i] - 1 = 0
      BY <2>1, TwoToUnfolds
    <3>2. And[x][0] <= 0 /\ And[x][0] \in Nat
      BY AndBelow, AndUnfolds
    <3>3. And[x][0] = 0
      BY <3>2
    <3> QED  BY <2>0, <3>1, <3>3
  <2>2. CASE i # 0
    <3>1. i - 1 \in 0 .. i - 1 /\ (i - 1) + 1 = i /\ i - 1 \in Nat
      BY <2>2
    <3>2. PICK t \in Nat \ {0} : t = TwoTo[i - 1] /\ TwoTo[i] = 2 * t
      BY <3>1, TwoToUnfolds
    <3>3. PICK g \in Nat : g = q * t
      OBVIOUS
    <3>4. x = 2 * g + r
      <4>1. q * (2 * t) = 2 * (q * t)
        OBVIOUS
      <4> QED  BY <2>0, <3>2, <3>3, <4>1
    <3>5. r = 2 * (r \div 2) + (r % 2) /\ r \div 2 \in Nat /\ r % 2 \in 0 .. 1
      BY Halves
    <3>6. PICK h \in Nat, p \in 0 .. 1 : h = r \div 2 /\ p = r % 2 /\ r = 2 * h + p /\ h < t
      BY <3>2, <3>5
    <3>7. x \div 2 = g + h /\ x % 2 = p
      <4>1. x = 2 * (x \div 2) + (x % 2) /\ x \div 2 \in Nat /\ x % 2 \in 0 .. 1
        BY Halves
      <4> HIDE DEF S
      <4> QED  BY <3>4, <3>6, <4>1
    <3>8. TwoTo[i] - 1 \in Nat /\ (TwoTo[i] - 1) \div 2 = t - 1 /\ (TwoTo[i] - 1) % 2 = 1
      BY <3>2
    <3>9. And[g + h][t - 1] = h
      BY <1>1, <3>1, <3>2, <3>3, <3>6
    <3>10. And[x][TwoTo[i] - 1] = IF x = 0 THEN 0 ELSE 2 * And[x \div 2][(TwoTo[i] - 1) \div 2] + AtMost(x % 2, (TwoTo[i] - 1) % 2)
      BY <3>8, AndUnfolds
    <3>11. AtMost(p, 1) = p
      BY BitOps
    <3> HIDE DEF S
    <3>12. And[x][TwoTo[i] - 1] = IF x = 0 THEN 0 ELSE 2 * h + p
      BY <3>7, <3>8, <3>9, <3>10, <3>11, Zenon
    <3>13. And[x][TwoTo[i] - 1] = r
      BY <3>4, <3>6, <3>12
    <3> QED  BY <2>0, <3>13
  <2> QED  BY <2>1, <2>2
<1>2. Nat \subseteq S
  <2> HIDE DEF S
  <2> QED  BY <1>1, Induct
<1> QED  BY <1>2

\* If the capacity is a power of two, the index with the mask is Slot.
LEMMA MaskIsSlot ==
    ASSUME PowerOfTwo(Cap)
    PROVE  \A i \in Nat : And[i][Cap - 1] = Slot(i)
<1>1. PICK k \in 0 .. 30 : Cap = TwoTo[k]
  BY TwoToIsPower DEF PowerOfTwo
<1> SUFFICES ASSUME NEW i \in Nat PROVE And[i][Cap - 1] = Slot(i)
  OBVIOUS
<1>2. /\ Cap \in Nat \ {0} /\ i \div Cap \in Int /\ i % Cap \in 0 .. Cap - 1
      /\ i = Cap * (i \div Cap) + (i % Cap)
  BY CapAssumption
<1>3. PICK q \in Nat, r \in Nat : r = Slot(i) /\ r < Cap /\ i = q * Cap + r
  <2>1. PICK q \in Nat : q = i \div Cap
    BY <1>2, Quotient
  <2>2. PICK r \in Nat : r = Slot(i) /\ r < Cap
    BY <1>2 DEF Slot
  <2>3. i = Cap * q + r
    BY <1>2, <2>1, <2>2 DEF Slot
  <2>4. Cap * q = q * Cap
    BY <1>2
  <2>5. i = q * Cap + r
    BY <2>3, <2>4
  <2> QED  BY <2>2, <2>5
<1>4. And[q * TwoTo[k] + r][TwoTo[k] - 1] = r
  <2>1. k \in Nat /\ r < TwoTo[k]
    BY <1>1, <1>3
  <2> QED  BY <2>1, MaskIs, Zenon
<1> QED  BY <1>1, <1>3, <1>4, Zenon

\* The code's index, tail & mask with mask = cap - 1, is the remainder that Slot takes.
MaskIsRemainder == ring.slots = Cap => \A i \in Nat : And[i][Cap - 1] = Slot(i)

\* So it is in a shard of every ring that newShardedRingBuffer makes (logger.go:262, 285, 313).
THEOREM MaskCorrect == SizingSpec => []MaskIsRemainder
<1>1. CapacityFits => MaskIsRemainder
  <2> SUFFICES ASSUME PowerOfTwo(ring.slots), ring.slots = Cap
               PROVE  \A i \in Nat : And[i][Cap - 1] = Slot(i)
    BY DEF CapacityFits, MaskIsRemainder
  <2>1. PowerOfTwo(Cap)
    OBVIOUS
  <2> QED  BY <2>1, MaskIsSlot
<1> QED  BY <1>1, CapacityCorrect, PTL

=============================================================================
