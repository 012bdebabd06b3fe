--------------------------- MODULE SamplingProofs ---------------------------
(***************************************************************************)
(* The sampling counter, for any number of goroutines and any options, and *)
(* for time stamps that come in any order. Its window advances: a goroutine*)
(* that gets as far as the CompareAndSwap read a window that ended before  *)
(* its own time stamp, and it succeeds only if that window is still the    *)
(* current one. It bounds how many records of a window pass for being among*)
(* the first: in one window a goroutine resets the count at most once late *)
(* for it and once for the next, and the last of these comes when nobody   *)
(* is left to count. And it follows the book of windows when records are   *)
(* handled one after the other: every step leaves the counter at the line  *)
(* of the book, or on the way to the next.                                 *)
(***************************************************************************)
EXTENDS Sampling, FiniteSetTheorems, TLAPS

PCs == {"idle", "load", "add", "store", "cas", "decide"}

Step(g) == Begin(g) \/ Load(g) \/ Add(g) \/ Store(g) \/ CompareAndSwap(g) \/ Decide(g)

LEMMA SeqElement == \A S : \A s \in Seq(S) : \A i \in 1 .. Len(s) : s[i] \in S
OBVIOUS

\* The types, and what a goroutine knows of the window it read.
WindowInv ==
    /\ TypeOK
    /\ \A g \in Goroutines : pc[g] \in {"store", "cas"} => resetAfter[g] <= ts[g]

\* The counter and its readers start within their types.
LEMMA WindowInit == Init => WindowInv
<1> SUFFICES ASSUME Init PROVE WindowInv
  OBVIOUS
<1>1. started \in 0 .. MaxRecords /\ 0 \in 0 .. MaxTime
  BY BoundAssumption DEF Init
<1>2. resetAt \in Windows /\ count \in Nat
  BY BoundAssumption, OptionAssumption DEF Init, Windows
<1>3. /\ ts \in [Goroutines -> 0 .. MaxTime]
      /\ resetAfter \in [Goroutines -> Nat]
      /\ got \in [Goroutines -> Nat]
      /\ pc \in [Goroutines -> {"idle", "load", "add", "store", "cas", "decide"}]
  BY <1>1 DEF Init
<1>4. log \in Seq([ts : Nat, window : Nat, number : Nat, kept : BOOLEAN])
  BY SMT DEF Init
<1>5. overlap \in BOOLEAN /\ firsts \in [Windows -> Nat]
  BY DEF Init
<1>6. \A g \in Goroutines : pc[g] \notin {"store", "cas"}
  BY DEF Init
<1>7. TypeOK
  BY <1>1, <1>2, <1>3, <1>4, <1>5, Zenon DEF TypeOK
<1> QED  BY <1>6, <1>7, Zenon DEF WindowInv

\* The types in the form that the proofs use.
LEMMA Types ==
    ASSUME TypeOK
    PROVE  /\ pc \in [Goroutines -> PCs] /\ ts \in [Goroutines -> 0 .. MaxTime]
           /\ resetAfter \in [Goroutines -> Nat] /\ got \in [Goroutines -> Nat]
           /\ resetAt \in Windows /\ count \in Nat /\ firsts \in [Windows -> Nat]
           /\ \A w \in Windows : w \in Nat
           /\ \A g \in Goroutines : ts[g] \in Nat /\ ts[g] + Tick \in Windows
           /\ started \in Nat /\ started <= MaxRecords /\ Len(log) \in Nat /\ overlap \in BOOLEAN
           /\ log \in Seq([ts : Nat, window : Nat, number : Nat, kept : BOOLEAN])
<1>1. \A t \in 0 .. MaxTime : t \in Nat /\ t + Tick \in Windows
  BY BoundAssumption, OptionAssumption DEF Windows
<1>2. \A w \in Windows : w \in Nat
  BY BoundAssumption, OptionAssumption DEF Windows
<1> QED  BY <1>1, <1>2, BoundAssumption DEF TypeOK, PCs

\* A number drawn is counted in a window.
LEMMA DrawsType ==
    ASSUME TypeOK, NEW g \in Goroutines, NEW n \in Nat, NEW w \in Windows, Draws(g, n, w)
    PROVE  got' \in [Goroutines -> Nat] /\ firsts' \in [Windows -> Nat]
<1>1. got' = [got EXCEPT ![g] = n] /\ firsts' = IF n <= Initial THEN [firsts EXCEPT ![w] = @ + 1] ELSE firsts
  BY Zenon DEF Draws
<1>2. got \in [Goroutines -> Nat] /\ firsts \in [Windows -> Nat]
  BY DEF TypeOK
<1>3. [firsts EXCEPT ![w] = @ + 1] \in [Windows -> Nat]
  BY <1>2
<1> QED  BY <1>1, <1>2, <1>3

\* Every step of a goroutine keeps the invariant and does not move the window back.
LEMMA WindowStep ==
    ASSUME WindowInv, NEW g \in Goroutines, Step(g)
    PROVE  WindowInv' /\ resetAt' >= resetAt
<1> USE OptionAssumption, BoundAssumption DEF WindowInv, TypeOK, Goto, counter, locals
<1>1. CASE Begin(g)
  <2>1. started' \in 0 .. MaxRecords
    BY <1>1 DEF Begin
  <2>2. PICK t \in 1 .. MaxTime : ts' = [ts EXCEPT ![g] = t]
    BY <1>1 DEF Begin
  <2>3. t \in 0 .. MaxTime
    OBVIOUS
  <2>4. resetAt \in Nat
    BY DEF Windows
  <2> QED  BY <1>1, <2>1, <2>2, <2>3, <2>4 DEF Begin
<1>2. CASE Load(g)
  <2>1. resetAt \in Nat /\ ts[g] \in Nat
    BY DEF Windows
  <2> QED  BY <1>2, <2>1 DEF Load
<1>3. CASE Add(g)
  <2>1. count' \in Nat /\ resetAt \in Nat /\ UNCHANGED <<resetAt, ts, resetAfter, started, log, overlap>>
    BY <1>3 DEF Add, Windows
  <2>2. got' \in [Goroutines -> Nat] /\ firsts' \in [Windows -> Nat]
    BY <1>3, <2>1, DrawsType DEF Add
  <2>3. pc' = [pc EXCEPT ![g] = "decide"]
    BY <1>3 DEF Add
  <2> QED  BY <2>1, <2>2, <2>3
<1>4. CASE Store(g)
  <2>1. resetAt \in Nat
    BY DEF Windows
  <2> QED  BY <1>4, <2>1 DEF Store
<1>5. CASE CompareAndSwap(g)
  <2>1. resetAfter[g] <= ts[g] /\ ts[g] \in 0 .. MaxTime /\ resetAfter[g] \in Nat /\ resetAt \in Nat
    BY <1>5 DEF CompareAndSwap, Windows
  <2>2. resetAt' \in Windows /\ resetAt' >= resetAt
    <3>1. (resetAt = resetAfter[g] /\ resetAt' = ts[g] + Tick) \/ resetAt' = resetAt
      BY <1>5, Zenon DEF CompareAndSwap
    <3>2. ts[g] + Tick \in Windows /\ ts[g] + Tick >= ts[g]
      BY <2>1 DEF Windows
    <3> QED  BY <2>1, <3>1, <3>2
  <2>3. got' \in [Goroutines -> Nat] /\ firsts' \in [Windows -> Nat]
    <3>1. CASE Draws(g, 1, resetAt')
      BY <2>2, <3>1, DrawsType
    <3>2. CASE UNCHANGED <<got, firsts>>
      BY <3>2
    <3> QED  BY <1>5, <3>1, <3>2, Zenon DEF CompareAndSwap
  <2>4. \E l \in {"decide", "add"} : pc' = [pc EXCEPT ![g] = l]
    BY <1>5, Zenon DEF CompareAndSwap
  <2>5. UNCHANGED <<count, ts, resetAfter, started, log, overlap>>
    BY <1>5 DEF CompareAndSwap
  <2> QED  BY <2>2, <2>3, <2>4, <2>5
<1>6. CASE Decide(g)
  <2>1. [ts |-> ts[g], window |-> resetAt, number |-> got[g], kept |-> Passes(got[g])]
            \in [ts : Nat, window : Nat, number : Nat, kept : BOOLEAN]
    <3>1. Passes(got[g]) \in BOOLEAN
      BY DEF Passes
    <3> QED  BY <3>1 DEF Windows
  <2>2. log' \in Seq([ts : Nat, window : Nat, number : Nat, kept : BOOLEAN])
    BY <1>6, <2>1 DEF Decide
  <2>3. resetAt \in Nat
    BY DEF Windows
  <2> QED  BY <1>6, <2>2, <2>3 DEF Decide
<1> QED  BY <1>1, <1>2, <1>3, <1>4, <1>5, <1>6 DEF Step

\* Every step keeps the invariant and does not move the window back.
LEMMA WindowNext == WindowInv /\ [Next]_vars => WindowInv' /\ resetAt' >= resetAt
<1>1. ASSUME WindowInv, UNCHANGED vars PROVE WindowInv' /\ resetAt' >= resetAt
  <2>1. resetAt \in Nat
    BY <1>1, Types DEF WindowInv
  <2> QED  BY <1>1, <2>1 DEF WindowInv, TypeOK, vars, counter, locals
<1> QED  BY <1>1, WindowStep DEF Next, Step, Finished

\* The end of the sampling window never moves back.
THEOREM WindowMonotone == Spec => WindowAdvances
<1>1. WindowInv /\ [Next]_vars => [resetAt' >= resetAt]_resetAt
  BY WindowNext
<1> QED  BY <1>1, WindowInit, WindowNext, PTL DEF Spec, WindowAdvances

\* Sampling keeps its types.
THEOREM TypeCorrect == Spec => []TypeOK
<1>1. WindowInv => TypeOK
  BY DEF WindowInv
<1> QED  BY <1>1, WindowInit, WindowNext, PTL DEF Spec

-----------------------------------------------------------------------------
(* How many records of a window pass for being among the first *)

N == Cardinality(Goroutines)

\* Goroutines that will reset the count though they are late for their window,
Stale == {g \in Goroutines : pc[g] = "store" /\ resetAfter[g] # resetAt}

\* ... and those that may still reset it for the next window: one that has done
\* so goes on by opening it, or else is late.
Ready == {g \in Goroutines : ~(pc[g] = "cas" /\ resetAfter[g] = resetAt)}

Resets == Cardinality(Stale) + Cardinality(Ready)

\* Low numbers that the count has left.
Left == IF count < Initial THEN Initial - count ELSE 0

\* The low numbers drawn in the current window, those that are left, and those
\* of the resets to come; nobody draws one when all are about to open the next.
Bounded ==
    /\ \A w \in Windows : firsts[w] <= 1 + (Initial - 1) * (2 * N - 1)
    /\ \A w \in Windows : w > resetAt => firsts[w] = 0
    /\ Ready # {} => firsts[resetAt] + Left + (Initial - 1) * Resets <= 1 + (Initial - 1) * (2 * N)

AdmitInv ==
    /\ WindowInv
    /\ count >= 1 \/ (resetAt = 0 /\ \A g \in Goroutines : pc[g] \notin {"cas", "add", "decide"})
    /\ Initial > 0 => Bounded

LEMMA Sizes ==
    /\ N \in Nat /\ N >= 1
    /\ IsFiniteSet(Stale) /\ Cardinality(Stale) \in 0 .. N
    /\ IsFiniteSet(Ready) /\ Cardinality(Ready) \in 0 .. N
<1>1. N \in Nat /\ N # 0
  BY GoroutineAssumption, FS_CardinalityType, FS_EmptySet DEF N
<1>2. ASSUME NEW S, S \subseteq Goroutines PROVE IsFiniteSet(S) /\ Cardinality(S) \in 0 .. N
  <2>1. IsFiniteSet(S) /\ Cardinality(S) <= N
    BY GoroutineAssumption, FS_Subset, <1>2 DEF N
  <2>2. Cardinality(S) \in Nat
    BY <2>1, FS_CardinalityType
  <2> QED  BY <1>1, <2>1, <2>2
<1>3. Stale \subseteq Goroutines /\ Ready \subseteq Goroutines
  BY DEF Stale, Ready
<1> QED  BY <1>1, <1>2, <1>3

\* What there is to a product with one factor less, or a smaller one.
LEMMA Products ==
    ASSUME NEW s \in Nat, NEW r \in Nat
    PROVE  /\ s * r \in Nat
           /\ r >= 1 => s * (r - 1) = s * r - s
           /\ \A q \in Nat : r <= q => s * r <= s * q
OBVIOUS

\* The room left by resets that are spent.
LEMMA Room ==
    ASSUME NEW i \in Nat, i > 0, NEW n \in Nat, n >= 1
    PROVE  /\ 1 + (i - 1) * (2 * n) = 1 + (i - 1) * (2 * n - 1) + (i - 1)
           /\ (i - 1) * (2 * n) \in Nat /\ (i - 1) * (2 * n - 1) \in Nat
           /\ i + (i - 1) * n <= 1 + (i - 1) * (2 * n)
<1> DEFINE s == i - 1
<1>1. s \in Nat /\ i = s + 1
  OBVIOUS
<1> HIDE DEF s
<1>2. s * (2 * n) \in Nat /\ s * (2 * n - 1) = s * (2 * n) - s /\ s * n <= s * (2 * n - 1)
  <2>1. 2 * n \in Nat /\ 2 * n - 1 \in Nat /\ n <= 2 * n - 1 /\ 2 * n >= 1
    OBVIOUS
  <2> QED  BY <1>1, <2>1, Products
<1>3. s * (2 * n - 1) \in Nat /\ s * n \in Nat
  BY <1>1, Products
<1>4. 1 + s * (2 * n) = 1 + s * (2 * n - 1) + s /\ (s + 1) + s * n <= 1 + s * (2 * n)
  BY <1>1, <1>2, <1>3
<1> QED  BY <1>1, <1>2, <1>3, <1>4 DEF s

LEMMA AdmitInit == Init => AdmitInv
<1> SUFFICES ASSUME Init PROVE AdmitInv
  OBVIOUS
<1>1. WindowInv /\ TypeOK
  BY WindowInit DEF WindowInv
<1>2. resetAt = 0 /\ count = 0 /\ \A g \in Goroutines : pc[g] = "idle"
  BY DEF Init
<1>3. Stale = {} /\ Ready = Goroutines
  BY <1>2 DEF Stale, Ready
<1>4. Resets = N
  <2>1. Cardinality(Stale) = 0 /\ Cardinality(Ready) = N /\ N \in Nat
    BY <1>3, FS_EmptySet, Sizes DEF N
  <2> QED  BY <2>1 DEF Resets
<1>5. \A w \in Windows : firsts[w] = 0
  BY DEF Init
<1>6. ASSUME Initial > 0 PROVE Bounded
  <2>1. /\ 1 + (Initial - 1) * (2 * N - 1) >= 0
        /\ Initial + (Initial - 1) * N <= 1 + (Initial - 1) * (2 * N)
    BY <1>6, Room, Sizes, OptionAssumption
  <2>2. Left = Initial /\ firsts[resetAt] = 0
    BY <1>1, <1>2, <1>5, <1>6, OptionAssumption, Types DEF Left
  <2>3. Initial + (Initial - 1) * N \in Int
    BY Sizes, OptionAssumption
  <2>4. firsts[resetAt] + Left + (Initial - 1) * Resets <= 1 + (Initial - 1) * (2 * N)
    BY <1>4, <2>1, <2>2, <2>3, OptionAssumption
  <2> QED  BY <1>5, <2>1, <2>4 DEF Bounded
<1> QED  BY <1>1, <1>2, <1>6 DEF AdmitInv

-----------------------------------------------------------------------------
(* The steps *)

\* Begin, Load, Decide and a lost CompareAndSwap count nothing and reset nothing.
Plain(g) == Begin(g) \/ Load(g) \/ Decide(g) \/ (CompareAndSwap(g) /\ resetAt # resetAfter[g])

LEMMA PlainMoves ==
    ASSUME WindowInv, NEW g \in Goroutines, Plain(g)
    PROVE  /\ resetAt' = resetAt /\ count' = count /\ firsts' = firsts /\ Stale' = Stale /\ Ready' = Ready
           /\ \A h \in Goroutines : pc'[h] \in {"cas", "add", "decide"} =>
                  pc[h] \in {"cas", "add", "decide"} \/ resetAt > 0
<1>1. TypeOK
  BY DEF WindowInv
<1>2. /\ pc \in [Goroutines -> PCs] /\ resetAfter \in [Goroutines -> Nat] /\ resetAt \in Nat /\ ts[g] \in Nat
  BY <1>1, Types
<1>3. CASE Begin(g) \/ Decide(g)
  <2>1. /\ pc[g] \in {"idle", "decide"} /\ \E l \in {"load", "idle"} : pc' = [pc EXCEPT ![g] = l]
        /\ UNCHANGED <<resetAt, count, firsts, resetAfter>>
    BY <1>3 DEF Begin, Decide, Goto, counter, locals
  <2>2. pc'[g] \in {"load", "idle"} /\ \A h \in Goroutines \ {g} : pc'[h] = pc[h]
    BY <1>2, <2>1
  <2> QED  BY <2>1, <2>2 DEF Stale, Ready
<1>4. CASE Load(g)
  <2>1. /\ pc[g] = "load" /\ pc' = [pc EXCEPT ![g] = IF resetAt > ts[g] THEN "add" ELSE "store"]
        /\ resetAfter' = [resetAfter EXCEPT ![g] = resetAt] /\ UNCHANGED <<resetAt, count, firsts>>
    BY <1>4 DEF Load, Goto, counter
  <2>2. /\ pc'[g] \in {"add", "store"} /\ resetAfter'[g] = resetAt /\ (pc'[g] = "add" => resetAt > 0)
        /\ \A h \in Goroutines \ {g} : pc'[h] = pc[h] /\ resetAfter'[h] = resetAfter[h]
    BY <1>2, <2>1
  <2> QED  BY <2>1, <2>2 DEF Stale, Ready
<1>5. CASE CompareAndSwap(g) /\ resetAt # resetAfter[g]
  <2>1. /\ pc[g] = "cas" /\ pc' = [pc EXCEPT ![g] = "add"] /\ UNCHANGED <<resetAt, count, firsts, resetAfter>>
    BY <1>5 DEF CompareAndSwap, Goto
  <2>2. pc'[g] = "add" /\ \A h \in Goroutines \ {g} : pc'[h] = pc[h]
    BY <1>2, <2>1
  <2> QED  BY <1>5, <2>1, <2>2 DEF Stale, Ready
<1> QED  BY <1>3, <1>4, <1>5 DEF Plain

LEMMA PlainBound ==
    ASSUME AdmitInv, WindowInv', NEW g \in Goroutines, Plain(g)
    PROVE  AdmitInv'
<1>1. /\ resetAt' = resetAt /\ count' = count /\ firsts' = firsts /\ Stale' = Stale /\ Ready' = Ready
      /\ \A h \in Goroutines : pc'[h] \in {"cas", "add", "decide"} =>
             pc[h] \in {"cas", "add", "decide"} \/ resetAt > 0
  BY PlainMoves DEF AdmitInv
<1>2. Left' = Left /\ Resets' = Resets
  BY <1>1 DEF Left, Resets
<1>3. Initial > 0 => Bounded'
  BY <1>1, <1>2, Zenon DEF AdmitInv, Bounded
<1> QED  BY <1>1, <1>3 DEF AdmitInv

\* Add takes a number that is left.
LEMMA AddBound ==
    ASSUME AdmitInv, WindowInv', NEW g \in Goroutines, Add(g)
    PROVE  AdmitInv'
<1>1. /\ pc[g] = "add" /\ pc' = [pc EXCEPT ![g] = "decide"] /\ count' = count + 1 /\ Draws(g, count', resetAt)
      /\ UNCHANGED <<resetAt, resetAfter>>
  BY DEF Add, Goto
<1>2. /\ pc \in [Goroutines -> PCs] /\ count \in Nat /\ firsts \in [Windows -> Nat] /\ resetAt \in Windows
      /\ \A w \in Windows : w \in Nat
  BY Types DEF AdmitInv, WindowInv
<1>3. count >= 1
  BY <1>1 DEF AdmitInv
<1>4. pc'[g] = "decide" /\ \A h \in Goroutines \ {g} : pc'[h] = pc[h]
  BY <1>1, <1>2
<1>5. Stale' = Stale /\ Ready' = Ready
  BY <1>1, <1>4 DEF Stale, Ready
<1>6. g \in Ready
  BY <1>1 DEF Ready
<1>7. ASSUME Initial > 0 PROVE Bounded'
  <2>1. Bounded
    BY <1>7 DEF AdmitInv
  <2>2. Resets' = Resets /\ Resets \in Nat /\ Cardinality(Ready) >= 1
    <3>1. Cardinality(Ready) # 0
      BY <1>6, Sizes, FS_EmptySet
    <3> QED  BY <1>5, <3>1, Sizes DEF Resets
  <2>3. firsts' = IF count + 1 <= Initial THEN [firsts EXCEPT ![resetAt] = @ + 1] ELSE firsts
    BY <1>1 DEF Draws
  <2>4. \A w \in Windows : w # resetAt => firsts'[w] = firsts[w]
    BY <1>2, <2>3
  <2>5. firsts[resetAt] \in Nat /\ firsts'[resetAt] + Left' = firsts[resetAt] + Left /\ firsts'[resetAt] \in Nat
        /\ Left' \in Nat
    BY <1>1, <1>2, <2>3, OptionAssumption DEF Left
  <2>6. firsts[resetAt] + Left + (Initial - 1) * Resets <= 1 + (Initial - 1) * (2 * N)
    BY <1>6, <2>1 DEF Bounded
  <2> DEFINE s == Initial - 1
  <2>7. s \in Nat
    BY <1>7, OptionAssumption
  <2>8. s * Resets \in Nat /\ s * Resets >= s /\ s * (2 * N) = s * (2 * N - 1) + s /\ s * (2 * N - 1) \in Nat
    <3>1. 1 \in Nat /\ 1 <= Resets /\ s * 1 = s
      BY <2>2, <2>7, Sizes DEF Resets
    <3>2. N \in Nat /\ N >= 1
      BY Sizes
    <3> HIDE DEF s
    <3>3. s * 1 <= s * Resets /\ s * Resets \in Nat
      BY <2>2, <2>7, <3>1, Products
    <3>4. 2 * N \in Nat /\ 2 * N >= 1 /\ 2 * N - 1 \in Nat
      BY <3>2
    <3>5. s * (2 * N - 1) = s * (2 * N) - s /\ s * (2 * N) \in Nat /\ s * (2 * N - 1) \in Nat
      BY <2>7, <3>4, Products
    <3> QED  BY <2>7, <3>1, <3>3, <3>5
  <2>9. firsts'[resetAt] + Left' + s * Resets <= 1 + s * (2 * N)
    BY <2>5, <2>6
  <2>10. firsts'[resetAt] <= 1 + s * (2 * N - 1)
    <3> DEFINE a == s * Resets
    <3> DEFINE b == s * (2 * N - 1)
    <3>1. a \in Nat /\ b \in Nat /\ a >= s /\ firsts'[resetAt] + Left' + a <= 1 + (b + s)
      BY <2>8, <2>9
    <3> HIDE DEF a, s
    <3>2. firsts'[resetAt] <= 1 + b
      <4> HIDE DEF b
      <4> QED  BY <2>5, <2>7, <3>1
    <3> QED  BY <3>2 DEF b
  <2>11. \A w \in Windows : firsts'[w] <= 1 + s * (2 * N - 1)
    BY <2>1, <2>4, <2>10 DEF Bounded
  <2>12. \A w \in Windows : w > resetAt => firsts'[w] = 0
    BY <1>2, <2>1, <2>4 DEF Bounded
  <2> QED  BY <1>1, <1>5, <2>2, <2>9, <2>11, <2>12 DEF Bounded
<1> QED  BY <1>1, <1>2, <1>3, <1>7 DEF AdmitInv

\* Store spends a reset.
LEMMA StoreMoves ==
    ASSUME AdmitInv, NEW g \in Goroutines, Store(g)
    PROVE  /\ resetAt' = resetAt /\ count' = 1 /\ firsts' = firsts
           /\ Ready # {} /\ Resets \in Nat /\ Resets >= 1 /\ Resets' = Resets - 1
<1>1. /\ pc[g] = "store" /\ pc' = [pc EXCEPT ![g] = "cas"] /\ count' = 1
      /\ UNCHANGED <<resetAt, resetAfter, firsts>>
  BY DEF Store, Goto, locals
<1>2. pc \in [Goroutines -> PCs]
  BY Types DEF AdmitInv, WindowInv
<1>3. pc'[g] = "cas" /\ \A h \in Goroutines \ {g} : pc'[h] = pc[h]
  BY <1>1, <1>2
<1>4. g \in Ready /\ Cardinality(Ready) # 0
  BY <1>1, Sizes, FS_EmptySet DEF Ready
<1>5. Resets \in Nat /\ Resets >= 1
  BY <1>4, Sizes DEF Resets
<1>6. CASE resetAfter[g] # resetAt
  <2>1. g \in Stale /\ Stale' = Stale \ {g} /\ Ready' = Ready
    BY <1>1, <1>3, <1>6 DEF Stale, Ready
  <2>2. Cardinality(Stale \ {g}) = Cardinality(Stale) - 1
    BY <2>1, Sizes, FS_RemoveElement
  <2>3. Resets' = Resets - 1
    BY <2>1, <2>2, Sizes DEF Resets
  <2> QED  BY <1>1, <1>4, <1>5, <2>3
<1>7. CASE resetAfter[g] = resetAt
  <2>1. Stale' = Stale /\ Ready' = Ready \ {g}
    BY <1>1, <1>3, <1>7 DEF Stale, Ready
  <2>2. Cardinality(Ready \ {g}) = Cardinality(Ready) - 1
    BY <1>4, Sizes, FS_RemoveElement
  <2>3. Resets' = Resets - 1
    BY <2>1, <2>2, Sizes DEF Resets
  <2> QED  BY <1>1, <1>4, <1>5, <2>3
<1> QED  BY <1>6, <1>7

LEMMA StoreBound ==
    ASSUME AdmitInv, WindowInv', NEW g \in Goroutines, Store(g)
    PROVE  AdmitInv'
<1>1. /\ resetAt' = resetAt /\ count' = 1 /\ firsts' = firsts
      /\ Ready # {} /\ Resets \in Nat /\ Resets >= 1 /\ Resets' = Resets - 1
  BY StoreMoves
<1>2. count \in Nat /\ firsts[resetAt] \in Nat
  BY Types DEF AdmitInv, WindowInv
<1>3. ASSUME Initial > 0 PROVE Bounded'
  <2>1. Bounded
    BY <1>3 DEF AdmitInv
  <2> DEFINE s == Initial - 1
  <2>2. s \in Nat /\ Left' = s /\ Left \in Nat
    BY <1>1, <1>2, <1>3, OptionAssumption DEF Left
  <2>3. firsts[resetAt] + Left + s * Resets <= 1 + s * (2 * N)
    BY <1>1, <2>1 DEF Bounded
  <2> HIDE DEF s
  <2>4. s * (Resets - 1) = s * Resets - s /\ s * Resets \in Nat /\ s * (2 * N) \in Nat
    <3>1. 2 * N \in Nat
      BY Sizes
    <3> QED  BY <1>1, <2>2, <3>1, Products
  <2>5. firsts[resetAt] + Left' + s * (Resets - 1) <= 1 + s * (2 * N)
    BY <1>2, <2>2, <2>3, <2>4
  <2> QED  BY <1>1, <2>1, <2>5 DEF Bounded, s
<1> QED  BY <1>1, <1>3 DEF AdmitInv

\* The winner of the CompareAndSwap opens a window in which nothing is drawn yet;
\* nobody else is ahead of it, and it is not late.
LEMMA OpenBound ==
    ASSUME AdmitInv, WindowInv', NEW g \in Goroutines, CompareAndSwap(g), resetAt = resetAfter[g]
    PROVE  AdmitInv'
<1>1. /\ pc[g] = "cas" /\ pc' = [pc EXCEPT ![g] = "decide"] /\ Draws(g, 1, resetAt')
      /\ resetAt' = ts[g] + Tick /\ UNCHANGED <<count, resetAfter>>
  BY DEF CompareAndSwap, Goto
<1>2. /\ pc \in [Goroutines -> PCs] /\ count \in Nat /\ firsts \in [Windows -> Nat] /\ resetAt \in Nat
      /\ ts[g] \in Nat /\ resetAt' \in Windows /\ resetAfter[g] <= ts[g]
      /\ \A w \in Windows : w \in Nat
  BY <1>1, Types DEF AdmitInv, WindowInv
<1>3. count >= 1 /\ resetAt' > resetAt
  BY <1>1, <1>2, OptionAssumption DEF AdmitInv
<1>4. pc'[g] = "decide"
  BY <1>1, <1>2
<1>5. ASSUME Initial > 0 PROVE Bounded'
  <2>1. Bounded
    BY <1>5 DEF AdmitInv
  <2>2. firsts' = [firsts EXCEPT ![resetAt'] = @ + 1]
    BY <1>1, <1>5, OptionAssumption DEF Draws
  <2>3. firsts[resetAt'] = 0
    BY <1>2, <1>3, <2>1 DEF Bounded
  <2>4. firsts'[resetAt'] = 1 /\ \A w \in Windows : w # resetAt' => firsts'[w] = firsts[w]
    BY <1>2, <2>2, <2>3
  <2>5. /\ Cardinality(Stale') \in Nat /\ Cardinality(Stale') <= N - 1
        /\ Cardinality(Ready') \in Nat /\ Cardinality(Ready') <= N
    <3>1. Stale' \subseteq Goroutines \ {g} /\ Ready' \subseteq Goroutines
      BY <1>4 DEF Stale, Ready
    <3>2. IsFiniteSet(Goroutines \ {g}) /\ Cardinality(Goroutines \ {g}) = N - 1
      BY GoroutineAssumption, FS_RemoveElement DEF N
    <3>3. IsFiniteSet(Stale') /\ Cardinality(Stale') <= N - 1
      BY <3>1, <3>2, FS_Subset
    <3>4. IsFiniteSet(Ready') /\ Cardinality(Ready') <= N
      BY <3>1, GoroutineAssumption, FS_Subset DEF N
    <3> QED  BY <3>3, <3>4, FS_CardinalityType
  <2>6. Resets' \in Nat /\ Resets' <= 2 * N - 1
    BY <2>5, Sizes DEF Resets
  <2> DEFINE s == Initial - 1
  <2>7. s \in Nat /\ Left' \in Nat /\ Left' <= s
    BY <1>1, <1>2, <1>3, <1>5, OptionAssumption DEF Left
  <2> HIDE DEF s
  <2>8. s * Resets' <= s * (2 * N - 1) /\ s * (2 * N - 1) = s * (2 * N) - s
        /\ s * Resets' \in Nat /\ s * (2 * N) \in Nat /\ s * (2 * N - 1) \in Nat
    <3>1. 2 * N \in Nat /\ 2 * N >= 1 /\ 2 * N - 1 \in Nat
      BY Sizes
    <3>2. PICK r \in Nat : r = Resets' /\ r <= 2 * N - 1
      BY <2>6
    <3> QED  BY <2>7, <3>1, <3>2, Products
  <2>9. 1 + Left' + s * Resets' <= 1 + s * (2 * N)
    BY <2>7, <2>8
  <2>10. \A w \in Windows : firsts'[w] <= 1 + s * (2 * N - 1)
    <3>1. 1 <= 1 + s * (2 * N - 1)
      BY <2>8
    <3> QED  BY <2>1, <2>4, <3>1 DEF Bounded, s
  <2>11. \A w \in Windows : w > resetAt' => firsts'[w] = 0
    BY <1>2, <1>3, <2>1, <2>4 DEF Bounded
  <2> QED  BY <2>4, <2>9, <2>10, <2>11 DEF Bounded, s
<1> QED  BY <1>1, <1>3, <1>5 DEF AdmitInv

LEMMA AdmitNext == AdmitInv /\ [Next]_vars => AdmitInv'
<1> SUFFICES ASSUME AdmitInv, [Next]_vars PROVE AdmitInv'
  OBVIOUS
<1>1. WindowInv'
  BY WindowNext DEF AdmitInv
<1>2. ASSUME NEW g \in Goroutines, Step(g) PROVE AdmitInv'
  BY <1>1, <1>2, PlainBound, AddBound, StoreBound, OpenBound DEF Step, Plain
<1>3. CASE UNCHANGED vars
  <2>1. UNCHANGED <<resetAt, count, pc, resetAfter, firsts>>
    BY <1>3 DEF vars, counter, locals
  <2>2. Left' = Left /\ Ready' = Ready /\ Stale' = Stale
    BY <2>1 DEF Left, Ready, Stale
  <2> QED  BY <1>1, <2>1, <2>2 DEF AdmitInv, Bounded, Resets
<1> QED  BY <1>2, <1>3 DEF Next, Step, Finished

\* However goroutines race at the end of a window, and in whatever order the
\* stamps come, the records of a window that pass for being among its first are
\* within the bound (logger.go:1775).
THEOREM OverAdmissionCorrect == Spec => []OverAdmissionBounded
<1>1. AdmitInv => OverAdmissionBounded
  BY DEF AdmitInv, Bounded, OverAdmissionBounded, N
<1> QED  BY <1>1, AdmitInit, AdmitNext, PTL DEF Spec

-----------------------------------------------------------------------------
(* The window by the book *)

\* A non-empty set of naturals has a least element,
LEMMA Least ==
    ASSUME NEW T, T \subseteq Nat, T # {}
    PROVE  \E n \in T : \A m \in T : n <= m
<1>1. PICK n \in T : \A m \in T : ~(<<m, n>> \in OpToRel(<, Nat))
  BY NatLessThanWellFounded, WFMin, Zenon
<1>2. ASSUME NEW m \in T, ~(n <= m) PROVE FALSE
  <2>1. m \in Nat /\ n \in Nat /\ m < n
    BY <1>2
  <2>2. <<m, n>> \in OpToRel(<, Nat)
    BY <2>1, Zenon DEF OpToRel
  <2> QED  BY <1>1, <2>2
<1> QED  BY <1>2

\* ... so a set with 0 and with the successor of its elements has them all.
LEMMA Induct ==
    ASSUME NEW S, 0 \in S, \A n \in Nat : n \in S => n + 1 \in S
    PROVE  Nat \subseteq S
<1> SUFFICES ASSUME Nat \ S # {} PROVE FALSE
  OBVIOUS
<1>1. PICK n \in Nat \ S : \A m \in Nat \ S : n <= m
  BY Least
<1>2. n # 0
  OBVIOUS
<1>3. n - 1 \in Nat /\ ~(n <= n - 1)
  BY <1>2
<1>4. n - 1 \in S
  BY <1>1, <1>3
<1>5. (n - 1) + 1 = n
  OBVIOUS
<1> QED  BY <1>3, <1>4, <1>5

\* A window by the book after a record r.
After(b, r) == IF b.end > r.ts THEN [b EXCEPT !.seen = @ + 1] ELSE [end |-> r.ts + Tick, seen |-> 1]

\* f keeps the book of the first n records of s.
IsBook(f, s, n) == f = [i \in 0 .. n |-> IF i = 0 THEN [end |-> 0, seen |-> 0] ELSE After(f[i - 1], s[i])]

LEMMA AfterType ==
    \A b \in [end : Nat, seen : Nat] :
        \A r \in [ts : Nat, window : Nat, number : Nat, kept : BOOLEAN] : After(b, r) \in [end : Nat, seen : Nat]
BY OptionAssumption DEF After

\* Every sequence has a book, however many of its records are entered.
LEMMA BookExists == \A s : \A n \in Nat : \E f : IsBook(f, s, n)
<1> SUFFICES ASSUME NEW s PROVE \A n \in Nat : \E f : IsBook(f, s, n)
  OBVIOUS
<1> DEFINE Kept == {n \in Nat : \E f : IsBook(f, s, n)}
<1>1. 0 \in Kept
  <2>1. IsBook([i \in 0 .. 0 |-> [end |-> 0, seen |-> 0]], s, 0)
    BY DEF IsBook
  <2> QED  BY <2>1
<1>2. ASSUME NEW n \in Nat, n \in Kept PROVE n + 1 \in Kept
  <2>1. PICK f : IsBook(f, s, n)
    BY <1>2
  <2> DEFINE e == [i \in 0 .. n + 1 |-> IF i = n + 1 THEN After(f[n], s[n + 1]) ELSE f[i]]
  <2>2. \A i \in 0 .. n + 1 : e[i] = IF i = 0 THEN [end |-> 0, seen |-> 0] ELSE After(e[i - 1], s[i])
    <3>1. SUFFICES ASSUME NEW i \in 0 .. n + 1
                   PROVE e[i] = IF i = 0 THEN [end |-> 0, seen |-> 0] ELSE After(e[i - 1], s[i])
      OBVIOUS
    <3>2. CASE i = n + 1
      <4>1. e[i] = After(f[n], s[i]) /\ e[i - 1] = f[n] /\ i # 0
        BY <3>2
      <4> QED  BY <4>1
    <3>3. CASE i # n + 1
      <4>1. i \in 0 .. n /\ e[i] = f[i] /\ (i # 0 => e[i - 1] = f[i - 1])
        BY <3>3
      <4>2. f[i] = IF i = 0 THEN [end |-> 0, seen |-> 0] ELSE After(f[i - 1], s[i])
        BY <2>1, <4>1, Zenon DEF IsBook
      <4> QED  BY <4>1, <4>2
    <3> QED  BY <3>2, <3>3
  <2>3. IsBook(e, s, n + 1)
    BY <2>2, Zenon DEF IsBook
  <2> QED  BY <2>3
<1>3. Nat \subseteq Kept
  BY <1>1, <1>2, Induct
<1> QED  BY <1>3

\* Book is one of the records decided.
LEMMA BookIsBook == IsBook(Book, log, MaxRecords)
<1>1. \E f : IsBook(f, log, MaxRecords)
  BY BookExists, BoundAssumption
<1>2. Book = CHOOSE f : IsBook(f, log, MaxRecords)
  BY Zenon DEF Book, IsBook, After
<1> QED  BY <1>1, <1>2, Zenon

LEMMA BookIsBookNext == IsBook(Book', log', MaxRecords)
<1>1. \E f : IsBook(f, log', MaxRecords)
  BY BookExists, BoundAssumption
<1>2. Book' = CHOOSE f : IsBook(f, log', MaxRecords)
  BY Zenon DEF Book, IsBook, After
<1> QED  BY <1>1, <1>2, Zenon

\* Two sequences with a common start have the same book of it.
LEMMA BooksAgree ==
    ASSUME NEW s, NEW t, NEW f, NEW e, NEW n \in 0 .. MaxRecords,
           IsBook(f, s, MaxRecords), IsBook(e, t, MaxRecords),
           \A i \in 1 .. n : s[i] = t[i]
    PROVE  \A i \in 0 .. n : f[i] = e[i]
<1> DEFINE Same0 == {i \in Nat : i <= n => f[i] = e[i]}
<1>1. 0 \in Same0
  <2>1. f[0] = [end |-> 0, seen |-> 0] /\ e[0] = [end |-> 0, seen |-> 0]
    BY BoundAssumption DEF IsBook
  <2> QED  BY <2>1
<1>2. ASSUME NEW i \in Nat, i \in Same0, i + 1 <= n PROVE f[i + 1] = e[i + 1]
  <2>1. i + 1 \in 0 .. MaxRecords /\ i + 1 # 0 /\ (i + 1) - 1 = i /\ i + 1 \in 1 .. n
    BY <1>2, BoundAssumption
  <2>2. f[i + 1] = After(f[i], s[i + 1]) /\ e[i + 1] = After(e[i], t[i + 1])
    BY <2>1, Zenon DEF IsBook
  <2>3. f[i] = e[i] /\ s[i + 1] = t[i + 1]
    BY <1>2, <2>1
  <2> QED  BY <2>2, <2>3
<1>3. \A i \in Nat : i \in Same0 => i + 1 \in Same0
  BY <1>2
<1>4. Nat \subseteq Same0
  BY <1>1, <1>3, Induct
<1> QED  BY <1>4

-----------------------------------------------------------------------------
(* One record after the other *)

\* The record in Handle, and what the book says when it is done.
Alone == \A g, h \in Goroutines : pc[g] # "idle" /\ pc[h] # "idle" => g = h

Last == Book[Len(log)]

\* Between two records the counter is the window by the book; the record in
\* Handle moves it to the next line.
OnBook(g) ==
    /\ started = Len(log) + 1
    /\ \/ /\ pc[g] \in {"load", "add", "store"} /\ resetAt = Last.end /\ count = Last.seen
          /\ pc[g] = "add" => resetAt > ts[g]
          /\ pc[g] = "store" => resetAt <= ts[g] /\ resetAfter[g] = resetAt
       \/ /\ pc[g] = "cas" /\ resetAt = Last.end /\ count = 1
          /\ resetAt <= ts[g] /\ resetAfter[g] = resetAt
       \/ /\ pc[g] = "decide" /\ got[g] = count
          /\ IF Last.end > ts[g] THEN resetAt = Last.end /\ count = Last.seen + 1
                                 ELSE resetAt = ts[g] + Tick /\ count = 1

SeqInv ==
    /\ WindowInv
    /\ ~overlap => /\ Alone
                   /\ \A g \in Goroutines : pc[g] # "idle" => OnBook(g)
                   /\ (\A g \in Goroutines : pc[g] = "idle") =>
                          started = Len(log) /\ resetAt = Last.end /\ count = Last.seen
                   /\ \A i \in 1 .. Len(log) : log[i].kept <=> Passes(Book[i].seen)

\* The book starts empty, and has windows that end at a time.
LEMMA BookLines ==
    TypeOK /\ Len(log) <= MaxRecords =>
        /\ Book[0] = [end |-> 0, seen |-> 0]
        /\ \A i \in 0 .. Len(log) : Book[i] \in [end : Nat, seen : Nat]
<1> SUFFICES ASSUME TypeOK, Len(log) <= MaxRecords
             PROVE  /\ Book[0] = [end |-> 0, seen |-> 0]
                    /\ \A i \in 0 .. Len(log) : Book[i] \in [end : Nat, seen : Nat]
  OBVIOUS
<1>1. Book[0] = [end |-> 0, seen |-> 0]
  BY BookIsBook, BoundAssumption DEF IsBook
<1> DEFINE Typed == {i \in Nat : i <= Len(log) => Book[i] \in [end : Nat, seen : Nat]}
<1>2. 0 \in Typed
  BY <1>1
<1>3. ASSUME NEW i \in Nat, i \in Typed, i + 1 <= Len(log) PROVE Book[i + 1] \in [end : Nat, seen : Nat]
  <2>1. i + 1 \in 0 .. MaxRecords /\ i + 1 # 0 /\ (i + 1) - 1 = i /\ i + 1 \in 1 .. Len(log)
    BY <1>3, BoundAssumption DEF TypeOK
  <2>2. Book[i + 1] = After(Book[i], log[i + 1])
    BY <2>1, BookIsBook, Zenon DEF IsBook
  <2>3. log[i + 1] \in [ts : Nat, window : Nat, number : Nat, kept : BOOLEAN]
    BY <2>1, SeqElement, Zenon DEF TypeOK
  <2>4. Book[i] \in [end : Nat, seen : Nat]
    BY <1>3 DEF TypeOK
  <2> QED  BY <2>2, <2>3, <2>4, AfterType, Zenon
<1>4. \A i \in Nat : i \in Typed => i + 1 \in Typed
  BY <1>3
<1>5. Nat \subseteq Typed
  BY <1>2, <1>4, Induct
<1>6. \A i \in 0 .. Len(log) : Book[i] \in [end : Nat, seen : Nat]
  BY <1>5
<1> QED  BY <1>1, <1>6

LEMMA SeqInit == Init => SeqInv
<1> SUFFICES ASSUME Init PROVE SeqInv
  OBVIOUS
<1>1. WindowInv
  BY WindowInit
<1>2. Len(log) = 0 /\ started = 0
  BY DEF Init
<1>3. Last = [end |-> 0, seen |-> 0]
  BY <1>1, <1>2, BookLines, BoundAssumption DEF Last, WindowInv
<1> QED  BY <1>1, <1>2, <1>3 DEF SeqInv, Init, Alone

\* A step that decides nothing leaves the book alone.
LEMMA SameBook == ASSUME log' = log PROVE Book' = Book /\ Last' = Last
BY Zenon DEF Book, Last

\* A decision adds a line.
LEMMA NextLine ==
    ASSUME TypeOK, Len(log) < MaxRecords, NEW r, log' = Append(log, r), NEW S, log \in Seq(S), r \in S
    PROVE  /\ \A i \in 0 .. Len(log) : Book'[i] = Book[i]
           /\ Book'[Len(log) + 1] = After(Last, r)
<1>1. \A i \in 1 .. Len(log) : log[i] = log'[i]
  OBVIOUS
<1>2. Len(log) \in 0 .. MaxRecords
  BY BoundAssumption DEF TypeOK
<1>3. \A i \in 0 .. Len(log) : Book[i] = Book'[i]
  <2> DEFINE f == Book
  <2> DEFINE e == Book'
  <2>1. IsBook(f, log, MaxRecords) /\ IsBook(e, log', MaxRecords)
    BY BookIsBook, BookIsBookNext
  <2> HIDE DEF f, e
  <2>2. \A i \in 0 .. Len(log) : f[i] = e[i]
    <3>1. log \in Seq(S) /\ \A i \in 1 .. Len(log) : log[i] = log'[i]
      BY <1>1
    <3> DEFINE t == log'
    <3>2. IsBook(e, t, MaxRecords) /\ \A i \in 1 .. Len(log) : log[i] = t[i]
      BY <2>1, <3>1
    <3> HIDE DEF t
    <3>3. \A k \in 0 .. MaxRecords : (\A i \in 1 .. k : log[i] = t[i]) => \A i \in 0 .. k : f[i] = e[i]
      BY <2>1, <3>2, BooksAgree
    <3> QED  BY <1>2, <3>2, <3>3
  <2> QED  BY <2>2 DEF f, e
<1>4. Len(log) + 1 \in 0 .. MaxRecords /\ Len(log) + 1 # 0 /\ (Len(log) + 1) - 1 = Len(log)
  BY <1>2, BoundAssumption
<1>5. Book'[Len(log) + 1] = After(Book'[Len(log)], log'[Len(log) + 1])
  BY <1>4, BookIsBookNext, Zenon DEF IsBook
<1>6. log'[Len(log) + 1] = r
  OBVIOUS
<1>7. Len(log) \in 0 .. Len(log)
  BY <1>2
<1>8. Book'[Len(log)] = Last
  BY <1>3, <1>7 DEF Last
<1> QED  BY <1>3, <1>5, <1>6, <1>8

\* The record in Handle goes on by the book.
LEMMA SeqStep ==
    ASSUME SeqInv, NEW g \in Goroutines, Step(g)
    PROVE  SeqInv'
<1>1. WindowInv'
  BY WindowStep DEF SeqInv, Step
<1>2. /\ pc \in [Goroutines -> PCs] /\ ts[g] \in Nat /\ ts \in [Goroutines -> 0 .. MaxTime]
      /\ resetAfter \in [Goroutines -> Nat]
      /\ got \in [Goroutines -> Nat] /\ resetAt \in Nat /\ count \in Nat
      /\ started \in Nat /\ started <= MaxRecords /\ Len(log) \in Nat /\ TypeOK /\ overlap \in BOOLEAN
      /\ log \in Seq([ts : Nat, window : Nat, number : Nat, kept : BOOLEAN])
  BY Types DEF SeqInv, WindowInv
<1>3. ~overlap => Len(log) <= MaxRecords
  BY <1>2, BoundAssumption DEF SeqInv, OnBook
<1>4. ~overlap => Last \in [end : Nat, seen : Nat]
  BY <1>2, <1>3, BookLines DEF Last
<1>5. CASE Begin(g)
  <2>1. /\ pc[g] = "idle" /\ started < MaxRecords /\ started' = started + 1 /\ log' = log
        /\ pc' = [pc EXCEPT ![g] = "load"] /\ resetAt' = resetAt /\ count' = count
        /\ overlap' = (overlap \/ \E h \in Goroutines : pc[h] # "idle")
    BY <1>5 DEF Begin, Goto, counter
  <2>2. Book' = Book /\ Last' = Last
    BY <2>1, SameBook
  <2>3. ASSUME ~overlap' PROVE ~overlap /\ \A h \in Goroutines : pc[h] = "idle"
    BY <2>1, <2>3
  <2>4. ASSUME ~overlap', NEW h \in Goroutines, pc'[h] # "idle" PROVE h = g /\ OnBook(h)'
    <3>1. h = g /\ pc'[h] = "load"
      BY <1>2, <2>1, <2>3, <2>4
    <3>2. started = Len(log) /\ resetAt = Last.end /\ count = Last.seen
      BY <2>3, <2>4 DEF SeqInv
    <3> QED  BY <2>1, <2>2, <3>1, <3>2 DEF OnBook
  <2>5. pc'[g] # "idle"
    BY <1>2, <2>1
  <2>6. ASSUME ~overlap' PROVE \A i \in 1 .. Len(log') : log'[i].kept <=> Passes(Book'[i].seen)
    BY <2>1, <2>2, <2>3, <2>6 DEF SeqInv, Passes
  <2> QED  BY <1>1, <1>2, <1>3, <2>1, <2>4, <2>5, <2>6 DEF SeqInv, Alone, Passes
<1>6. CASE Load(g) \/ Add(g) \/ Store(g) \/ CompareAndSwap(g)
  <2>1. /\ pc[g] # "idle" /\ log' = log /\ started' = started /\ overlap' = overlap /\ ts' = ts
        /\ \E l \in PCs \ {"idle"} : pc' = [pc EXCEPT ![g] = l]
    BY <1>6 DEF Load, Add, Store, CompareAndSwap, Draws, Goto, counter, locals, PCs
  <2>2. Book' = Book /\ Last' = Last
    BY <2>1, SameBook
  <2>3. /\ pc'[g] # "idle" /\ \A h \in Goroutines : pc'[h] = "idle" <=> pc[h] = "idle"
    BY <1>2, <2>1
  <2>4. ASSUME ~overlap PROVE OnBook(g)'
    <3>1. OnBook(g)
      BY <2>1, <2>4 DEF SeqInv
    <3> USE <1>2, <1>4, <2>1, <2>2, <3>1 DEF OnBook, Goto
    <3>2. CASE Load(g)
      BY <3>2 DEF Load, counter
    <3>3. CASE Add(g)
      BY <3>3 DEF Add, Draws
    <3>4. CASE Store(g)
      BY <3>4 DEF Store, locals
    <3>5. CASE CompareAndSwap(g)
      BY <3>5 DEF CompareAndSwap, Draws
    <3> QED  BY <1>6, <3>2, <3>3, <3>4, <3>5
  <2>5. ASSUME ~overlap, NEW h \in Goroutines, pc'[h] # "idle" PROVE OnBook(h)'
    BY <2>1, <2>3, <2>4, <2>5 DEF SeqInv, Alone
  <2>6. ASSUME ~overlap PROVE \A i \in 1 .. Len(log') : log'[i].kept <=> Passes(Book'[i].seen)
    BY <2>1, <2>2, <2>6 DEF SeqInv, Passes
  <2> QED  BY <1>1, <1>3, <2>1, <2>3, <2>5, <2>6 DEF SeqInv, Alone, Passes
<1>7. CASE Decide(g)
  <2> DEFINE r == [ts |-> ts[g], window |-> resetAt, number |-> got[g], kept |-> Passes(got[g])]
  <2>1. /\ pc[g] = "decide" /\ log' = Append(log, r) /\ started' = started /\ overlap' = overlap
        /\ pc' = [pc EXCEPT ![g] = "idle"] /\ resetAt' = resetAt /\ count' = count
    BY <1>7 DEF Decide, Goto, counter
  <2>2. r \in [ts : Nat, window : Nat, number : Nat, kept : BOOLEAN]
    BY <1>2 DEF Passes
  <2>3. ASSUME ~overlap
        PROVE  /\ \A h \in Goroutines : pc'[h] = "idle"
               /\ started' = Len(log') /\ resetAt' = Last'.end /\ count' = Last'.seen
               /\ \A i \in 1 .. Len(log') : log'[i].kept <=> Passes(Book'[i].seen)
    <3>1. OnBook(g) /\ \A h \in Goroutines : h # g => pc[h] = "idle"
      BY <2>1, <2>3 DEF SeqInv, Alone
    <3>2. started = Len(log) + 1
      BY <3>1 DEF OnBook
    <3>3. Len(log) < MaxRecords
      BY <1>2, <3>2, BoundAssumption
    <3>4. /\ \A i \in 0 .. Len(log) : Book'[i] = Book[i]
          /\ Book'[Len(log) + 1] = After(Last, r)
      <4> HIDE DEF r
      <4> QED  BY <1>2, <2>1, <2>2, <3>3, NextLine
    <3>5. Len(log') = Len(log) + 1 /\ log'[Len(log) + 1] = r /\ \A i \in 1 .. Len(log) : log'[i] = log[i]
      <4> HIDE DEF r
      <4> QED  BY <1>2, <2>1, <2>2
    <3>6. Last' = After(Last, r)
      BY <3>4, <3>5 DEF Last
    <3>7. After(Last, r) = [end |-> resetAt, seen |-> got[g]] /\ got[g] = count
      <4>1. r.ts = ts[g] /\ Last \in [end : Nat, seen : Nat]
        BY <1>4, <2>3
      <4>2. got[g] = count /\ IF Last.end > ts[g] THEN resetAt = Last.end /\ count = Last.seen + 1
                                                ELSE resetAt = ts[g] + Tick /\ count = 1
        BY <2>1, <3>1 DEF OnBook
      <4> HIDE DEF r
      <4>3. CASE Last.end > ts[g]
        BY <4>1, <4>2, <4>3 DEF After
      <4>4. CASE ~(Last.end > ts[g])
        BY <4>1, <4>2, <4>4 DEF After
      <4> QED  BY <4>3, <4>4
    <3>8. \A h \in Goroutines : pc'[h] = "idle"
      BY <1>2, <2>1, <3>1
    <3>9. ASSUME NEW i \in 1 .. Len(log') PROVE log'[i].kept <=> Passes(Book'[i].seen)
      <4>1. i \in 1 .. Len(log) \/ i = Len(log) + 1
        <5>1. Len(log) \in Nat /\ i \in 1 .. Len(log) + 1
          BY <1>2, <3>5, Zenon
        <5> QED  BY <5>1
      <4>2. CASE i \in 1 .. Len(log)
        <5>1. log'[i] = log[i] /\ Book'[i] = Book[i]
          BY <1>2, <3>4, <3>5, <4>2
        <5>2. log[i].kept <=> Passes(Book[i].seen)
          BY <2>3, <4>2 DEF SeqInv
        <5> QED  BY <5>1, <5>2
      <4>3. CASE i = Len(log) + 1
        BY <3>4, <3>5, <3>7, <4>3
      <4> QED  BY <4>1, <4>2, <4>3
    <3> QED  BY <2>1, <3>2, <3>5, <3>6, <3>7, <3>8, <3>9
  <2>4. Len(log') = Len(log) + 1
    <3> HIDE DEF r
    <3> QED  BY <1>2, <2>1, <2>2
  <2> QED  BY <1>1, <1>2, <1>3, <2>1, <2>3, <2>4 DEF SeqInv, Alone
<1> QED  BY <1>5, <1>6, <1>7 DEF Step

LEMMA SeqNext == SeqInv /\ [Next]_vars => SeqInv'
<1> SUFFICES ASSUME SeqInv, [Next]_vars PROVE SeqInv'
  OBVIOUS
<1>1. ASSUME NEW g \in Goroutines, Step(g) PROVE SeqInv'
  BY <1>1, SeqStep
<1>2. CASE UNCHANGED vars
  <2>1. UNCHANGED <<resetAt, count, pc, ts, resetAfter, got, started, log, overlap>>
    BY <1>2 DEF vars, counter, locals
  <2>2. Book' = Book /\ Last' = Last
    BY <2>1, SameBook
  <2>3. WindowInv'
    BY WindowNext DEF SeqInv
  <2> QED  BY <2>1, <2>2, <2>3 DEF SeqInv, Alone, OnBook, Passes
<1> QED  BY <1>1, <1>2 DEF Next, Step, Finished

\* Records handled one after the other pass exactly when their number in the
\* window is low or a multiple of Thereafter: the steps of incCheckReset amount
\* to a window that opens with a record and counts the ones until its end
\* (logger.go:1771).
THEOREM SequentialCorrect == Spec => []ExactWhenSequential
<1>1. SeqInv => ExactWhenSequential
  BY DEF SeqInv, ExactWhenSequential, Passes
<1> QED  BY <1>1, SeqInit, SeqNext, PTL DEF Spec

=============================================================================
