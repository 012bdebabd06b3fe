---------------------------- MODULE LoggerProofs ----------------------------
(***************************************************************************)
(* Theorems about loggers: which records the level lets through, and what  *)
(* attributes a derived logger carries.                                    *)
(*                                                                         *)
(* The level filter loses no enabled record and writes no disabled one,    *)
(* for any number of goroutines.  The argument: both variables that hold   *)
(* the level stay between low and high of every record under way, so each  *)
(* of the up to four checks it meets decides the same way, when the level  *)
(* of the record lies outside.                                             *)
(*                                                                         *)
(* Derived loggers do not disturb each other, for any argument lists: a    *)
(* slice of withArgs lies in an array that no derivation writes to again.  *)
(* A key stands behind its groups: a handler in groups has an empty name   *)
(* first, which joinGroups leaves out, and those of the names behind it    *)
(* that are not empty are the groups.  And when the lists given to With    *)
(* have a string in the place of each key, then the two ways in which a    *)
(* logger keeps its attributes agree: those in its chain are what slog or  *)
(* argsToAttrs, no matter which, reads from its withArgs, and each of      *)
(* their keys is in preAttrKeys.                                           *)
(***************************************************************************)
EXTENDS LevelGate, Derivation, SequenceTheorems, WellFoundedInduction, NaturalsInduction, TLAPS

-----------------------------------------------------------------------------
(* The level *)

\* The bounds of a record under way hold for both variables.
Between(r) == Live(r) => \A v \in Variables : low[r] <= cur[v] /\ cur[v] <= high[r]

\* What a record has got so far, by its stage.
Progress(r) ==
    /\ stage[r] \in {"none", "logf", "log", "filtered", "accepted"} => out[r] = {}
    /\ stage[r] \in {"log", "accepted", "console", "done"} => lv[r] >= low[r]
    /\ stage[r] = "console" => /\ independent
                               /\ out[r] \in SUBSET {"main"}
                               /\ lv[r] >= high[r] => out[r] = {"main"}
    /\ stage[r] = "done" /\ lv[r] >= high[r] => out[r] = Outputs
    /\ stage[r] = "filtered" => lv[r] < high[r]

LevelInv == TypeOK /\ \A r \in Records : Between(r) /\ Progress(r)

\* The records of calls still to come.
FreshInv == \A p \in Producers, k \in 1 .. MaxLogs : k > calls[p] => stage[<<p, k>>] = "none"

\* The names of the levels stand for levels, and so does everything else.
LEMMA LevelOfType == \A i \in Inputs : LevelOf(i) \in Levels
BY DEF LevelOf, Name, Levels

LEMMA VariablesAre == Variables = {"level", "levelVar"} /\ Levels \subseteq Int
BY DEF Variables, Levels

\* Nothing is under way at the start.
LEMMA LevelInit == Init => LevelInv
<1> SUFFICES ASSUME Init PROVE LevelInv
  OBVIOUS
<1>1. TypeOK
  BY BoundAssumption DEF Init, TypeOK, Levels
<1>2. \A r \in Records : Between(r) /\ Progress(r)
  BY DEF Init, Between, Progress, Live
<1> QED  BY <1>1, <1>2 DEF LevelInv

\* A store of a level widens the bounds of the records under way.
LEMMA StoreKeeps ==
    ASSUME LevelInv, NEW n \in Levels, NEW v \in Variables,
           cur' = [cur EXCEPT ![v] = n], Seen(n), UNCHANGED <<independent, recVars>>
    PROVE  /\ cur' \in [Variables -> Levels]
           /\ low' \in [Records -> Levels] /\ high' \in [Records -> Levels]
           /\ \A r \in Records : (Between(r) /\ Progress(r))'
<1>1. /\ cur \in [Variables -> Levels]
      /\ low \in [Records -> Levels] /\ high \in [Records -> Levels]
      /\ lv \in [Records -> Levels]
  BY DEF LevelInv, TypeOK
<1>2. cur' \in [Variables -> Levels]
  BY <1>1
<1>3. low' \in [Records -> Levels] /\ high' \in [Records -> Levels]
  BY <1>1, VariablesAre DEF Seen
<1>4. ASSUME NEW r \in Records PROVE (Between(r) /\ Progress(r))'
  <2>1. /\ low'[r] = IF Live(r) /\ n < low[r] THEN n ELSE low[r]
        /\ high'[r] = IF Live(r) /\ n > high[r] THEN n ELSE high[r]
    BY DEF Seen
  <2>2. Between(r) /\ Progress(r) /\ (Live(r))' = Live(r)
    BY DEF LevelInv, Live, recVars
  <2>3. {low[r], high[r], low'[r], high'[r], lv[r], n} \subseteq Int
    BY <1>1, <1>3, VariablesAre
  <2>4. low'[r] <= low[r] /\ high'[r] >= high[r]
    BY <2>1, <2>3
  <2>5. Between(r)'
    <3> SUFFICES ASSUME Live(r), NEW u \in Variables
                 PROVE  low'[r] <= cur'[u] /\ cur'[u] <= high'[r]
      BY <2>2 DEF Between
    <3>1. cur[u] \in Int /\ low[r] <= cur[u] /\ cur[u] <= high[r]
      BY <1>1, <2>2, VariablesAre DEF Between
    <3>2. cur'[u] = n \/ cur'[u] = cur[u]
      BY <1>1
    <3> QED  BY <2>1, <2>3, <3>1, <3>2
  <2>6. Progress(r)'
    BY <2>2, <2>3, <2>4 DEF Progress, recVars, Outputs
  <2> QED  BY <2>5, <2>6
<1> QED  BY <1>2, <1>3, <1>4

\* SetLevel keeps the invariant.
LEMMA SetLevelKeeps ==
    ASSUME LevelInv, NEW s \in Setters, StoreLevel(s) \/ SetLevelVar(s)
    PROVE  LevelInv'
<1> USE DEF TypeOK
<1>0. TypeOK
  BY DEF LevelInv
<1>1. CASE StoreLevel(s)
  <2>1. PICK i \in Inputs : /\ target' = [target EXCEPT ![s] = LevelOf(i)]
                            /\ cur' = [cur EXCEPT !["level"] = LevelOf(i)]
                            /\ Seen(LevelOf(i))
    BY <1>1 DEF StoreLevel
  <2>2. LevelOf(i) \in Levels /\ UNCHANGED <<independent, recVars>>
    BY <1>1, LevelOfType DEF StoreLevel
  <2>3. /\ cur' \in [Variables -> Levels]
        /\ low' \in [Records -> Levels] /\ high' \in [Records -> Levels]
        /\ \A r \in Records : (Between(r) /\ Progress(r))'
    BY <2>1, <2>2, StoreKeeps, VariablesAre
  <2>4. /\ spc' \in [Setters -> {"idle", "var"}] /\ target' \in [Setters -> Levels]
        /\ sets' \in [Setters -> 0 .. MaxSets]
    BY <1>0, <1>1, <2>1, <2>2, BoundAssumption DEF StoreLevel
  <2>5. TypeOK'
    BY <1>0, <1>1, <2>2, <2>3, <2>4 DEF StoreLevel, recVars
  <2> QED  BY <2>3, <2>5 DEF LevelInv
<1>2. CASE SetLevelVar(s)
  <2>1. target[s] \in Levels /\ UNCHANGED <<independent, recVars>>
    BY <1>0, <1>2 DEF SetLevelVar
  <2>2. /\ cur' \in [Variables -> Levels]
        /\ low' \in [Records -> Levels] /\ high' \in [Records -> Levels]
        /\ \A r \in Records : (Between(r) /\ Progress(r))'
    BY <1>2, <2>1, StoreKeeps, VariablesAre DEF SetLevelVar
  <2>3. TypeOK'
    BY <1>0, <1>2, <2>1, <2>2 DEF SetLevelVar, recVars
  <2> QED  BY <2>2, <2>3 DEF LevelInv
<1> QED  BY <1>1, <1>2

\* A step of the call that changes nothing of another record leaves it alone.
LEMMA OtherRecord ==
    ASSUME LevelInv, NEW r \in Records, UNCHANGED <<independent, cur>>,
           stage'[r] = stage[r], lv'[r] = lv[r], out'[r] = out[r],
           low'[r] = low[r], high'[r] = high[r]
    PROVE  (Between(r) /\ Progress(r))'
BY DEF LevelInv, Between, Progress, Live, Outputs

\* So does the beginning of a call.
LEMMA LogBeginKeeps == ASSUME LevelInv, FreshInv, NEW p \in Producers, LogBegin(p) PROVE LevelInv'
<1> DEFINE q == <<p, calls'[p]>>
<1>1. TypeOK /\ calls'[p] \in 1 .. MaxLogs /\ calls' \in [Producers -> 0 .. MaxLogs]
  BY BoundAssumption DEF LogBegin, LevelInv, TypeOK
<1>2. q \in Records /\ out[q] = {}
  <2>1. q \in Records /\ calls'[p] > calls[p]
    BY <1>1 DEF Records, LogBegin, TypeOK
  <2>2. stage[q] = "none"
    BY <1>1, <2>1 DEF FreshInv
  <2> QED  BY <2>1, <2>2 DEF LevelInv, Progress
<1>3. PICK n \in LogLevels : lv' = [lv EXCEPT ![q] = n]
  BY DEF LogBegin
<1>4. /\ cur["level"] \in Levels /\ cur["levelVar"] \in Levels /\ n \in Levels
  BY <1>1, VariablesAre, LevelAssumption DEF TypeOK
<1> DEFINE lo == IF cur["level"] < cur["levelVar"] THEN cur["level"] ELSE cur["levelVar"]
           hi == IF cur["level"] > cur["levelVar"] THEN cur["level"] ELSE cur["levelVar"]
<1>5. /\ stage' = [stage EXCEPT ![q] = "logf"]
      /\ low' = [low EXCEPT ![q] = lo] /\ high' = [high EXCEPT ![q] = hi]
      /\ UNCHANGED <<independent, cur, setVars, out>>
  BY Zenon DEF LogBegin
<1> HIDE DEF q
<1>6. TypeOK'
  BY <1>1, <1>2, <1>3, <1>4, <1>5 DEF TypeOK, setVars
<1>7. ASSUME NEW r \in Records PROVE (Between(r) /\ Progress(r))'
  <2>1. CASE r # q
    BY <1>1, <1>2, <1>3, <1>5, <2>1, OtherRecord DEF TypeOK
  <2>2. CASE r = q
    <3>1. /\ stage \in [Records -> {"none", "logf", "log", "filtered", "accepted", "console", "done"}]
          /\ low \in [Records -> Levels] /\ high \in [Records -> Levels]
      BY <1>1 DEF TypeOK
    <3>2. stage'[r] = "logf" /\ low'[r] = lo /\ high'[r] = hi /\ out'[r] = {}
      BY <1>2, <1>5, <2>2, <3>1, Zenon
    <3>3. lo <= cur["level"] /\ lo <= cur["levelVar"] /\ cur["level"] <= hi /\ cur["levelVar"] <= hi
      <4>1. cur["level"] \in Int /\ cur["levelVar"] \in Int
        BY <1>4, VariablesAre
      <4>2. \A a, b \in Int : LET l == IF a < b THEN a ELSE b
                                 h == IF a > b THEN a ELSE b
                             IN  l <= a /\ l <= b /\ a <= h /\ b <= h
        BY SMT
      <4> QED  BY <4>1, <4>2
    <3>4. Between(r)'
      <4> HIDE DEF lo, hi
      <4> QED  BY <1>5, <3>2, <3>3, VariablesAre DEF Between
    <3>5. Progress(r)'
      BY <3>2 DEF Progress
    <3> QED  BY <3>4, <3>5
  <2> QED  BY <2>1, <2>2
<1> QED  BY <1>6, <1>7 DEF LevelInv

\* So does every step of a record.
LEMMA RecordKeeps ==
    ASSUME LevelInv, NEW q \in Records,
           LogfCheck(q) \/ LogCheck(q) \/ HandleMain(q) \/ HandleConsole(q)
    PROVE  LevelInv'
<1>1. TypeOK /\ Between(q) /\ Progress(q)
  BY DEF LevelInv
<1>2. /\ stage \in [Records -> {"none", "logf", "log", "filtered", "accepted", "console", "done"}]
      /\ out \in [Records -> SUBSET {"main", "console"}]
      /\ {lv[q], low[q], high[q], cur["level"], cur["levelVar"], cur[MainReads], cur[ConsoleReads]} \subseteq Int
  BY <1>1, VariablesAre, ReadsAssumption DEF TypeOK
<1>3. UNCHANGED <<independent, cur, setVars, calls, lv, low, high>>
  BY DEF LogfCheck, LogCheck, HandleMain, HandleConsole
<1>4. /\ stage' = [stage EXCEPT ![q] = stage'[q]]
      /\ stage'[q] \in {"filtered", "log", "accepted", "console", "done"}
      /\ out' = [out EXCEPT ![q] = out'[q]]
      /\ out'[q] \in SUBSET {"main", "console"}
      /\ (Progress(q) /\ Between(q))'
  <2>1. CASE LogfCheck(q)
    BY <1>1, <1>2, <1>3, <2>1, VariablesAre DEF LogfCheck, Step, Filtered, Progress, Between, Live
  <2>2. CASE LogCheck(q)
    BY <1>1, <1>2, <1>3, <2>2, VariablesAre DEF LogCheck, Step, Filtered, Progress, Between, Live
  <2>3. CASE HandleMain(q)
    BY <1>1, <1>2, <1>3, <2>3, VariablesAre, ReadsAssumption
       DEF HandleMain, Step, Enabled, Progress, Between, Live, Outputs
  <2>4. CASE HandleConsole(q)
    BY <1>1, <1>2, <1>3, <2>4, VariablesAre, ReadsAssumption
       DEF HandleConsole, Step, Enabled, Progress, Between, Live, Outputs
  <2> QED  BY <2>1, <2>2, <2>3, <2>4
<1>5. TypeOK'
  BY <1>1, <1>2, <1>3, <1>4 DEF TypeOK, setVars
<1>6. ASSUME NEW r \in Records, r # q PROVE (Between(r) /\ Progress(r))'
  BY <1>2, <1>3, <1>4, <1>6, OtherRecord
<1> QED  BY <1>4, <1>5, <1>6 DEF LevelInv

\* So does every step of the system.
LEMMA LevelNext == LevelInv /\ FreshInv /\ [Next]_vars => LevelInv'
<1> SUFFICES ASSUME LevelInv, FreshInv, [Next]_vars PROVE LevelInv'
  OBVIOUS
<1>1. CASE UNCHANGED vars
  BY <1>1 DEF vars, setVars, recVars, LevelInv, TypeOK, Between, Progress, Live, Outputs
<1>2. CASE \E s \in Setters : StoreLevel(s) \/ SetLevelVar(s)
  BY <1>2, SetLevelKeeps
<1>3. CASE \E p \in Producers : LogBegin(p)
  BY <1>3, LogBeginKeeps
<1>4. CASE \E r \in Records : LogfCheck(r) \/ LogCheck(r) \/ HandleMain(r) \/ HandleConsole(r)
  BY <1>4, RecordKeeps
<1> QED  BY <1>1, <1>2, <1>3, <1>4 DEF Next, Finished

\* A record is untouched until its call begins.
LEMMA FreshNext == LevelInv /\ FreshInv /\ [Next]_vars => FreshInv'
<1> SUFFICES ASSUME LevelInv, FreshInv, [Next]_vars PROVE FreshInv'
  OBVIOUS
<1>1. /\ calls \in [Producers -> 0 .. MaxLogs]
      /\ stage \in [Records -> {"none", "logf", "log", "filtered", "accepted", "console", "done"}]
  BY DEF LevelInv, TypeOK
<1>2. CASE calls' = calls /\ stage' = stage
  BY <1>2 DEF FreshInv
<1>3. ASSUME NEW q \in Records, calls' = calls, stage[q] # "none",
             NEW st, stage' = [stage EXCEPT ![q] = st]
      PROVE  FreshInv'
  BY <1>1, <1>3 DEF FreshInv, Records
<1>4. ASSUME NEW q \in Producers, LogBegin(q) PROVE FreshInv'
  <2>1. /\ calls' = [calls EXCEPT ![q] = @ + 1]
        /\ stage' = [stage EXCEPT ![<<q, calls'[q]>>] = "logf"]
    BY <1>4, Zenon DEF LogBegin
  <2> SUFFICES ASSUME NEW p \in Producers, NEW k \in 1 .. MaxLogs, k > calls'[p]
               PROVE  stage'[<<p, k>>] = "none"
    BY DEF FreshInv
  <2>2. k > calls[p] /\ <<p, k>> # <<q, calls'[q]>> /\ <<p, k>> \in Records
    BY <1>1, <2>1 DEF Records
  <2> QED  BY <1>1, <2>1, <2>2 DEF FreshInv
<1>5. ASSUME NEW q \in Records,
             LogfCheck(q) \/ LogCheck(q) \/ HandleMain(q) \/ HandleConsole(q)
      PROVE  FreshInv'
  <2>1. calls' = calls /\ stage[q] # "none" /\ \E st : stage' = [stage EXCEPT ![q] = st]
    BY <1>5 DEF LogfCheck, LogCheck, HandleMain, HandleConsole, Step
  <2> QED  BY <1>3, <2>1
<1> QED  BY <1>2, <1>4, <1>5 DEF Next, StoreLevel, SetLevelVar, Finished, vars, recVars

LEMMA LevelInvariant == Spec => []LevelInv
<1>1. Init => FreshInv
  BY DEF Init, FreshInv, Records
<1> QED  BY LevelInit, LevelNext, FreshNext, <1>1, PTL DEF Spec

\* Every variable keeps its type.
THEOREM TypeCorrect == Spec => []TypeOK
BY LevelInvariant, PTL DEF LevelInv

\* A record at or above every level in force while it is under way is written
\* to all the outputs.
THEOREM EnabledRecordsAreWritten == Spec => []EnabledIsWritten
<1>1. LevelInv => EnabledIsWritten
  <2> SUFFICES ASSUME LevelInv, NEW r \in Records, lv[r] >= high[r]
               PROVE  stage[r] # "filtered" /\ (stage[r] = "done" => out[r] = Outputs)
    BY DEF EnabledIsWritten
  <2>1. lv[r] \in Int /\ high[r] \in Int /\ Progress(r)
    BY VariablesAre DEF LevelInv, TypeOK
  <2> QED  BY <2>1 DEF Progress
<1> QED  BY LevelInvariant, <1>1, PTL

\* A record below all of them is written nowhere.
THEOREM DisabledRecordsAreFiltered == Spec => []DisabledIsFiltered
<1>1. LevelInv => DisabledIsFiltered
  <2> SUFFICES ASSUME LevelInv, NEW r \in Records, lv[r] < low[r]
               PROVE  out[r] = {}
    BY DEF DisabledIsFiltered
  <2>1. /\ lv[r] \in Int /\ low[r] \in Int /\ Progress(r)
        /\ stage[r] \in {"none", "logf", "log", "filtered", "accepted", "console", "done"}
    BY VariablesAre DEF LevelInv, TypeOK
  <2> QED  BY <2>1 DEF Progress
<1> QED  BY LevelInvariant, <1>1, PTL

-----------------------------------------------------------------------------
(* Induction *)

\* A non-empty set of naturals has a least element,
LEMMA Least ==
    ASSUME NEW T, T \subseteq Nat, T # {}
    PROVE  \E n \in T : \A m \in T : n <= m
<1>1. PICK n \in T : \A m \in T : ~(<<m, n>> \in OpToRel(<, Nat))
  BY NatLessThanWellFounded, WFMin, Zenon
<1>2. ASSUME NEW m \in T, ~(n <= m) PROVE FALSE
  <2>1. m \in Nat /\ n \in Nat /\ m < n
    BY <1>2
  <2>2. <<m, n>> \in OpToRel(<, Nat)
    BY <2>1, Zenon DEF OpToRel
  <2> QED  BY <1>1, <2>2
<1> QED  BY <1>2

\* ... so a set with 0 and with the successor of its elements has them all.
LEMMA Induct ==
    ASSUME NEW S, 0 \in S, \A n \in Nat : n \in S => n + 1 \in S
    PROVE  Nat \subseteq S
<1> SUFFICES ASSUME Nat \ S # {} PROVE FALSE
  OBVIOUS
<1>1. PICK n \in Nat \ S : \A m \in Nat \ S : n <= m
  BY Least
<1>2. n # 0
  OBVIOUS
<1>3. n - 1 \in Nat /\ ~(n <= n - 1)
  BY <1>2
<1>4. n - 1 \in S
  BY <1>1, <1>3
<1>5. (n - 1) + 1 = n
  OBVIOUS
<1> QED  BY <1>3, <1>4, <1>5

-----------------------------------------------------------------------------
(* Only *)

\* The elements of seq that are in S, up to each index.
IsUpTo(f, seq, S, n) ==
    f = [i \in 0 .. n |->
            IF i = 0 THEN <<>> ELSE IF seq[i] \in S THEN Append(f[i - 1], seq[i]) ELSE f[i - 1]]

\* There is such a function, for every length.
LEMMA UpToExists == \A seq, S : \A n \in Nat : \E f : IsUpTo(f, seq, S, n)
<1> SUFFICES ASSUME NEW seq, NEW S PROVE \A n \in Nat : \E f : IsUpTo(f, seq, S, n)
  OBVIOUS
<1> DEFINE Entry(f, i) == IF seq[i] \in S THEN Append(f[i - 1], seq[i]) ELSE f[i - 1]
           There == {n \in Nat : \E f : IsUpTo(f, seq, S, n)}
<1>1. 0 \in There
  <2>1. IsUpTo([i \in 0 .. 0 |-> <<>>], seq, S, 0)
    BY DEF IsUpTo
  <2> QED  BY <2>1
<1>2. ASSUME NEW n \in Nat, n \in There PROVE n + 1 \in There
  <2>1. PICK f : IsUpTo(f, seq, S, n)
    BY <1>2
  <2> DEFINE e == [i \in 0 .. n + 1 |-> IF i = n + 1 THEN Entry(f, n + 1) ELSE f[i]]
  <2>2. \A i \in 0 .. n + 1 : e[i] = IF i = 0 THEN <<>> ELSE Entry(e, i)
    <3>1. SUFFICES ASSUME NEW i \in 0 .. n + 1 PROVE e[i] = IF i = 0 THEN <<>> ELSE Entry(e, i)
      OBVIOUS
    <3>2. CASE i = n + 1
      <4>1. e[i] = Entry(f, i) /\ e[i - 1] = f[i - 1] /\ i # 0
        BY <3>2
      <4> QED  BY <4>1
    <3>3. CASE i # n + 1
      <4>1. i \in 0 .. n /\ e[i] = f[i] /\ (i # 0 => e[i - 1] = f[i - 1])
        BY <3>3
      <4>2. f[i] = IF i = 0 THEN <<>> ELSE Entry(f, i)
        BY <2>1, <4>1, Zenon DEF IsUpTo
      <4> QED  BY <4>1, <4>2
    <3> QED  BY <3>2, <3>3
  <2>3. IsUpTo(e, seq, S, n + 1)
    BY <2>2, Zenon DEF IsUpTo
  <2> QED  BY <2>3
<1>3. Nat \subseteq There
  BY <1>1, <1>2, Induct
<1> QED  BY <1>3

\* So Only is its last value.
LEMMA OnlyIsUpTo ==
    ASSUME NEW seq, NEW S, Len(seq) \in Nat
    PROVE  \E f : IsUpTo(f, seq, S, Len(seq)) /\ Only(seq, S) = f[Len(seq)]
<1> DEFINE f == CHOOSE f : IsUpTo(f, seq, S, Len(seq))
<1>1. IsUpTo(f, seq, S, Len(seq))
  BY UpToExists, Zenon
<1>2. Only(seq, S) = f[Len(seq)]
  BY Zenon DEF Only, IsUpTo
<1> HIDE DEF f
<1> QED  BY <1>1, <1>2

\* What an entry is made of.
LEMMA UpToUnfolds ==
    ASSUME NEW f, NEW seq, NEW S, NEW n \in Nat, IsUpTo(f, seq, S, n)
    PROVE  /\ f[0] = <<>>
           /\ \A i \in 1 .. n : f[i] = IF seq[i] \in S THEN Append(f[i - 1], seq[i]) ELSE f[i - 1]
<1>1. \A i \in 0 .. n : f[i] = IF i = 0 THEN <<>> ELSE IF seq[i] \in S THEN Append(f[i - 1], seq[i]) ELSE f[i - 1]
  BY Zenon DEF IsUpTo
<1>2. 0 \in 0 .. n /\ \A i \in 1 .. n : i \in 0 .. n /\ i # 0
  OBVIOUS
<1> QED  BY <1>1, <1>2, Zenon

\* Only's result has elements of seq that are in S, and all of these.
LEMMA OnlyType ==
    ASSUME NEW T, NEW seq \in Seq(T), NEW S
    PROVE  /\ Only(seq, S) \in Seq(T \cap S)
           /\ \A j \in 1 .. Len(seq) : seq[j] \in S => Contains(Only(seq, S), seq[j])
<1>0. Len(seq) \in Nat /\ \A i \in 1 .. Len(seq) : seq[i] \in T
  OBVIOUS
<1>1. PICK f : IsUpTo(f, seq, S, Len(seq)) /\ Only(seq, S) = f[Len(seq)]
  BY <1>0, OnlyIsUpTo
<1>2. /\ f[0] = <<>>
      /\ \A i \in 1 .. Len(seq) : f[i] = IF seq[i] \in S THEN Append(f[i - 1], seq[i]) ELSE f[i - 1]
  BY <1>0, <1>1, UpToUnfolds
<1> DEFINE Good(i) == /\ f[i] \in Seq(T \cap S)
                      /\ \A j \in 1 .. i : seq[j] \in S => \E k \in 1 .. Len(f[i]) : f[i][k] = seq[j]
           Upto == {i \in Nat : i <= Len(seq) => Good(i)}
<1>3. 0 \in Upto
  <2>1. f[0] \in Seq(T \cap S) /\ \A j \in 1 .. 0 : FALSE
    BY <1>2
  <2> QED  BY <2>1
<1>4. ASSUME NEW i \in Nat, i \in Upto, i + 1 <= Len(seq) PROVE Good(i + 1)
  <2>1. Good(i) /\ i + 1 \in 1 .. Len(seq) /\ (i + 1) - 1 = i
    BY <1>0, <1>4
  <2>2. CASE seq[i + 1] \in S
    <3>1. f[i + 1] = Append(f[i], seq[i + 1])
      BY <1>2, <2>1, <2>2
    <3>2. seq[i + 1] \in T \cap S
      BY <1>0, <2>1, <2>2
    <3>3. /\ f[i + 1] \in Seq(T \cap S) /\ Len(f[i + 1]) = Len(f[i]) + 1 /\ Len(f[i]) \in Nat
          /\ f[i + 1][Len(f[i]) + 1] = seq[i + 1]
          /\ \A k \in 1 .. Len(f[i]) : f[i + 1][k] = f[i][k]
      BY <2>1, <3>1, <3>2
    <3>4. ASSUME NEW j \in 1 .. i + 1, seq[j] \in S PROVE \E k \in 1 .. Len(f[i + 1]) : f[i + 1][k] = seq[j]
      <4>1. CASE j = i + 1
        <5>1. Len(f[i]) + 1 \in 1 .. Len(f[i + 1])
          BY <3>3
        <5> QED  BY <3>3, <4>1, <5>1
      <4>2. CASE j # i + 1
        <5>1. j \in 1 .. i
          BY <4>2
        <5>2. PICK k \in 1 .. Len(f[i]) : f[i][k] = seq[j]
          BY <2>1, <3>4, <5>1
        <5>3. k \in 1 .. Len(f[i + 1]) /\ f[i + 1][k] = seq[j]
          BY <3>3, <5>2
        <5> QED  BY <5>3
      <4> QED  BY <4>1, <4>2
    <3> QED  BY <3>3, <3>4
  <2>3. CASE seq[i + 1] \notin S
    <3>1. f[i + 1] = f[i]
      BY <1>2, <2>1, <2>3
    <3>2. \A j \in 1 .. i + 1 : seq[j] \in S => j \in 1 .. i
      BY <2>3
    <3> QED  BY <2>1, <3>1, <3>2
  <2> QED  BY <2>2, <2>3
<1>5. \A i \in Nat : i \in Upto => i + 1 \in Upto
  <2> HIDE DEF Good
  <2> QED  BY <1>4
<1>6. Nat \subseteq Upto
  BY <1>3, <1>5, Induct
<1>7. Good(Len(seq))
  BY <1>0, <1>6
<1>8. \A j \in 1 .. Len(seq) : seq[j] \in S => Contains(f[Len(seq)], seq[j])
  BY <1>7, Zenon DEF Contains
<1> QED  BY <1>1, <1>7, <1>8

\* Nothing is left of nothing.
LEMMA OnlyEmpty == \A S : Only(<<>>, S) = <<>>
<1> SUFFICES ASSUME NEW S PROVE Only(<<>>, S) = <<>>
  OBVIOUS
<1>1. Len(<<>>) = 0
  <2>1. \A s \in Seq(S) : s = <<>> => Len(s) = 0
    OBVIOUS
  <2> QED  BY <2>1
<1>2. PICK f : IsUpTo(f, <<>>, S, 0) /\ Only(<<>>, S) = f[0]
  BY <1>1, OnlyIsUpTo
<1> QED  BY <1>2, UpToUnfolds

\* One element more is kept, or not.
LEMMA OnlyAppend ==
    ASSUME NEW T, NEW seq \in Seq(T), NEW x \in T, NEW S
    PROVE  Only(Append(seq, x), S) = IF x \in S THEN Append(Only(seq, S), x) ELSE Only(seq, S)
<1> DEFINE n == Len(seq)
           more == Append(seq, x)
<1>0. n \in Nat /\ Len(more) = n + 1 /\ more[n + 1] = x /\ \A i \in 1 .. n : more[i] = seq[i]
  OBVIOUS
<1> HIDE DEF n, more
<1>1. PICK f : IsUpTo(f, seq, S, n) /\ Only(seq, S) = f[n]
  BY <1>0, OnlyIsUpTo DEF n
<1>2. PICK e : IsUpTo(e, more, S, n + 1) /\ Only(more, S) = e[n + 1]
  <2>1. PICK e : IsUpTo(e, more, S, Len(more)) /\ Only(more, S) = e[Len(more)]
    BY <1>0, OnlyIsUpTo
  <2> QED  BY <1>0, <2>1
<1>3. f[0] = <<>> /\ \A i \in 1 .. n : f[i] = IF seq[i] \in S THEN Append(f[i - 1], seq[i]) ELSE f[i - 1]
  BY <1>0, <1>1, UpToUnfolds
<1>4. e[0] = <<>> /\ \A i \in 1 .. n + 1 : e[i] = IF more[i] \in S THEN Append(e[i - 1], more[i]) ELSE e[i - 1]
  <2>1. n + 1 \in Nat
    BY <1>0
  <2> QED  BY <1>2, <2>1, UpToUnfolds
<1> DEFINE Same0 == {i \in Nat : i <= n => f[i] = e[i]}
<1>5. 0 \in Same0
  BY <1>3, <1>4
<1>6. ASSUME NEW i \in Nat, i \in Same0, i + 1 <= n PROVE f[i + 1] = e[i + 1]
  <2>1. i + 1 \in 1 .. n /\ i + 1 \in 1 .. n + 1 /\ (i + 1) - 1 = i /\ f[i] = e[i]
    BY <1>0, <1>6
  <2>2. more[i + 1] = seq[i + 1]
    BY <1>0, <2>1
  <2>3. f[i + 1] = IF seq[i + 1] \in S THEN Append(f[i], seq[i + 1]) ELSE f[i]
    BY <1>3, <2>1
  <2>4. e[i + 1] = IF more[i + 1] \in S THEN Append(e[i], more[i + 1]) ELSE e[i]
    BY <1>4, <2>1
  <2> QED  BY <2>1, <2>2, <2>3, <2>4
<1>7. \A i \in Nat : i \in Same0 => i + 1 \in Same0
  BY <1>6
<1>8. Nat \subseteq Same0
  BY <1>5, <1>7, Induct
<1>9. f[n] = e[n]
  BY <1>0, <1>8
<1>10. e[n + 1] = IF x \in S THEN Append(e[n], x) ELSE e[n]
  <2>1. n + 1 \in 1 .. n + 1 /\ (n + 1) - 1 = n
    BY <1>0
  <2> QED  BY <1>0, <1>4, <2>1
<1> QED  BY <1>1, <1>2, <1>9, <1>10 DEF more

-----------------------------------------------------------------------------
(* SlogAttrs *)

\* The attributes of the arguments from each of the last n on.
IsFrom(f, args, n) ==
    f = [i \in Len(args) + 1 - n .. Len(args) + 1 |->
            IF i > Len(args) THEN <<>>
            ELSE IF args[i] \in Strings /\ i < Len(args)
            THEN <<[key |-> args[i], value |-> args[i + 1]]>> \o f[i + 2]
            ELSE <<Lone(args[i])>> \o f[i + 1]]

\* There is such a function, for every length.
LEMMA FromExists == ASSUME NEW args, Len(args) \in Nat PROVE \A n \in Nat : \E f : IsFrom(f, args, n)
<1> DEFINE L == Len(args)
           Entry(f, i) == IF i > L THEN <<>>
                          ELSE IF args[i] \in Strings /\ i < L
                          THEN <<[key |-> args[i], value |-> args[i + 1]]>> \o f[i + 2]
                          ELSE <<Lone(args[i])>> \o f[i + 1]
           There == {n \in Nat : \E f : IsFrom(f, args, n)}
<1>0. L \in Nat
  OBVIOUS
<1>a. \A f, n : IsFrom(f, args, n) <=> f = [i \in L + 1 - n .. L + 1 |-> Entry(f, i)]
  BY Zenon DEF IsFrom
<1> HIDE DEF L
<1>1. 0 \in There
  <2> DEFINE e == [i \in L + 1 .. L + 1 |-> <<>>]
  <2>1. \A i \in L + 1 - 0 .. L + 1 : i > L /\ e[i] = <<>>
    BY <1>0
  <2>2. e = [i \in L + 1 - 0 .. L + 1 |-> Entry(e, i)]
    <3>1. L + 1 - 0 .. L + 1 = L + 1 .. L + 1
      BY <1>0
    <3>2. \A i \in L + 1 .. L + 1 : Entry(e, i) = <<>>
      BY <2>1, <3>1, Zenon
    <3> QED  BY <3>1, <3>2, Zenon
  <2>3. IsFrom(e, args, 0)
    BY <1>a, <2>2, Zenon
  <2> QED  BY <2>3
<1>2. ASSUME NEW n \in Nat, n \in There PROVE n + 1 \in There
  <2>0. PICK f : IsFrom(f, args, n)
    BY <1>2
  <2>1. f = [i \in L + 1 - n .. L + 1 |-> Entry(f, i)]
    BY <1>a, <2>0, Zenon
  <2> DEFINE e == [i \in L + 1 - (n + 1) .. L + 1 |-> IF i = L - n THEN Entry(f, i) ELSE f[i]]
  <2>2. \A i \in L + 1 - n .. L + 3 : i \in L + 1 - n .. L + 1 => i \in L + 1 - (n + 1) .. L + 1 /\ i # L - n
    BY <1>0
  <2>3. \A i \in L + 1 - n .. L + 1 : e[i] = f[i]
    BY <1>0
  <2>4. ASSUME NEW i \in L + 1 - (n + 1) .. L + 1 PROVE Entry(e, i) = Entry(f, i)
    <3>1. i <= L => i + 1 \in L + 1 - n .. L + 1
      BY <1>0
    <3>2. i < L => i + 2 \in L + 1 - n .. L + 1
      BY <1>0
    <3>3. i > L \/ i <= L
      BY <1>0
    <3>4. i <= L => e[i + 1] = f[i + 1]
      BY <2>3, <3>1
    <3>5. i < L => e[i + 2] = f[i + 2]
      BY <2>3, <3>2
    <3> HIDE DEF e
    <3> QED  BY <3>3, <3>4, <3>5, Zenon
  <2>5. ASSUME NEW i \in L + 1 - (n + 1) .. L + 1 PROVE e[i] = Entry(f, i)
    <3>1. CASE i = L - n
      <4>1. e[i] = IF i = L - n THEN Entry(f, i) ELSE f[i]
        BY Zenon
      <4> HIDE DEF e, Entry
      <4> QED  BY <3>1, <4>1, Zenon
    <3>2. CASE i # L - n
      <4>1. i \in L + 1 - n .. L + 1
        BY <1>0, <3>2
      <4>2. f[i] = Entry(f, i)
        BY <2>1, <4>1, Zenon
      <4> QED  BY <2>3, <4>1, <4>2, Zenon
    <3> QED  BY <3>1, <3>2
  <2>6. e = [i \in L + 1 - (n + 1) .. L + 1 |-> Entry(e, i)]
    <3>1. e = [i \in L + 1 - (n + 1) .. L + 1 |-> e[i]]
      BY Zenon
    <3> HIDE DEF e, Entry
    <3>2. \A i \in L + 1 - (n + 1) .. L + 1 : e[i] = Entry(e, i)
      BY <2>4, <2>5, Zenon
    <3> QED  BY <3>1, <3>2, Zenon
  <2>7. IsFrom(e, args, n + 1)
    BY <1>a, <2>6, Zenon
  <2> QED  BY <2>7
<1>3. Nat \subseteq There
  BY <1>1, <1>2, Induct
<1> QED  BY <1>3

\* So slog's reading of all arguments is its value at the first.
LEMMA SlogIsFrom ==
    ASSUME NEW args, Len(args) \in Nat
    PROVE  \E f : /\ SlogAttrs(args) = f[1] /\ f[Len(args) + 1] = <<>>
                  /\ \A i \in 1 .. Len(args) :
                        f[i] = IF args[i] \in Strings /\ i < Len(args)
                               THEN <<[key |-> args[i], value |-> args[i + 1]]>> \o f[i + 2]
                               ELSE <<Lone(args[i])>> \o f[i + 1]
<1> DEFINE L == Len(args)
           Entry(f, i) == IF i > L THEN <<>>
                          ELSE IF args[i] \in Strings /\ i < L
                          THEN <<[key |-> args[i], value |-> args[i + 1]]>> \o f[i + 2]
                          ELSE <<Lone(args[i])>> \o f[i + 1]
           from == CHOOSE f : f = [i \in 1 .. L + 1 |-> Entry(f, i)]
<1>0. L \in Nat
  OBVIOUS
<1>1. SlogAttrs(args) = from[1]
  BY Zenon DEF SlogAttrs
<1>2. from = [i \in 1 .. L + 1 |-> Entry(from, i)]
  <2>1. \E f : IsFrom(f, args, L)
    BY <1>0, FromExists
  <2>2. L + 1 - L = 1
    BY <1>0
  <2>3. \E f : f = [i \in 1 .. L + 1 |-> Entry(f, i)]
    BY <2>1, <2>2, Zenon DEF IsFrom
  <2> QED  BY <2>3, Zenon
<1> HIDE DEF from, L
<1>3. \A i \in 1 .. L + 1 : from[i] = Entry(from, i)
  BY <1>2, Zenon
<1>4. L + 1 \in 1 .. L + 1 /\ L + 1 > L /\ \A i \in 1 .. L : i \in 1 .. L + 1 /\ ~(i > L)
  BY <1>0
<1>5. from[L + 1] = <<>>
  BY <1>3, <1>4, Zenon
<1>6. \A i \in 1 .. L : from[i] = IF args[i] \in Strings /\ i < L
                                  THEN <<[key |-> args[i], value |-> args[i + 1]]>> \o from[i + 2]
                                  ELSE <<Lone(args[i])>> \o from[i + 1]
  BY <1>3, <1>4, Zenon
<1> QED  BY <1>1, <1>5, <1>6, Zenon DEF L

\* What an attribute of arguments is, as slog reads them.
Field(T) == [key : T \cup {BadKey}, value : T]

\* slog makes attributes of whatever it is given.
LEMMA SlogType ==
    ASSUME NEW T, NEW args \in Seq(T), \A a \in T : Lone(a) \in Field(T)
    PROVE  SlogAttrs(args) \in Seq(Field(T))
<1> DEFINE L == Len(args)
<1>0. L \in Nat /\ \A i \in 1 .. L : args[i] \in T
  OBVIOUS
<1>1. PICK f : /\ SlogAttrs(args) = f[1] /\ f[L + 1] = <<>>
               /\ \A i \in 1 .. L :
                     f[i] = IF args[i] \in Strings /\ i < L
                            THEN <<[key |-> args[i], value |-> args[i + 1]]>> \o f[i + 2]
                            ELSE <<Lone(args[i])>> \o f[i + 1]
  BY <1>0, SlogIsFrom
<1> HIDE DEF L
<1> DEFINE Typed == {n \in Nat : \A i \in 1 .. L + 1 : L + 1 - i <= n => f[i] \in Seq(Field(T))}
<1>2. 0 \in Typed
  <2>1. \A i \in 1 .. L + 1 : L + 1 - i <= 0 => i = L + 1
    BY <1>0
  <2>2. <<>> \in Seq(Field(T))
    OBVIOUS
  <2> QED  BY <1>1, <2>1, <2>2
<1>3. ASSUME NEW n \in Nat, n \in Typed, NEW i \in 1 .. L + 1, L + 1 - i <= n + 1 PROVE f[i] \in Seq(Field(T))
  <2>1. CASE i = L + 1
    <3>1. <<>> \in Seq(Field(T))
      OBVIOUS
    <3> QED  BY <1>1, <2>1, <3>1
  <2>2. CASE i # L + 1
    <3>1. i \in 1 .. L /\ i + 1 \in 1 .. L + 1 /\ L + 1 - (i + 1) <= n /\ args[i] \in T
      BY <1>0, <1>3, <2>2
    <3>2. f[i + 1] \in Seq(Field(T))
      BY <1>3, <3>1
    <3>3. CASE args[i] \in Strings /\ i < L
      <4>1. i + 2 \in 1 .. L + 1 /\ L + 1 - (i + 2) <= n /\ i + 1 \in 1 .. L
        BY <1>0, <3>1, <3>3
      <4>2. f[i + 2] \in Seq(Field(T)) /\ args[i + 1] \in T
        BY <1>0, <1>3, <4>1
      <4>3. [key |-> args[i], value |-> args[i + 1]] \in Field(T)
        BY <3>1, <4>2 DEF Field
      <4>4. f[i] = <<[key |-> args[i], value |-> args[i + 1]]>> \o f[i + 2]
        BY <1>1, <3>1, <3>3
      <4> QED  BY <4>2, <4>3, <4>4
    <3>4. CASE ~(args[i] \in Strings /\ i < L)
      <4>1. Lone(args[i]) \in Field(T)
        BY <3>1
      <4>2. f[i] = <<Lone(args[i])>> \o f[i + 1]
        BY <1>1, <3>1, <3>4
      <4> QED  BY <3>2, <4>1, <4>2
    <3> QED  BY <3>3, <3>4
  <2> QED  BY <2>1, <2>2
<1>4. \A n \in Nat : n \in Typed => n + 1 \in Typed
  BY <1>3
<1>5. Nat \subseteq Typed
  BY <1>2, <1>4, Induct
<1>6. f[1] \in Seq(Field(T))
  <2>1. 1 \in 1 .. L + 1 /\ L + 1 - 1 <= L
    BY <1>0
  <2>2. \A i \in 1 .. L + 1 : L + 1 - i <= L => f[i] \in Seq(Field(T))
    BY <1>0, <1>5, Zenon
  <2> QED  BY <2>1, <2>2
<1> QED  BY <1>1, <1>6

\* Arguments by twos, each first one a string: how With is meant to be called.
Paired(args) ==
    /\ args \in Seq(Args)
    /\ Len(args) % 2 = 0
    /\ \A i \in 1 .. Len(args) : i % 2 = 1 => args[i] \in Strings

\* Their attributes.
InPairs(args) == [i \in 1 .. Len(args) \div 2 |-> [key |-> args[2 * i - 1], value |-> args[2 * i]]]

\* Their attributes are half as many.
LEMMA PairsType ==
    ASSUME NEW args, Paired(args)
    PROVE  /\ InPairs(args) \in Seq([key : Strings, value : Args])
           /\ Len(args) \in Nat /\ Len(args) \div 2 \in Nat /\ 2 * (Len(args) \div 2) = Len(args)
           /\ Len(InPairs(args)) = Len(args) \div 2
<1> DEFINE L == Len(args)
           h == L \div 2
<1>1. L \in Nat /\ L % 2 = 0 /\ \A i \in 1 .. L : args[i] \in Args /\ (i % 2 = 1 => args[i] \in Strings)
  BY DEF Paired
<1> HIDE DEF L
<1>2. h \in Nat /\ 2 * h = L
  BY <1>1
<1>3. \A i \in 1 .. h : 2 * i - 1 \in 1 .. L /\ 2 * i \in 1 .. L /\ (2 * i - 1) % 2 = 1
  BY <1>1, <1>2
<1>4. \A i \in 1 .. h : [key |-> args[2 * i - 1], value |-> args[2 * i]] \in [key : Strings, value : Args]
  BY <1>1, <1>3
<1> HIDE DEF h
<1>5. /\ [i \in 1 .. h |-> [key |-> args[2 * i - 1], value |-> args[2 * i]]] \in Seq([key : Strings, value : Args])
      /\ Len([i \in 1 .. h |-> [key |-> args[2 * i - 1], value |-> args[2 * i]]]) = h
  BY <1>2, <1>4
<1> QED  BY <1>1, <1>2, <1>5 DEF InPairs, L, h

\* argsToAttrs reads such arguments by twos,
LEMMA PlainPairs == ASSUME NEW args, Paired(args) PROVE safeArgs(args) = args /\ argsToAttrs(args) = InPairs(args)
<1>1. safeArgs(args) = args
  BY DEF Paired, safeArgs
<1>2. \A i \in 1 .. Len(args) \div 2 : args[2 * i - 1] \in Strings
  <2> DEFINE L == Len(args)
             h == L \div 2
  <2>0. L \in Nat /\ 2 * h = L /\ h \in Nat
    BY PairsType
  <2>1. L \in Nat /\ 2 * h = L /\ h \in Nat /\ \A i \in 1 .. L : i % 2 = 1 => args[i] \in Strings
    BY <2>0, Zenon DEF Paired
  <2> HIDE DEF h, L
  <2>2. \A i \in 1 .. h : 2 * i - 1 \in 1 .. L /\ (2 * i - 1) % 2 = 1
    BY <2>1
  <2> QED  BY <2>1, <2>2, Zenon DEF h, L
<1>3. argsToAttrs(args) = [i \in 1 .. Len(args) \div 2 |-> [key |-> Sprint(args[2 * i - 1]), value |-> args[2 * i]]]
  BY <1>1, Zenon DEF argsToAttrs
<1>4. \A i \in 1 .. Len(args) \div 2 : Sprint(args[2 * i - 1]) = args[2 * i - 1]
  BY <1>2 DEF Sprint
<1> QED  BY <1>1, <1>3, <1>4, Zenon DEF InPairs

\* Where slog finds the same attributes.
\* ... and so does slog.
LEMMA SlogPairs == ASSUME NEW args, Paired(args) PROVE SlogAttrs(args) = InPairs(args)
<1> DEFINE L == Len(args)
           h == L \div 2
           Pair(j) == [key |-> args[2 * j - 1], value |-> args[2 * j]]
           Rest(n) == [j \in 1 .. n |-> Pair(h - n + j)]
           Attribute == [key : Strings, value : Args]
<1>0. /\ L \in Nat /\ h \in Nat /\ 2 * h = L
      /\ \A i \in 1 .. L : args[i] \in Args /\ (i % 2 = 1 => args[i] \in Strings)
  BY PairsType DEF Paired
<1>1. PICK f : /\ SlogAttrs(args) = f[1] /\ f[L + 1] = <<>>
               /\ \A i \in 1 .. L :
                     f[i] = IF args[i] \in Strings /\ i < L
                            THEN <<[key |-> args[i], value |-> args[i + 1]]>> \o f[i + 2]
                            ELSE <<Lone(args[i])>> \o f[i + 1]
  BY <1>0, SlogIsFrom
<1>2. InPairs(args) = [j \in 1 .. h |-> Pair(j)]
  BY Zenon DEF InPairs
<1> HIDE DEF L, h
<1>3. ASSUME NEW j \in 1 .. h PROVE Pair(j) \in Attribute /\ f[2 * j - 1] = <<Pair(j)>> \o f[2 * j + 1]
  <2>1. 2 * j - 1 \in 1 .. L /\ 2 * j \in 1 .. L /\ (2 * j - 1) % 2 = 1 /\ 2 * j - 1 < L
        /\ (2 * j - 1) + 1 = 2 * j /\ (2 * j - 1) + 2 = 2 * j + 1
    BY <1>0
  <2>2. args[2 * j - 1] \in Strings /\ args[2 * j] \in Args
    BY <1>0, <2>1
  <2>3. f[2 * j - 1] = <<Pair(j)>> \o f[2 * j + 1]
    <3>1. f[2 * j - 1] = <<[key |-> args[2 * j - 1], value |-> args[(2 * j - 1) + 1]]>> \o f[(2 * j - 1) + 2]
      BY <1>1, <2>1, <2>2, Zenon
    <3> QED  BY <2>1, <3>1, Zenon
  <2> QED  BY <2>2, <2>3
<1> HIDE DEF Pair, Attribute
<1> DEFINE Told == {n \in Nat : n <= h => f[2 * (h - n) + 1] = Rest(n) /\ Rest(n) \in Seq(Attribute)}
<1>4. ASSUME NEW n \in Nat, n <= h PROVE Rest(n) \in Seq(Attribute) /\ Len(Rest(n)) = n
  <2>1. \A j \in 1 .. n : Pair(h - n + j) \in Attribute
    <3>1. \A j \in 1 .. n : h - n + j \in 1 .. h
      BY <1>0, <1>4
    <3> QED  BY <1>3, <3>1
  <2> QED  BY <2>1
<1>5. 0 \in Told
  <2>1. 2 * (h - 0) + 1 = L + 1 /\ 0 <= h
    BY <1>0
  <2>2. Rest(0) = <<>>
    <3>1. Rest(0) \in Seq(Attribute) /\ Len(Rest(0)) = 0
      BY <1>4, <2>1
    <3> HIDE DEF Rest
    <3> QED  BY <3>1
  <2> QED  BY <1>1, <1>4, <2>1, <2>2, Zenon
<1>6. ASSUME NEW n \in Nat, n \in Told, n + 1 <= h PROVE f[2 * (h - (n + 1)) + 1] = Rest(n + 1)
  <2> DEFINE j == h - n
  <2>1. j \in 1 .. h /\ 2 * (h - (n + 1)) + 1 = 2 * j - 1 /\ 2 * (h - n) + 1 = 2 * j + 1 /\ n <= h
    <3>1. h \in Nat /\ n + 1 <= h
      BY <1>0, <1>6
    <3> HIDE DEF Told, Rest
    <3> QED  BY <3>1
  <2>2. f[2 * j + 1] = Rest(n) /\ Rest(n) \in Seq(Attribute) /\ Len(Rest(n)) = n
    BY <1>4, <1>6, <2>1
  <2>3. f[2 * j - 1] = <<Pair(j)>> \o Rest(n) /\ Pair(j) \in Attribute
    BY <1>3, <2>1, <2>2
  <2>4. Rest(n + 1) \in Seq(Attribute) /\ Len(Rest(n + 1)) = n + 1
    BY <1>4, <1>6
  <2>5. \A i \in 1 .. n + 1 : Rest(n + 1)[i] = IF i = 1 THEN Pair(j) ELSE Rest(n)[i - 1]
    <3> SUFFICES ASSUME NEW i \in 1 .. n + 1 PROVE Rest(n + 1)[i] = IF i = 1 THEN Pair(j) ELSE Rest(n)[i - 1]
      OBVIOUS
    <3>1. Rest(n + 1)[i] = Pair(h - (n + 1) + i)
      OBVIOUS
    <3>2. i = 1 => h - (n + 1) + i = j
      BY <1>0
    <3>3. i # 1 => i - 1 \in 1 .. n /\ h - (n + 1) + i = h - n + (i - 1)
      BY <1>0
    <3>4. i # 1 => Rest(n)[i - 1] = Pair(h - n + (i - 1))
      BY <3>3
    <3> HIDE DEF Rest
    <3> QED  BY <3>1, <3>2, <3>3, <3>4, Zenon
  <2> HIDE DEF j, Rest
  <2>6. <<Pair(j)>> \o Rest(n) \in Seq(Attribute) /\ Len(<<Pair(j)>> \o Rest(n)) = n + 1
        /\ \A i \in 1 .. n + 1 : (<<Pair(j)>> \o Rest(n))[i] = IF i = 1 THEN Pair(j) ELSE Rest(n)[i - 1]
    BY <2>2, <2>3
  <2>7. <<Pair(j)>> \o Rest(n) = Rest(n + 1)
    <3>1. Len(<<Pair(j)>> \o Rest(n)) = Len(Rest(n + 1))
      BY <2>4, <2>6
    <3>2. \A i \in 1 .. Len(<<Pair(j)>> \o Rest(n)) : (<<Pair(j)>> \o Rest(n))[i] = Rest(n + 1)[i]
      BY <2>5, <2>6, Zenon
    <3> QED  BY <2>4, <2>6, <3>1, <3>2, SeqEqual, Zenon
  <2> QED  BY <2>1, <2>3, <2>7
<1>7. \A n \in Nat : n \in Told => n + 1 \in Told
  <2>1. ASSUME NEW n \in Nat, n \in Told, n + 1 <= h PROVE Rest(n + 1) \in Seq(Attribute)
    BY <1>4, <2>1
  <2> HIDE DEF Rest
  <2> QED  BY <1>6, <2>1
<1>8. Nat \subseteq Told
  BY <1>5, <1>7, Induct
<1>9. f[2 * (h - h) + 1] = Rest(h)
  BY <1>0, <1>8
<1>10. 2 * (h - h) + 1 = 1 /\ Rest(h) = InPairs(args)
  <2>1. \A i \in 1 .. h : h - h + i = i
    BY <1>0
  <2>2. 2 * (h - h) + 1 = 1
    BY <1>0
  <2> QED  BY <1>2, <2>1, <2>2, Zenon
<1> QED  BY <1>1, <1>9, <1>10

\* The attributes of arguments after others come after theirs.
LEMMA PairsConcat ==
    ASSUME NEW a, NEW b, Paired(a), Paired(b)
    PROVE  Paired(a \o b) /\ InPairs(a \o b) = InPairs(a) \o InPairs(b)
<1> DEFINE m == Len(a) \div 2
           n == Len(b) \div 2
           c == a \o b
           Attribute == [key : Strings, value : Args]
<1>1. /\ a \in Seq(Args) /\ b \in Seq(Args) /\ m \in Nat /\ n \in Nat
      /\ Len(a) = 2 * m /\ Len(b) = 2 * n /\ Len(InPairs(a)) = m /\ Len(InPairs(b)) = n
      /\ InPairs(a) \in Seq(Attribute) /\ InPairs(b) \in Seq(Attribute)
  BY PairsType DEF Paired
<1>2. /\ \A i \in 1 .. 2 * m : i % 2 = 1 => a[i] \in Strings
      /\ \A i \in 1 .. 2 * n : i % 2 = 1 => b[i] \in Strings
  BY <1>1, Zenon DEF Paired
<1> HIDE DEF m, n
<1>3. c \in Seq(Args) /\ Len(c) = 2 * m + 2 * n
      /\ \A i \in 1 .. 2 * m + 2 * n : c[i] = IF i <= 2 * m THEN a[i] ELSE b[i - 2 * m]
  <2>1. a \in Seq(Args) /\ b \in Seq(Args) /\ Len(a) = 2 * m /\ Len(b) = 2 * n
    BY <1>1
  <2>2. c \in Seq(Args) /\ Len(c) = Len(a) + Len(b)
        /\ \A i \in 1 .. Len(a) + Len(b) : c[i] = IF i <= Len(a) THEN a[i] ELSE b[i - Len(a)]
    BY <2>1, ConcatProperties
  <2> HIDE DEF c
  <2> QED  BY <2>1, <2>2, Zenon
<1> HIDE DEF c, Attribute
<1>4. (2 * m + 2 * n) % 2 = 0 /\ 2 * m + 2 * n = 2 * (m + n)
  BY <1>1
<1>5. \A i \in 1 .. Len(c) : i % 2 = 1 => c[i] \in Strings
  <2> SUFFICES ASSUME NEW i \in 1 .. 2 * m + 2 * n, i % 2 = 1 PROVE c[i] \in Strings
    BY <1>3
  <2>1. CASE i <= 2 * m
    <3>1. i \in 1 .. 2 * m
      BY <1>1, <2>1
    <3> QED  BY <1>2, <1>3, <2>1, <3>1
  <2>2. CASE ~(i <= 2 * m)
    <3>1. i - 2 * m \in 1 .. 2 * n /\ (i - 2 * m) % 2 = 1
      BY <1>1, <2>2
    <3> QED  BY <1>2, <1>3, <2>2, <3>1
  <2> QED  BY <2>1, <2>2
<1>6. Paired(c)
  BY <1>3, <1>4, <1>5 DEF Paired
<1>7. InPairs(c) \in Seq(Attribute) /\ Len(InPairs(c)) = m + n
  <2>1. InPairs(c) \in Seq(Attribute) /\ Len(InPairs(c)) = Len(c) \div 2 /\ 2 * (Len(c) \div 2) = Len(c) /\ Len(c) \div 2 \in Nat
    BY <1>6, PairsType DEF Attribute
  <2> QED  BY <1>1, <1>3, <2>1
<1>8. \A i \in 1 .. m + n : InPairs(c)[i] = IF i <= m THEN InPairs(a)[i] ELSE InPairs(b)[i - m]
  <2>0. Len(c) \div 2 = m + n
    BY <1>1, <1>3
  <2>1. /\ \A i \in 1 .. m + n : InPairs(c)[i] = [key |-> c[2 * i - 1], value |-> c[2 * i]]
        /\ \A i \in 1 .. m : InPairs(a)[i] = [key |-> a[2 * i - 1], value |-> a[2 * i]]
        /\ \A i \in 1 .. n : InPairs(b)[i] = [key |-> b[2 * i - 1], value |-> b[2 * i]]
    BY <2>0, Zenon DEF InPairs, m, n
  <2> SUFFICES ASSUME NEW i \in 1 .. m + n PROVE InPairs(c)[i] = IF i <= m THEN InPairs(a)[i] ELSE InPairs(b)[i - m]
    OBVIOUS
  <2>2. 2 * i - 1 \in 1 .. 2 * m + 2 * n /\ 2 * i \in 1 .. 2 * m + 2 * n
    BY <1>1
  <2>3. CASE i <= m
    <3>1. i \in 1 .. m /\ 2 * i - 1 <= 2 * m /\ 2 * i <= 2 * m
      BY <1>1, <2>3
    <3>2. c[2 * i - 1] = a[2 * i - 1] /\ c[2 * i] = a[2 * i]
      BY <1>3, <2>2, <3>1
    <3> QED  BY <2>1, <2>3, <3>1, <3>2, Zenon
  <2>4. CASE ~(i <= m)
    <3>1. i - m \in 1 .. n /\ ~(2 * i - 1 <= 2 * m) /\ ~(2 * i <= 2 * m)
          /\ 2 * i - 1 - 2 * m = 2 * (i - m) - 1 /\ 2 * i - 2 * m = 2 * (i - m)
      BY <1>1, <2>4
    <3>2. c[2 * i - 1] = b[2 * (i - m) - 1] /\ c[2 * i] = b[2 * (i - m)]
      BY <1>3, <2>2, <3>1
    <3> QED  BY <2>1, <2>4, <3>1, <3>2, Zenon
  <2> QED  BY <2>3, <2>4
<1>9. /\ InPairs(a) \o InPairs(b) \in Seq(Attribute) /\ Len(InPairs(a) \o InPairs(b)) = m + n
      /\ \A i \in 1 .. m + n : (InPairs(a) \o InPairs(b))[i] = IF i <= m THEN InPairs(a)[i] ELSE InPairs(b)[i - m]
  <2>1. InPairs(a) \in Seq(Attribute) /\ InPairs(b) \in Seq(Attribute)
    BY <1>1 DEF Attribute
  <2> QED  BY <1>1, <2>1, ConcatProperties
<1>10. InPairs(c) = InPairs(a) \o InPairs(b)
  BY <1>7, <1>8, <1>9, SeqEqual
<1> QED  BY <1>6, <1>10 DEF c

-----------------------------------------------------------------------------
(* Groups *)

\* A key's prefix names the groups, and one group is named as it is.
Placed(prefix, in) == Only(prefix, Groups) = in /\ (Len(in) = 1 => prefix = in)

\* A handler outside any group, or inside some of them.
GroupsOk(l) ==
    \/ l.groups = <<>> /\ l.opened = <<>>
    \/ /\ Len(l.groups) >= 2 /\ l.groups[1] = Empty /\ l.groups[2] \in Groups
       /\ l.opened # <<>>
       /\ Placed(Prefix(l), l.opened)

Parts == Groups \cup {Empty}

\* The first name is empty, the second is not: joinGroups leaves out the first.
LEMMA JoinSkipsOne ==
    ASSUME NEW g \in Seq(Parts), Len(g) >= 2, g[1] = Empty, g[2] \in Groups
    PROVE  /\ joinGroups(g) = SubSeq(g, 2, Len(g)) /\ joinGroups(g) \in Seq(Parts)
           /\ Len(joinGroups(g)) = Len(g) - 1
           /\ \A i \in 1 .. Len(g) - 1 : joinGroups(g)[i] = g[i + 1]
<1> DEFINE I == {i \in 1 .. Len(g) : g[i] # Empty}
<1>0. Len(g) \in Nat /\ \A i \in 1 .. Len(g) : g[i] \in Parts
  OBVIOUS
<1>1. 2 \in I /\ 1 \notin I /\ \A i \in I : 2 <= i /\ i \in Int
  BY <1>0, GroupAssumption
<1>2. Min(I) = 2
  <2>1. \A x \in I : (\A y \in I : x <= y) => x = 2
    BY <1>1
  <2>2. 2 \in I /\ \A y \in I : 2 <= y
    BY <1>1
  <2> HIDE DEF I
  <2> QED  BY <2>1, <2>2, Zenon DEF Min
<1>3. SelectInSeq(g, LAMBDA x : x # Empty) = 2
  BY <1>1, <1>2, Zenon DEF SelectInSeq
<1>4. joinGroups(g) = SubSeq(g, 2, Len(g))
  BY <1>3, Zenon DEF joinGroups
<1>5. \A i \in 2 .. Len(g) : g[i] \in Parts
  BY <1>0
<1>6. /\ SubSeq(g, 2, Len(g)) \in Seq(Parts)
      /\ Len(SubSeq(g, 2, Len(g))) = IF 2 <= Len(g) THEN Len(g) - 2 + 1 ELSE 0
      /\ \A i \in 1 .. Len(g) - 2 + 1 : SubSeq(g, 2, Len(g))[i] = g[2 + i - 1]
  <2>1. Len(g) \in Int /\ 2 \in Int
    BY <1>0
  <2> HIDE DEF I
  <2> QED  BY <1>5, <2>1, SubSeqProperties
<1>7. Len(g) - 2 + 1 = Len(g) - 1 /\ 2 <= Len(g)
      /\ \A i \in 1 .. Len(g) - 1 : 2 + i - 1 = i + 1
  BY <1>0
<1> HIDE DEF I
<1> QED  BY <1>4, <1>6, <1>7, Zenon

\* What is added to a handler is placed.
LEMMA PrefixType ==
    ASSUME NEW l, l.groups \in Seq(Parts), GroupsOk(l)
    PROVE  Prefix(l) \in Seq(Parts) /\ Placed(Prefix(l), l.opened)
<1>1. CASE l.groups = <<>> /\ l.opened = <<>>
  <2>1. Prefix(l) = <<>> /\ Only(<<>>, Groups) = <<>>
    BY <1>1, OnlyEmpty DEF Prefix
  <2>2. <<>> \in Seq(Parts) /\ ~(Len(<<>>) = 1)
    <3>1. \A s \in Seq(Parts) : s = <<>> => Len(s) = 0
      OBVIOUS
    <3> QED  BY <3>1
  <2> QED  BY <1>1, <2>1, <2>2 DEF Placed
<1>2. CASE Len(l.groups) >= 2 /\ l.groups[1] = Empty /\ l.groups[2] \in Groups /\ Placed(Prefix(l), l.opened)
  <2>1. l.groups # <<>>
    <3>1. \A s \in Seq(Parts) : s = <<>> => ~(Len(s) >= 2)
      OBVIOUS
    <3> QED  BY <1>2, <3>1
  <2>2. Prefix(l) = joinGroups(l.groups)
    BY <2>1 DEF Prefix
  <2> QED  BY <1>2, <2>2, JoinSkipsOne
<1> QED  BY <1>1, <1>2 DEF GroupsOk

\* Opening a group.
LEMMA GroupOpened ==
    ASSUME NEW l, NEW m, l.groups \in Seq(Parts), l.opened \in Seq(Groups), GroupsOk(l), NEW name \in Groups,
           m.groups = l.groups \o <<Empty, name>>, m.opened = Append(l.opened, name)
    PROVE  GroupsOk(m)
<1> DEFINE g == l.groups
           g2 == g \o <<Empty, name>>
<1>0. g \in Seq(Parts) /\ Len(g) \in Nat /\ <<Empty, name>> \in Seq(Parts) /\ name \in Parts /\ Empty \in Parts
  BY DEF Parts
<1>1. /\ g2 \in Seq(Parts) /\ Len(g2) = Len(g) + 2
      /\ \A i \in 1 .. Len(g) : g2[i] = g[i]
      /\ g2[Len(g) + 1] = Empty /\ g2[Len(g) + 2] = name
  BY <1>0
<1>2. m.opened # <<>> /\ m.opened \in Seq(Groups) /\ Len(m.opened) = Len(l.opened) + 1 /\ Len(l.opened) \in Nat
  <2> DEFINE o == l.opened
  <2>1. o \in Seq(Groups) /\ m.opened = Append(o, name)
    OBVIOUS
  <2> HIDE DEF o
  <2>2. Append(o, name) \in Seq(Groups) /\ Len(Append(o, name)) = Len(o) + 1 /\ Len(o) \in Nat
    BY <2>1
  <2>3. \A s \in Seq(Groups) : s = <<>> => Len(s) = 0
    OBVIOUS
  <2>4. Append(o, name) # <<>>
    <3> DEFINE a == Append(o, name)
    <3>1. a \in Seq(Groups) /\ Len(a) = Len(o) + 1 /\ Len(o) \in Nat
      BY <2>2
    <3> HIDE DEF a
    <3>2. a # <<>>
      BY <2>3, <3>1
    <3> QED  BY <3>2 DEF a
  <2> QED  BY <2>1, <2>2, <2>4 DEF o
<1> HIDE DEF g, g2
<1>3. CASE l.groups = <<>> /\ l.opened = <<>>
  <2>1. Len(g) = 0
    <3>1. \A s \in Seq(Parts) : s = <<>> => Len(s) = 0
      OBVIOUS
    <3> QED  BY <1>0, <1>3, <3>1 DEF g
  <2>2. Len(g2) = 2 /\ g2[1] = Empty /\ g2[2] = name
    BY <1>1, <2>1
  <2>3. g2 # <<>>
    <3>1. \A s \in Seq(Parts) : s = <<>> => Len(s) = 0
      OBVIOUS
    <3> QED  BY <1>1, <2>2, <3>1
  <2>4. /\ joinGroups(g2) \in Seq(Parts) /\ Len(joinGroups(g2)) = 1 /\ joinGroups(g2)[1] = name
    <3>1. Len(g2) >= 2 /\ Len(g2) - 1 = 1 /\ 1 \in 1 .. Len(g2) - 1
      BY <2>2
    <3>2. /\ joinGroups(g2) \in Seq(Parts) /\ Len(joinGroups(g2)) = Len(g2) - 1
          /\ \A i \in 1 .. Len(g2) - 1 : joinGroups(g2)[i] = g2[i + 1]
      BY <1>1, <2>2, <3>1, JoinSkipsOne
    <3>3. joinGroups(g2)[1] = g2[1 + 1]
      BY <3>1, <3>2
    <3> QED  BY <2>2, <3>1, <3>2, <3>3
  <2>5. joinGroups(g2) = <<name>>
    <3> DEFINE j == joinGroups(g2)
    <3>1. j \in Seq(Parts) /\ Len(j) = 1 /\ j[1] = name
      BY <2>4
    <3> HIDE DEF j
    <3>2. j = <<name>>
      BY <1>0, <3>1
    <3> QED  BY <3>2 DEF j
  <2>6. Prefix(m) = <<name>> /\ m.opened = <<name>>
    BY <1>3, <2>3, <2>5 DEF Prefix, g, g2
  <2>7. Only(<<name>>, Groups) = <<name>>
    <3>1. <<>> \in Seq(Parts) /\ name \in Parts
      BY <1>0
    <3>2. Only(Append(<<>>, name), Groups) = Append(Only(<<>>, Groups), name)
      BY <3>1, OnlyAppend
    <3>3. Append(<<>>, name) = <<name>>
      OBVIOUS
    <3> QED  BY <3>2, <3>3, OnlyEmpty, Zenon
  <2>8. Placed(Prefix(m), m.opened) /\ m.opened # <<>>
    BY <1>2, <2>6, <2>7, Zenon DEF Placed
  <2> QED  BY <1>2, <2>2, <2>8 DEF GroupsOk, g, g2
<1>4. CASE /\ Len(l.groups) >= 2 /\ l.groups[1] = Empty /\ l.groups[2] \in Groups
           /\ l.opened # <<>> /\ Placed(Prefix(l), l.opened)
  <2>1. Len(g) >= 2 /\ g[1] = Empty /\ g[2] \in Groups /\ Len(g2) >= 2 /\ g2[1] = Empty /\ g2[2] \in Groups
    <3>1. Len(g) >= 2 /\ g[1] = Empty /\ g[2] \in Groups
      BY <1>4, Zenon DEF g
    <3>2. 1 \in 1 .. Len(g) /\ 2 \in 1 .. Len(g) /\ Len(g) + 2 >= 2
      BY <1>0, <3>1
    <3>3. g2[1] = g[1] /\ g2[2] = g[2] /\ Len(g2) >= 2
      BY <1>1, <3>2
    <3> QED  BY <3>1, <3>3
  <2>2. g # <<>> /\ g2 # <<>>
    <3>1. \A s \in Seq(Parts) : s = <<>> => ~(Len(s) >= 2)
      OBVIOUS
    <3> QED  BY <1>0, <1>1, <2>1, <3>1
  <2> DEFINE p == joinGroups(g)
             p2 == joinGroups(g2)
  <2>3. /\ p \in Seq(Parts) /\ Len(p) = Len(g) - 1 /\ \A i \in 1 .. Len(g) - 1 : p[i] = g[i + 1]
    BY <1>0, <2>1, JoinSkipsOne
  <2>4. /\ p2 \in Seq(Parts) /\ Len(p2) = Len(g2) - 1 /\ \A i \in 1 .. Len(g2) - 1 : p2[i] = g2[i + 1]
    BY <1>1, <2>1, JoinSkipsOne
  <2>5. Prefix(l) = p /\ Prefix(m) = p2
    BY <2>2 DEF Prefix, g, g2
  <2> HIDE DEF p, p2
  <2>6. p2 = Append(Append(p, Empty), name)
    <3> DEFINE q == Append(Append(p, Empty), name)
    <3>1. /\ q \in Seq(Parts) /\ Len(q) = Len(p) + 2 /\ q[Len(p) + 1] = Empty /\ q[Len(p) + 2] = name
          /\ \A i \in 1 .. Len(p) : q[i] = p[i]
      BY <1>0, <2>3
    <3> HIDE DEF q
    <3>2. Len(p2) = Len(q) /\ Len(p2) = Len(g) + 1 /\ Len(p) = Len(g) - 1 /\ Len(p) \in Nat
      BY <1>0, <1>1, <2>1, <2>3, <2>4, <3>1
    <3>3. ASSUME NEW i \in 1 .. Len(p2) PROVE p2[i] = q[i]
      <4>1. i \in 1 .. Len(g2) - 1 /\ p2[i] = g2[i + 1]
        BY <2>4, <3>2, <3>3
      <4>2. CASE i \in 1 .. Len(p)
        <5>1. i \in 1 .. Len(g) - 1 /\ i + 1 \in 1 .. Len(g)
          BY <1>0, <2>3, <4>2
        <5>2. p[i] = g[i + 1] /\ g2[i + 1] = g[i + 1] /\ q[i] = p[i]
          BY <1>1, <2>3, <3>1, <4>2, <5>1
        <5> QED  BY <4>1, <5>2
      <4>3. CASE i = Len(p) + 1
        <5>1. i + 1 = Len(g) + 1
          BY <1>0, <3>2, <4>3
        <5> QED  BY <1>1, <3>1, <4>1, <4>3, <5>1
      <4>4. CASE i = Len(p) + 2
        <5>1. i + 1 = Len(g) + 2
          BY <1>0, <3>2, <4>4
        <5> QED  BY <1>1, <3>1, <4>1, <4>4, <5>1
      <4>5. i \in 1 .. Len(p) \/ i = Len(p) + 1 \/ i = Len(p) + 2
        BY <3>2, <3>3, <1>0
      <4> QED  BY <4>2, <4>3, <4>4, <4>5
    <3>4. p2 = q
      BY <2>4, <3>1, <3>2, <3>3, SeqEqual
    <3> QED  BY <3>4 DEF q
  <2>7. Only(p2, Groups) = Append(Only(p, Groups), name)
    <3>1. Append(p, Empty) \in Seq(Parts)
      BY <1>0, <2>3
    <3>2. p \in Seq(Parts) /\ name \in Parts /\ Empty \in Parts
      BY <1>0, <2>3
    <3>3. Only(Append(p, Empty), Groups) = Only(p, Groups)
      BY <3>2, OnlyAppend, GroupAssumption
    <3>4. Only(Append(Append(p, Empty), name), Groups) = Append(Only(Append(p, Empty), Groups), name)
      BY <3>1, <3>2, OnlyAppend
    <3> QED  BY <2>6, <3>3, <3>4, Zenon
  <2>8. Only(p, Groups) = l.opened
    BY <1>4, <2>5 DEF Placed
  <2>9. Len(l.opened) # 0
    <3>1. \A s \in Seq(Groups) : Len(s) = 0 => s = <<>>
      OBVIOUS
    <3> QED  BY <1>4, <3>1
  <2>10. ~(Len(m.opened) = 1)
    BY <1>2, <2>9
  <2> QED  BY <1>2, <2>1, <2>5, <2>7, <2>8, <2>10 DEF GroupsOk, Placed, g2, g
<1> QED  BY <1>3, <1>4 DEF GroupsOk

-----------------------------------------------------------------------------
(* Loggers and their slices *)

Printed == {[printed |-> a] : a \in Args}
Given   == [key : Args \cup {BadKey} \cup Printed, value : Args]
Attr    == [key : Args \cup {BadKey} \cup Printed, value : Args, prefix : Seq(Parts), in : Seq(Groups)]
Logger  == [attrs : Seq(Attr), withArgs : [array : Nat, len : Nat], preAttrKeys : Seq(Strings), hooks : Nat,
            handler : BOOLEAN, groups : Seq(Parts), opened : Seq(Groups)]

\* The arguments of With are in an array.
Fits(l) == l.withArgs.array \in 1 .. Len(arrays) /\ l.withArgs.len \in 0 .. Len(arrays[l.withArgs.array])

AttrsOk(l) == \A j \in 1 .. Len(l.attrs) : Placed(l.attrs[j].prefix, l.attrs[j].in)

LoggersInv ==
    /\ loggers \in Seq(Logger)
    /\ arrays \in Seq(Seq(Args))
    /\ \A i \in 1 .. Len(loggers) : Fits(loggers[i]) /\ GroupsOk(loggers[i]) /\ AttrsOk(loggers[i])

\* Attributes as they are added to a logger.
LEMMA AddedIs ==
    ASSUME NEW l \in Logger, GroupsOk(l), NEW attrs \in Seq(Given)
    PROVE  /\ Added(l, attrs) \in Seq(Attr) /\ Len(Added(l, attrs)) = Len(attrs)
           /\ \A i \in 1 .. Len(attrs) :
                 /\ Added(l, attrs)[i].key = attrs[i].key
                 /\ Placed(Added(l, attrs)[i].prefix, Added(l, attrs)[i].in)
<1> DEFINE n == Len(attrs)
           p == Prefix(l)
           Put(i) == [key |-> attrs[i].key, value |-> attrs[i].value, prefix |-> p, in |-> l.opened]
<1>1. n \in Nat /\ \A i \in 1 .. n : attrs[i] \in Given
  OBVIOUS
<1>2. p \in Seq(Parts) /\ Placed(p, l.opened) /\ l.opened \in Seq(Groups)
  BY PrefixType DEF Logger
<1>3. Added(l, attrs) = [i \in 1 .. n |-> Put(i)]
  BY Zenon DEF Added
<1> HIDE DEF n, p
<1>4. \A i \in 1 .. n : Put(i) \in Attr /\ Put(i).key = attrs[i].key /\ Put(i).prefix = p /\ Put(i).in = l.opened
  BY <1>1, <1>2 DEF Given, Attr
<1> HIDE DEF Put
<1>5. [i \in 1 .. n |-> Put(i)] \in Seq(Attr) /\ Len([i \in 1 .. n |-> Put(i)]) = n
  BY <1>1, <1>4
<1>6. \A i \in 1 .. n : [j \in 1 .. n |-> Put(j)][i] = Put(i)
  OBVIOUS
<1> QED  BY <1>2, <1>3, <1>4, <1>5, <1>6, Zenon DEF n

\* What a context gives: each value behind a name.
LEMMA ContextPaired ==
    ASSUME NEW names \in SUBSET Names
    PROVE  Paired(extractContextInfo(names))
<1> DEFINE found == Only(ContextNames, names)
           n == Len(found)
           Arg(i) == IF i % 2 = 1 THEN found[(i + 1) \div 2] ELSE ContextValue
<1>1. found \in Seq(Strings \cap names)
  BY OnlyType, NameAssumption
<1> HIDE DEF found
<1>2. n \in Nat /\ \A i \in 1 .. n : found[i] \in Strings
  BY <1>1
<1> HIDE DEF n
<1>3. \A i \in 1 .. 2 * n : i % 2 = 1 => (i + 1) \div 2 \in 1 .. n
  BY <1>2
<1>4. \A i \in 1 .. 2 * n : Arg(i) \in Args /\ (i % 2 = 1 => Arg(i) \in Strings)
  BY <1>2, <1>3 DEF Args
<1>5. extractContextInfo(names) = [i \in 1 .. 2 * n |-> Arg(i)]
  BY Zenon DEF extractContextInfo, n, found
<1> HIDE DEF Arg
<1>6. 2 * n \in Nat /\ (2 * n) % 2 = 0
  BY <1>2
<1>7. [i \in 1 .. 2 * n |-> Arg(i)] \in Seq(Args) /\ Len([i \in 1 .. 2 * n |-> Arg(i)]) = 2 * n
      /\ \A i \in 1 .. 2 * n : [j \in 1 .. 2 * n |-> Arg(j)][i] = Arg(i)
  BY <1>4, <1>6
<1> QED  BY <1>4, <1>5, <1>6, <1>7, Zenon DEF Paired

\* The array behind what appendWithArgs returns.
Grows ==
    /\ arrays' \in Seq(Seq(Args)) /\ Len(arrays) <= Len(arrays') /\ Len(arrays') \in Nat
    /\ \A k \in 1 .. Len(arrays) : arrays'[k] = arrays[k]

\* A slice's elements are arguments.
LEMMA ElemsType ==
    ASSUME LoggersInv, NEW l, Fits(l)
    PROVE  /\ Elems(l.withArgs) \in Seq(Args) /\ Len(Elems(l.withArgs)) = l.withArgs.len
           /\ arrays[l.withArgs.array] \in Seq(Args)
<1> DEFINE a == arrays[l.withArgs.array]
           n == l.withArgs.len
<1>1. a \in Seq(Args) /\ n \in 0 .. Len(a)
  BY DEF Fits, LoggersInv
<1>2. n \in Nat /\ Len(a) \in Nat /\ n <= Len(a)
  BY <1>1
<1>3. \A i \in 1 .. n : a[i] \in Args
  BY <1>1, <1>2
<1>4. Elems(l.withArgs) = SubSeq(a, 1, n)
  BY DEF Elems
<1> HIDE DEF a, n
<1>5. SubSeq(a, 1, n) \in Seq(Args) /\ Len(SubSeq(a, 1, n)) = n
  BY <1>1, <1>2, <1>3
<1> QED  BY <1>1, <1>4, <1>5 DEF a, n

\* Whoever has a slice of an array that is there keeps it.
LEMMA GrowsKeeps ==
    ASSUME LoggersInv, Grows, NEW l, Fits(l)
    PROVE  Fits(l)' /\ Elems(l.withArgs)' = Elems(l.withArgs)
<1>1. l.withArgs.array \in 1 .. Len(arrays) /\ Len(arrays) \in Nat
  BY DEF Fits, LoggersInv
<1>2. arrays'[l.withArgs.array] = arrays[l.withArgs.array] /\ l.withArgs.array \in 1 .. Len(arrays')
  BY <1>1 DEF Grows
<1> QED  BY <1>2 DEF Fits, Elems

\* appendWithArgs makes a slice of the old elements and the new ones.
LEMMA AppendIs ==
    ASSUME LoggersInv, NEW l \in Logger, Fits(l), NEW args \in Seq(Args), NEW m,
           m.withArgs = appendWithArgs(l.withArgs, args).slice, arrays' = appendWithArgs(l.withArgs, args).arrays
    PROVE  Grows /\ Fits(m)' /\ m.withArgs \in [array : Nat, len : Nat]
           /\ Elems(m.withArgs)' = Elems(l.withArgs) \o args
<1> DEFINE old == Elems(l.withArgs)
           all == old \o args
<1>0. arrays \in Seq(Seq(Args)) /\ Len(arrays) \in Nat
  BY DEF LoggersInv
<1>1. old \in Seq(Args) /\ all \in Seq(Args) /\ Len(all) \in Nat
  BY ElemsType
<1>2. CASE args = <<>>
  <2>1. m.withArgs = l.withArgs /\ arrays' = arrays
    BY <1>2 DEF appendWithArgs
  <2>2. Fits(m)' /\ m.withArgs \in [array : Nat, len : Nat] /\ Elems(m.withArgs)' = old
    BY <2>1 DEF Fits, Elems, Logger
  <2>3. Grows
    BY <1>0, <2>1 DEF Grows
  <2>4. all = old
    BY <1>1, <1>2, ConcatEmptySeq
  <2> QED  BY <2>2, <2>3, <2>4
<1>3. CASE args # <<>>
  <2>1. m.withArgs = [array |-> Len(arrays) + 1, len |-> Len(all)] /\ arrays' = Append(arrays, all)
    BY <1>3 DEF appendWithArgs
  <2> HIDE DEF all, old
  <2>2. /\ Append(arrays, all) \in Seq(Seq(Args)) /\ Len(Append(arrays, all)) = Len(arrays) + 1
        /\ Append(arrays, all)[Len(arrays) + 1] = all
        /\ \A k \in 1 .. Len(arrays) : Append(arrays, all)[k] = arrays[k]
    BY <1>0, <1>1
  <2>3. Grows
    BY <1>0, <2>1, <2>2 DEF Grows
  <2>4. arrays'[m.withArgs.array] = all /\ m.withArgs.array = Len(arrays) + 1 /\ m.withArgs.len = Len(all)
        /\ m.withArgs \in [array : Nat, len : Nat]
    BY <1>0, <1>1, <2>1, <2>2
  <2>5. Fits(m)'
    <3>1. Len(arrays) + 1 \in 1 .. Len(arrays') /\ Len(all) \in 0 .. Len(all)
      BY <1>0, <1>1, <2>1, <2>2
    <3> QED  BY <2>4, <3>1 DEF Fits
  <2>6. Elems(m.withArgs)' = all
    <3>1. Elems(m.withArgs)' = SubSeq(all, 1, Len(all))
      BY <2>4 DEF Elems
    <3> QED  BY <1>1, <3>1, SubSeqFull
  <2> QED  BY <2>3, <2>4, <2>5, <2>6 DEF all, old
<1> QED  BY <1>2, <1>3

-----------------------------------------------------------------------------
(* What a step adds *)

Contexts == {extractContextInfo(names) : names \in SUBSET Names \ {{}}}

\* m is derived from l with these arguments, or built anew with one hook more.
Derived(l, m, args) ==
    /\ m.attrs = l.attrs \o Added(l, SlogAttrs(safeArgs(args)))
    /\ Elems(m.withArgs)' = Elems(l.withArgs) \o args
    /\ m.preAttrKeys = mergePreKeys(l.preAttrKeys, args)

Hooked(l, m) ==
    /\ m.attrs = Added(l, argsToAttrs(Elems(l.withArgs)))
    /\ Elems(m.withArgs)' = Elems(l.withArgs)
    /\ m.preAttrKeys = l.preAttrKeys

Adds(m) == loggers' = Append(loggers, m) /\ m \in Logger /\ Fits(m)' /\ GroupsOk(m) /\ AttrsOk(m)

Known(l) == l \in Logger /\ Fits(l) /\ GroupsOk(l) /\ AttrsOk(l)

\* With and WithContext hand on arguments.
LEMMA ArgsTypes == WithArgs \subseteq Seq(Args) /\ Contexts \subseteq Seq(Args)
<1>1. Strings \cup Values \cup Attributes \subseteq Args
  BY DEF Args
<1>2. WithArgs \subseteq Seq(Args)
  BY <1>1, ArgsAssumption
<1>3. \A names \in SUBSET Names : extractContextInfo(names) \in Seq(Args)
  BY ContextPaired DEF Paired
<1> QED  BY <1>2, <1>3 DEF Contexts

\* safeArgs, too, gives arguments,
LEMMA SafeType == ASSUME NEW args \in Seq(Args) PROVE safeArgs(args) \in Seq(Args)
<1>1. MissingValue \in Args
  BY DEF Args
<1> QED  BY <1>1 DEF safeArgs

\* ... mergePreKeys gives strings,
LEMMA KeysType ==
    ASSUME NEW args \in Seq(Args), NEW base \in Seq(Strings)
    PROVE  AtKeys(args) \in Seq(Args) /\ mergePreKeys(base, args) \in Seq(Strings)
<1> DEFINE L == Len(args)
           h == (L + 1) \div 2
<1>1. L \in Nat /\ \A i \in 1 .. L : args[i] \in Args
  OBVIOUS
<1>2. h \in Nat /\ \A i \in 1 .. h : 2 * i - 1 \in 1 .. L
  BY <1>1
<1>3. AtKeys(args) = [i \in 1 .. h |-> args[2 * i - 1]]
  BY Zenon DEF AtKeys
<1> HIDE DEF h, L
<1>4. AtKeys(args) \in Seq(Args)
  BY <1>1, <1>2, <1>3
<1>5. Only(AtKeys(args), Strings) \in Seq(Args \cap Strings)
  BY <1>4, OnlyType
<1>6. Only(AtKeys(args), Strings) \in Seq(Strings)
  BY <1>5
<1> QED  BY <1>4, <1>6 DEF mergePreKeys

\* ... and slog and argsToAttrs give attributes that can be added.
LEMMA SlogGiven == ASSUME NEW args \in Seq(Args) PROVE SlogAttrs(args) \in Seq(Given)
<1>1. Field(Args) \subseteq Given
  BY DEF Field, Given
<1>2. \A a \in Args : Lone(a) \in Field(Args)
  BY ArgsAssumption DEF Lone, Field, Args
<1>3. SlogAttrs(args) \in Seq(Field(Args))
  BY <1>2, SlogType
<1> QED  BY <1>1, <1>3, SeqMonotonic

\* As slog, when AddHook builds the chain anew.
LEMMA ArgsGiven == ASSUME NEW args \in Seq(Args) PROVE argsToAttrs(args) \in Seq(Given)
<1> DEFINE safe == safeArgs(args)
           L == Len(safe)
           h == L \div 2
           At(i) == [key |-> Sprint(safe[2 * i - 1]), value |-> safe[2 * i]]
<1>1. safe \in Seq(Args)
  BY SafeType
<1> HIDE DEF safe
<1>2. L \in Nat /\ \A i \in 1 .. L : safe[i] \in Args
  BY <1>1
<1> HIDE DEF L
<1>3. h \in Nat /\ \A i \in 1 .. h : 2 * i - 1 \in 1 .. L /\ 2 * i \in 1 .. L
  BY <1>2
<1>4. \A a \in Args : Sprint(a) \in Args \cup Printed
  BY DEF Sprint, Printed
<1>5. \A i \in 1 .. h : At(i) \in Given
  BY <1>2, <1>3, <1>4 DEF Given
<1>6. argsToAttrs(args) = [i \in 1 .. h |-> At(i)]
  BY Zenon DEF argsToAttrs, safe, L
<1> HIDE DEF h, At
<1>7. [i \in 1 .. h |-> At(i)] \in Seq(Given)
  BY <1>3, <1>5
<1> QED  BY <1>6, <1>7

\* Attributes after those a logger has.
LEMMA MoreAttrs ==
    ASSUME NEW l \in Logger, GroupsOk(l), AttrsOk(l), NEW attrs \in Seq(Given), NEW m, m.attrs = l.attrs \o Added(l, attrs)
    PROVE  m.attrs \in Seq(Attr) /\ AttrsOk(m)
<1> DEFINE a == l.attrs
           b == Added(l, attrs)
<1>1. a \in Seq(Attr) /\ b \in Seq(Attr) /\ Len(b) = Len(attrs)
  BY AddedIs DEF Logger
<1>2. \A j \in 1 .. Len(a) : Placed(a[j].prefix, a[j].in)
  BY DEF AttrsOk
<1>3. \A j \in 1 .. Len(b) : Placed(b[j].prefix, b[j].in)
  BY <1>1, AddedIs
<1>4. m.attrs = a \o b
  OBVIOUS
<1> HIDE DEF a, b
<1>5. /\ a \o b \in Seq(Attr) /\ Len(a \o b) = Len(a) + Len(b) /\ Len(a) \in Nat /\ Len(b) \in Nat
      /\ \A i \in 1 .. Len(a) + Len(b) : (a \o b)[i] = IF i <= Len(a) THEN a[i] ELSE b[i - Len(a)]
  <2>1. a \in Seq(Attr) /\ b \in Seq(Attr)
    BY <1>1
  <2>2. Len(a) \in Nat /\ Len(b) \in Nat
    BY <2>1
  <2> QED  BY <2>1, <2>2, ConcatProperties, Zenon
<1>6. ASSUME NEW j \in 1 .. Len(a) + Len(b) PROVE Placed((a \o b)[j].prefix, (a \o b)[j].in)
  <2>1. CASE j <= Len(a)
    <3>1. j \in 1 .. Len(a)
      BY <1>5, <2>1
    <3>2. (a \o b)[j] = a[j]
      BY <1>5, <2>1
    <3> QED  BY <1>2, <3>1, <3>2
  <2>2. CASE ~(j <= Len(a))
    <3>1. j - Len(a) \in 1 .. Len(b)
      BY <1>5, <2>2
    <3>2. (a \o b)[j] = b[j - Len(a)]
      BY <1>5, <2>2
    <3> QED  BY <1>3, <3>1, <3>2
  <2> QED  BY <2>1, <2>2
<1> QED  BY <1>4, <1>5, <1>6 DEF AttrsOk

\* With and WithContext derive a logger,
LEMMA DeriveAdds ==
    ASSUME LoggersInv, NEW l, Known(l), NEW args \in Seq(Args), Derive(l, args)
    PROVE  Grows /\ \E m : Adds(m) /\ Derived(l, m, args) /\ m.groups = l.groups /\ m.opened = l.opened
                           /\ m.handler = l.handler
<1> DEFINE w == appendWithArgs(l.withArgs, args).slice
           a == l.attrs \o Added(l, SlogAttrs(safeArgs(args)))
           k == mergePreKeys(l.preAttrKeys, args)
<1>1. l \in Logger /\ Fits(l) /\ GroupsOk(l) /\ AttrsOk(l)
  BY DEF Known
<1>0. PICK m : m = [l EXCEPT !.attrs = a, !.withArgs = w, !.preAttrKeys = k]
  OBVIOUS
<1>2. loggers' = Append(loggers, m) /\ arrays' = appendWithArgs(l.withArgs, args).arrays
  BY <1>0 DEF Derive
<1>3. m.attrs = a /\ m.withArgs = w /\ m.preAttrKeys = k /\ m.groups = l.groups /\ m.opened = l.opened
      /\ m.handler = l.handler
  <2> HIDE DEF a, w, k
  <2> QED  BY <1>0, <1>1 DEF Logger
<1>4. Grows /\ Fits(m)' /\ m.withArgs \in [array : Nat, len : Nat] /\ Elems(m.withArgs)' = Elems(l.withArgs) \o args
  BY <1>1, <1>2, <1>3, AppendIs
<1>5. m.attrs \in Seq(Attr) /\ AttrsOk(m)
  <2>1. SlogAttrs(safeArgs(args)) \in Seq(Given)
    BY SafeType, SlogGiven
  <2> QED  BY <1>1, <1>3, <2>1, MoreAttrs
<1>6. m.preAttrKeys \in Seq(Strings)
  BY <1>1, <1>3, KeysType DEF Logger
<1>7. m \in Logger
  <2> HIDE DEF a, w, k
  <2> QED  BY <1>0, <1>1, <1>3, <1>4, <1>5, <1>6 DEF Logger
<1>8. GroupsOk(m)
  <2>1. Prefix(m) = Prefix(l)
    BY <1>3 DEF Prefix
  <2> QED  BY <1>1, <1>3, <2>1 DEF GroupsOk
<1>9. Derived(l, m, args)
  BY <1>3, <1>4 DEF Derived
<1>10. Adds(m)
  BY <1>2, <1>4, <1>5, <1>7, <1>8 DEF Adds
<1> QED  BY <1>3, <1>4, <1>9, <1>10

\* The other derivations share the arrays of withArgs.
LEMMA SameArrays == ASSUME LoggersInv, arrays' = arrays PROVE Grows
  BY DEF LoggersInv, Grows

\* ... so does AddHook, with a chain built anew,
LEMMA AddHookAdds ==
    ASSUME LoggersInv, NEW l, Known(l), AddHook(l)
    PROVE  Grows /\ \E m : Adds(m) /\ Hooked(l, m) /\ m.groups = l.groups /\ m.opened = l.opened
                           /\ m.handler = l.handler
<1> DEFINE a == Added(l, argsToAttrs(Elems(l.withArgs)))
<1>1. l \in Logger /\ Fits(l) /\ GroupsOk(l) /\ AttrsOk(l)
  BY DEF Known
<1>0. PICK m : m = [l EXCEPT !.attrs = a, !.hooks = l.hooks + 1]
  OBVIOUS
<1>2. loggers' = Append(loggers, m) /\ Grows
  BY <1>0, SameArrays DEF AddHook
<1>3. argsToAttrs(Elems(l.withArgs)) \in Seq(Given)
  BY <1>1, ElemsType, ArgsGiven
<1>4. a \in Seq(Attr) /\ \A j \in 1 .. Len(a) : Placed(a[j].prefix, a[j].in)
  BY <1>1, <1>3, AddedIs
<1> HIDE DEF a
<1>5. m.attrs = a /\ m.withArgs = l.withArgs /\ m.preAttrKeys = l.preAttrKeys /\ m.groups = l.groups
      /\ m.opened = l.opened /\ m.handler = l.handler
  BY <1>0, <1>1 DEF Logger
<1>10. l.hooks + 1 \in Nat
  BY <1>1 DEF Logger
<1>11. m \in Logger
  BY <1>0, <1>1, <1>4, <1>10 DEF Logger
<1>6. Fits(m) /\ AttrsOk(m)
  BY <1>1, <1>4, <1>5 DEF Fits, AttrsOk
<1>7. GroupsOk(m)
  <2>1. Prefix(m) = Prefix(l)
    BY <1>5 DEF Prefix
  <2> QED  BY <1>1, <1>5, <2>1 DEF GroupsOk
<1>8. Fits(m)' /\ Elems(m.withArgs)' = Elems(m.withArgs)
  BY <1>2, <1>6, GrowsKeeps
<1>9. Hooked(l, m)
  BY <1>5, <1>8 DEF Hooked, a
<1>12. Adds(m)
  BY <1>2, <1>6, <1>7, <1>8, <1>11 DEF Adds
<1> QED  BY <1>2, <1>5, <1>9, <1>12

\* ... and the handler's WithAttrs and WithGroup make handlers.
LEMMA WithAttrsAdds ==
    ASSUME LoggersInv, NEW l, Known(l), WithAttrs(l)
    PROVE  Grows /\ \E m : Adds(m) /\ m.handler
<1>1. l \in Logger /\ Fits(l) /\ GroupsOk(l) /\ AttrsOk(l)
  BY DEF Known
<1>2. PICK args \in WithArgs : loggers' = Append(loggers, [l EXCEPT !.attrs = l.attrs \o Added(l, SlogAttrs(args)),
                                                                      !.handler = TRUE])
  BY DEF WithAttrs
<1> DEFINE a == l.attrs \o Added(l, SlogAttrs(args))
<1>0. PICK m : m = [l EXCEPT !.attrs = a, !.handler = TRUE]
  OBVIOUS
<1>3. Grows /\ loggers' = Append(loggers, m)
  BY <1>0, <1>2, SameArrays DEF WithAttrs
<1>4. SlogAttrs(args) \in Seq(Given)
  BY ArgsTypes, SlogGiven
<1>5. m.attrs = a /\ m.withArgs = l.withArgs /\ m.groups = l.groups /\ m.opened = l.opened /\ m.handler = TRUE
  <2> HIDE DEF a
  <2> QED  BY <1>0, <1>1 DEF Logger
<1>6. m.attrs \in Seq(Attr) /\ AttrsOk(m)
  BY <1>1, <1>4, <1>5, MoreAttrs
<1>7. m \in Logger
  <2> HIDE DEF a
  <2> QED  BY <1>0, <1>1, <1>5, <1>6 DEF Logger
<1>8. GroupsOk(m) /\ Fits(m)
  <2>1. Prefix(m) = Prefix(l)
    BY <1>5 DEF Prefix
  <2> QED  BY <1>1, <1>5, <2>1 DEF GroupsOk, Fits
<1>9. Fits(m)'
  BY <1>3, <1>8, GrowsKeeps
<1>10. Adds(m)
  BY <1>3, <1>6, <1>7, <1>8, <1>9 DEF Adds
<1> QED  BY <1>3, <1>5, <1>10

\* As WithAttrs.
LEMMA WithGroupAdds ==
    ASSUME LoggersInv, NEW l, Known(l), WithGroup(l)
    PROVE  Grows /\ \E m : Adds(m) /\ m.handler
<1>1. l \in Logger /\ Fits(l) /\ GroupsOk(l) /\ AttrsOk(l)
  BY DEF Known
<1>2. PICK name \in Groups : loggers' = Append(loggers, [l EXCEPT !.groups = l.groups \o <<Empty, name>>,
                                                                   !.opened = Append(l.opened, name), !.handler = TRUE])
  BY DEF WithGroup
<1> DEFINE g == l.groups \o <<Empty, name>>
           o == Append(l.opened, name)
<1>0. PICK m : m = [l EXCEPT !.groups = g, !.opened = o, !.handler = TRUE]
  OBVIOUS
<1>3. Grows /\ loggers' = Append(loggers, m)
  BY <1>0, <1>2, SameArrays DEF WithGroup
<1>4. l.groups \in Seq(Parts) /\ l.opened \in Seq(Groups) /\ <<Empty, name>> \in Seq(Parts)
  BY <1>1 DEF Logger, Parts
<1>5. g \in Seq(Parts) /\ o \in Seq(Groups)
  BY <1>4
<1>6. m.attrs = l.attrs /\ m.withArgs = l.withArgs /\ m.groups = g /\ m.opened = o /\ m.handler = TRUE /\ m \in Logger
  <2> HIDE DEF g, o
  <2> QED  BY <1>0, <1>1, <1>5 DEF Logger
<1>7. GroupsOk(m)
  BY <1>1, <1>4, <1>6, GroupOpened
<1>8. Fits(m) /\ AttrsOk(m)
  BY <1>1, <1>6 DEF Fits, AttrsOk
<1>9. Fits(m)'
  BY <1>3, <1>8, GrowsKeeps
<1>10. Adds(m)
  BY <1>3, <1>6, <1>7, <1>8, <1>9 DEF Adds
<1> QED  BY <1>3, <1>6, <1>10

-----------------------------------------------------------------------------
(* The invariant *)

\* A step derives one logger or handler, and touches none of those there.
LEMMA StepIs ==
    ASSUME LoggersInv, LoggersNext
    PROVE  /\ Grows
           /\ \E i \in 1 .. Len(loggers) : \E l, m :
                 /\ l = loggers[i] /\ Adds(m)
                 /\ \/ m.handler
                    \/ /\ ~l.handler /\ m.groups = l.groups /\ m.opened = l.opened
                       /\ (\E args \in WithArgs \cup Contexts : Derived(l, m, args)) \/ Hooked(l, m)
<1>1. PICK i \in 1 .. Len(loggers) : OfLogger(loggers[i]) \/ OfHandler(loggers[i])
  BY DEF LoggersNext
<1>2. PICK l : l = loggers[i]
  OBVIOUS
<1>3. Known(l)
  <2>1. loggers[i] \in Logger
    BY DEF LoggersInv
  <2> QED  BY <1>2, <2>1 DEF LoggersInv, Known
<1>4. CASE ~l.handler /\ (With(l) \/ WithContext(l))
  <2>1. PICK args \in WithArgs \cup Contexts : Derive(l, args)
    BY <1>4 DEF With, WithContext, Contexts
  <2>2. args \in Seq(Args)
    BY ArgsTypes
  <2>3. Grows /\ \E m : Adds(m) /\ Derived(l, m, args) /\ m.groups = l.groups /\ m.opened = l.opened
    BY <1>3, <2>1, <2>2, DeriveAdds
  <2> QED  BY <1>2, <1>4, <2>3
<1>5. CASE ~l.handler /\ AddHook(l)
  <2>1. Grows /\ \E m : Adds(m) /\ Hooked(l, m) /\ m.groups = l.groups /\ m.opened = l.opened
    BY <1>3, <1>5, AddHookAdds
  <2> QED  BY <1>2, <1>5, <2>1
<1>6. CASE OfHandler(l)
  <2>1. Grows /\ \E m : Adds(m) /\ m.handler
    BY <1>3, <1>6, WithAttrsAdds, WithGroupAdds DEF OfHandler
  <2> QED  BY <1>2, <2>1
<1>7. \/ ~l.handler /\ (With(l) \/ WithContext(l))
      \/ ~l.handler /\ AddHook(l)
      \/ OfHandler(l)
  <2>1. OfLogger(l) \/ OfHandler(l)
    BY <1>1, <1>2, Zenon
  <2> QED  BY <2>1, Zenon DEF OfLogger
<1> QED  BY <1>4, <1>5, <1>6, <1>7

\* Each logger after a step is one from before it, or the new one.
LEMMA OldOrNew ==
    ASSUME LoggersInv, NEW m, Adds(m)
    PROVE  /\ loggers' \in Seq(Logger) /\ Len(loggers) \in Nat /\ Len(loggers') = Len(loggers) + 1
           /\ \A j \in 1 .. Len(loggers) : loggers'[j] = loggers[j]
           /\ \A j \in 1 .. Len(loggers') : j \in 1 .. Len(loggers) \/ loggers'[j] = m
  BY DEF LoggersInv, Adds

\* The first logger has no attributes and no arguments.
LEMMA LoggersStart == LoggersInit => LoggersInv
<1> SUFFICES ASSUME LoggersInit PROVE LoggersInv
  OBVIOUS
<1>1. loggers = <<Root>> /\ arrays = << <<>> >>
  BY DEF LoggersInit
<1>2. Root \in Logger /\ GroupsOk(Root) /\ AttrsOk(Root)
  BY DEF Root, Logger, GroupsOk, AttrsOk
<1>3. arrays \in Seq(Seq(Args)) /\ Len(arrays) = 1 /\ arrays[1] = <<>>
  BY <1>1
<1>4. Root.withArgs.array = 1 /\ Root.withArgs.len = 0
  BY DEF Root
<1>5. Fits(Root)
  <2>1. \A s \in Seq(Args) : Len(s) \in Nat
    OBVIOUS
  <2> QED  BY <1>3, <1>4, <2>1 DEF Fits
<1> HIDE DEF Root
<1>6. loggers \in Seq(Logger) /\ \A i \in 1 .. Len(loggers) : loggers[i] = Root
  BY <1>1, <1>2
<1> QED  BY <1>2, <1>3, <1>5, <1>6 DEF LoggersInv

\* Each step keeps the invariant.
LEMMA LoggersStep == LoggersInv /\ [LoggersNext]_loggerVars => LoggersInv'
<1> SUFFICES ASSUME LoggersInv, [LoggersNext]_loggerVars PROVE LoggersInv'
  OBVIOUS
<1>1. CASE UNCHANGED loggerVars
  BY <1>1 DEF loggerVars, LoggersInv, Fits, GroupsOk, AttrsOk
<1>2. CASE LoggersNext
  <2>1. Grows
    BY <1>2, StepIs
  <2>2. PICK m : Adds(m)
    BY <1>2, StepIs
  <2>3. /\ loggers' \in Seq(Logger) /\ Len(loggers) \in Nat /\ Len(loggers') = Len(loggers) + 1
        /\ \A j \in 1 .. Len(loggers) : loggers'[j] = loggers[j]
        /\ \A j \in 1 .. Len(loggers') : j \in 1 .. Len(loggers) \/ loggers'[j] = m
    BY <2>2, OldOrNew
  <2>4. arrays' \in Seq(Seq(Args))
    BY <2>1 DEF Grows
  <2>5. ASSUME NEW j \in 1 .. Len(loggers')
        PROVE  Fits(loggers[j])' /\ GroupsOk(loggers'[j]) /\ AttrsOk(loggers'[j])
    <3>1. CASE loggers'[j] = m
      BY <2>2, <3>1 DEF Adds, Fits
    <3>2. CASE j \in 1 .. Len(loggers)
      <4>1. PICK l : l = loggers[j]
        OBVIOUS
      <4>2. Fits(l) /\ GroupsOk(l) /\ AttrsOk(l)
        BY <3>2, <4>1 DEF LoggersInv
      <4>3. Fits(l)'
        BY <2>1, <4>2, GrowsKeeps
      <4>4. loggers'[j] = l
        BY <2>3, <3>2, <4>1
      <4> QED  BY <4>2, <4>3, <4>4 DEF Fits
    <3> QED  BY <2>3, <3>1, <3>2
  <2> QED  BY <2>3, <2>4, <2>5 DEF LoggersInv
<1> QED  BY <1>1, <1>2

\* The invariant of every derivation: slices lie in arrays that are there, and
\* every attribute is placed behind its groups.
THEOREM LoggersTyped == LoggersSpec => []LoggersInv
  BY LoggersStart, LoggersStep, PTL DEF LoggersSpec

\* No step changes a logger that exists, nor what its withArgs hold: appendWithArgs
\* writes into no array that is there (logger.go:1423).
THEOREM SiblingsStayApart == LoggersSpec => SiblingsApart
<1> DEFINE Same(l) == Elems(l.withArgs)' = Elems(l.withArgs)
           Kept == \A i \in 1 .. Len(loggers) :
                      LET s == loggers[i].withArgs
                      IN  loggers'[i] = loggers[i] /\ SubSeq(arrays'[s.array], 1, s.len) = Elems(s)
<1>1. LoggersInv /\ [LoggersNext]_loggerVars => [Kept]_loggerVars
  <2> SUFFICES ASSUME LoggersInv, LoggersNext PROVE Kept
    OBVIOUS
  <2>1. Grows
    BY StepIs
  <2>2. PICK m : Adds(m)
    BY StepIs
  <2>3. \A j \in 1 .. Len(loggers) : loggers'[j] = loggers[j]
    BY <2>2, OldOrNew
  <2>4. ASSUME NEW i \in 1 .. Len(loggers)
        PROVE  SubSeq(arrays'[loggers[i].withArgs.array], 1, loggers[i].withArgs.len) = Elems(loggers[i].withArgs)
    <3>1. PICK l : l = loggers[i]
      OBVIOUS
    <3>2. Fits(l)
      BY <3>1 DEF LoggersInv
    <3>3. Elems(l.withArgs)' = Elems(l.withArgs)
      BY <2>1, <3>2, GrowsKeeps
    <3> QED  BY <3>1, <3>3 DEF Elems
  <2> QED  BY <2>3, <2>4
<1>2. LoggersSpec => [][Kept]_loggerVars
  <2> HIDE DEF Kept
  <2> QED  BY <1>1, LoggersTyped, PTL DEF LoggersSpec
<1> QED  BY <1>2 DEF SiblingsApart

\* What a call takes from its context.
LEMMA GivenByContext ==
    ASSUME NEW names \in SUBSET Names, NEW pre
    PROVE  LET given == SlogAttrs(extractContextInfo(names))
           IN  /\ given \in Seq(Given) /\ dropPreKeys(given, pre) \in Seq(Given)
               /\ \A k \in 1 .. Len(dropPreKeys(given, pre)) : dropPreKeys(given, pre)[k].key \notin ToSet(pre)
<1> DEFINE given == SlogAttrs(extractContextInfo(names))
           free == {a \in ToSet(given) : a.key \notin ToSet(pre)}
           left == Only(given, free)
<1>1. given \in Seq(Given)
  BY ContextPaired, SlogGiven DEF Paired
<1> HIDE DEF given
<1>2. left \in Seq(Given \cap free)
  BY <1>1, OnlyType
<1>3. \A x \in Given \cap free : x.key \notin ToSet(pre)
  OBVIOUS
<1> HIDE DEF free, left
<1>4. left \in Seq(Given) /\ \A k \in 1 .. Len(left) : left[k] \in Given \cap free
  BY <1>2
<1>5. left = dropPreKeys(given, pre)
  BY Zenon DEF dropPreKeys, left, free
<1> QED  BY <1>1, <1>3, <1>4, <1>5 DEF given

\* Whatever a record of any logger or handler holds, with any context: its keys
\* are behind the groups their attributes were added in.
THEOREM GroupsInKeysCorrect == LoggersSpec => []GroupsInKeys
<1>1. LoggersInv => GroupsInKeys
  <2> SUFFICES ASSUME LoggersInv, NEW i \in 1 .. Len(loggers), NEW names \in SUBSET Names,
                      NEW j \in 1 .. Len(Output(loggers[i], names))
               PROVE  Placed(Output(loggers[i], names)[j].prefix, Output(loggers[i], names)[j].in)
    BY DEF GroupsInKeys, Placed
  <2>1. PICK l : l = loggers[i]
    OBVIOUS
  <2>2. l \in Logger /\ GroupsOk(l) /\ AttrsOk(l)
    BY <2>1 DEF LoggersInv
  <2> DEFINE given == SlogAttrs(extractContextInfo(names))
             taken == IF l.handler THEN given ELSE dropPreKeys(given, l.preAttrKeys)
  <2>3. taken \in Seq(Given)
    BY GivenByContext
  <2>4. PICK m : m = [attrs |-> l.attrs \o Added(l, taken)]
    OBVIOUS
  <2>5. m.attrs = l.attrs \o Added(l, taken) /\ Output(l, names) = m.attrs
    BY <2>4 DEF Output
  <2> HIDE DEF taken
  <2>6. AttrsOk(m)
    BY <2>2, <2>3, <2>5, MoreAttrs
  <2> QED  BY <2>1, <2>5, <2>6 DEF AttrsOk
<1> QED  BY <1>1, LoggersTyped, PTL

-----------------------------------------------------------------------------
(* Building a chain anew *)

\* Every list given to With has its keys where they belong.
AllPaired == \A args \in WithArgs : Paired(args)

\* A logger's attributes are what its arguments say, and their keys are known.
Replayable(l) ==
    /\ l.groups = <<>> /\ l.opened = <<>>
    /\ Paired(Elems(l.withArgs))
    /\ l.attrs = Added(Root, InPairs(Elems(l.withArgs)))
    /\ \A j \in 1 .. Len(l.attrs) : l.attrs[j].key \in ToSet(l.preAttrKeys)

ReplayInv == \A i \in 1 .. Len(loggers) : ~loggers[i].handler => Replayable(loggers[i])

\* Outside any group, it does not matter which logger attributes are added to.
LEMMA AddedOutside ==
    ASSUME NEW l, l.groups = <<>>, l.opened = <<>>, NEW attrs
    PROVE  Added(l, attrs) = Added(Root, attrs)
<1>1. Root.groups = <<>> /\ Root.opened = <<>>
  BY DEF Root
<1>2. Prefix(l) = Prefix(Root) /\ l.opened = Root.opened
  BY <1>1 DEF Prefix
<1> QED  BY <1>2, Zenon DEF Added

\* Root is outside any group.
LEMMA RootOk == Root \in Logger /\ GroupsOk(Root)
  BY DEF Root, Logger, GroupsOk

\* Adding twice adds the two lists as one.
LEMMA AddedConcat ==
    ASSUME NEW a \in Seq(Given), NEW b \in Seq(Given)
    PROVE  Added(Root, a) \o Added(Root, b) = Added(Root, a \o b)
<1> DEFINE p == Prefix(Root)
           o == Root.opened
           Put(x) == [key |-> x.key, value |-> x.value, prefix |-> p, in |-> o]
           c == a \o b
           A == Added(Root, a)
           B == Added(Root, b)
           C == Added(Root, c)
<1>1. /\ c \in Seq(Given) /\ Len(c) = Len(a) + Len(b) /\ Len(a) \in Nat /\ Len(b) \in Nat
      /\ \A i \in 1 .. Len(a) + Len(b) : c[i] = IF i <= Len(a) THEN a[i] ELSE b[i - Len(a)]
  <2>1. Len(a) \in Nat /\ Len(b) \in Nat
    OBVIOUS
  <2> QED  BY <2>1, ConcatProperties, Zenon
<1>2. /\ A \in Seq(Attr) /\ Len(A) = Len(a) /\ B \in Seq(Attr) /\ Len(B) = Len(b)
  BY AddedIs, RootOk
<1>3. C \in Seq(Attr) /\ Len(C) = Len(c)
  BY <1>1, AddedIs, RootOk
<1>4. /\ \A i \in 1 .. Len(a) : A[i] = Put(a[i])
      /\ \A i \in 1 .. Len(b) : B[i] = Put(b[i])
      /\ \A i \in 1 .. Len(c) : C[i] = Put(c[i])
  BY Zenon DEF Added
<1> HIDE DEF A, B, C, c, Put
<1>5. /\ A \o B \in Seq(Attr) /\ Len(A \o B) = Len(a) + Len(b)
      /\ \A i \in 1 .. Len(a) + Len(b) : (A \o B)[i] = IF i <= Len(a) THEN A[i] ELSE B[i - Len(a)]
  <2>1. Len(A) = Len(a) /\ Len(B) = Len(b)
    BY <1>2
  <2>2. /\ A \o B \in Seq(Attr) /\ Len(A \o B) = Len(A) + Len(B)
        /\ \A i \in 1 .. Len(A) + Len(B) : (A \o B)[i] = IF i <= Len(A) THEN A[i] ELSE B[i - Len(A)]
    BY <1>2, ConcatProperties, Zenon
  <2> QED  BY <2>1, <2>2, Zenon
<1>6. ASSUME NEW i \in 1 .. Len(a) + Len(b) PROVE (A \o B)[i] = C[i]
  <2>1. C[i] = Put(c[i])
    BY <1>1, <1>4
  <2>2. CASE i <= Len(a)
    <3>1. i \in 1 .. Len(a)
      BY <1>1, <2>2
    <3> QED  BY <1>1, <1>4, <1>5, <2>1, <2>2, <3>1
  <2>3. CASE ~(i <= Len(a))
    <3>1. i - Len(a) \in 1 .. Len(b)
      BY <1>1, <2>3
    <3> QED  BY <1>1, <1>4, <1>5, <2>1, <2>3, <3>1
  <2> QED  BY <2>2, <2>3
<1>7. A \o B = C
  <2>1. Len(A \o B) = Len(C)
    BY <1>1, <1>3, <1>5
  <2>2. \A i \in 1 .. Len(A \o B) : (A \o B)[i] = C[i]
    BY <1>5, <1>6
  <2> QED  BY <1>3, <1>5, <2>1, <2>2, SeqEqual
<1> QED  BY <1>7 DEF A, B, C, c

\* The keys of arguments by twos are remembered.
LEMMA KeysRemembered ==
    ASSUME NEW args, Paired(args), NEW base \in Seq(Strings)
    PROVE  /\ \A j \in 1 .. Len(base) : base[j] \in ToSet(mergePreKeys(base, args))
           /\ \A j \in 1 .. Len(InPairs(args)) : InPairs(args)[j].key \in ToSet(mergePreKeys(base, args))
<1> DEFINE L == Len(args)
           h == L \div 2
           keys == AtKeys(args)
           new == Only(keys, Strings)
<1>1. L \in Nat /\ L % 2 = 0 /\ args \in Seq(Args) /\ \A i \in 1 .. L : i % 2 = 1 => args[i] \in Strings
  BY DEF Paired
<1>2. h \in Nat /\ (L + 1) \div 2 = h /\ \A j \in 1 .. h : 2 * j - 1 \in 1 .. L /\ (2 * j - 1) % 2 = 1
  BY <1>1
<1>3. keys \in Seq(Args)
  BY <1>1, KeysType
<1>4. keys = [j \in 1 .. h |-> args[2 * j - 1]]
  <2>1. keys = [j \in 1 .. (L + 1) \div 2 |-> args[2 * j - 1]]
    BY Zenon DEF AtKeys
  <2> QED  BY <1>2, <2>1, Zenon
<1>5. Len(InPairs(args)) = h /\ \A j \in 1 .. h : InPairs(args)[j].key = args[2 * j - 1]
  <2>1. Len(InPairs(args)) = h
    BY PairsType
  <2>2. InPairs(args) = [j \in 1 .. h |-> [key |-> args[2 * j - 1], value |-> args[2 * j]]]
    BY Zenon DEF InPairs
  <2> HIDE DEF h
  <2> QED  BY <2>1, <2>2
<1>6. Len(keys) = h /\ \A j \in 1 .. h : keys[j] = args[2 * j - 1] /\ keys[j] \in Strings
  <2> HIDE DEF L, h, keys
  <2>1. \A j \in 1 .. h : keys[j] = args[2 * j - 1]
    BY <1>4, Zenon
  <2>2. \A j \in 1 .. h : args[2 * j - 1] \in Strings
    BY <1>1, <1>2, Zenon
  <2>3. \A m, n \in Nat : 1 .. m = 1 .. n => m = n
    <3> SUFFICES ASSUME NEW m \in Nat, NEW n \in Nat, 1 .. m = 1 .. n PROVE m <= n /\ n <= m
      OBVIOUS
    <3>1. m > 0 => m \in 1 .. n
      OBVIOUS
    <3>2. n > 0 => n \in 1 .. m
      OBVIOUS
    <3> QED  BY <3>1, <3>2
  <2>4. Len(keys) = h
    <3>1. DOMAIN keys = 1 .. h
      BY <1>4, Zenon
    <3>2. DOMAIN keys = 1 .. Len(keys) /\ Len(keys) \in Nat
      BY <1>3
    <3> QED  BY <1>2, <2>3, <3>1, <3>2
  <2> QED  BY <2>1, <2>2, <2>4, Zenon
<1>7. new \in Seq(Strings)
  <2>1. new \in Seq(Args \cap Strings)
    BY <1>3, OnlyType
  <2> QED  BY <2>1
<1>8. \A j \in 1 .. h : \E k \in 1 .. Len(new) : new[k] = keys[j]
  <2> HIDE DEF L, h, keys
  <2>1. \A j \in 1 .. Len(keys) : keys[j] \in Strings => Contains(new, keys[j])
    BY <1>3, OnlyType
  <2> QED  BY <1>6, <2>1, Zenon DEF Contains
<1> HIDE DEF keys, new, h, L
<1>9. /\ Len(base) \in Nat /\ Len(new) \in Nat /\ base \o new \in Seq(Strings)
      /\ Len(base \o new) = Len(base) + Len(new)
      /\ \A i \in 1 .. Len(base) + Len(new) : (base \o new)[i] = IF i <= Len(base) THEN base[i] ELSE new[i - Len(base)]
  <2>1. Len(base) \in Nat /\ Len(new) \in Nat
    BY <1>7
  <2> QED  BY <1>7, <2>1, ConcatProperties, Zenon
<1>10. \A i \in 1 .. Len(base) + Len(new) : (base \o new)[i] \in ToSet(base \o new)
  BY <1>9 DEF ToSet
<1>11. \A j \in 1 .. Len(base) : base[j] \in ToSet(base \o new)
  <2> TAKE j \in 1 .. Len(base)
  <2>1. j \in 1 .. Len(base) + Len(new) /\ j <= Len(base)
    BY <1>9
  <2>2. (base \o new)[j] = base[j]
    BY <1>9, <2>1
  <2> QED  BY <1>10, <2>1, <2>2
<1>12. \A k \in 1 .. Len(new) : new[k] \in ToSet(base \o new)
  <2> TAKE k \in 1 .. Len(new)
  <2>1. Len(base) + k \in 1 .. Len(base) + Len(new) /\ ~(Len(base) + k <= Len(base)) /\ Len(base) + k - Len(base) = k
    BY <1>9
  <2>2. (base \o new)[Len(base) + k] = new[k]
    BY <1>9, <2>1
  <2> QED  BY <1>10, <2>1, <2>2
<1>13. mergePreKeys(base, args) = base \o new
  BY DEF mergePreKeys, new, keys
<1>14. \A j \in 1 .. h : InPairs(args)[j].key \in ToSet(base \o new)
  BY <1>5, <1>6, <1>8, <1>12
<1> QED  BY <1>5, <1>11, <1>13, <1>14

\* Such arguments give attributes that can be added.
LEMMA PairedGiven == ASSUME NEW args, Paired(args) PROVE InPairs(args) \in Seq(Given)
<1>1. [key : Strings, value : Args] \subseteq Given
  BY DEF Given, Args
<1>2. InPairs(args) \in Seq([key : Strings, value : Args])
  BY PairsType
<1> QED  BY <1>1, <1>2, SeqMonotonic

\* With and WithContext add to the chain what they add to the arguments,
LEMMA ReplayDerived ==
    ASSUME LoggersInv, NEW l, Known(l), Replayable(l), NEW args, Paired(args), NEW m, Adds(m), Derived(l, m, args),
           m.groups = l.groups, m.opened = l.opened
    PROVE  Replayable(m)'
<1> DEFINE old == Elems(l.withArgs)
           base == l.preAttrKeys
           keys == mergePreKeys(base, args)
<1>1. /\ l.groups = <<>> /\ l.opened = <<>> /\ Paired(old) /\ l.attrs = Added(Root, InPairs(old))
      /\ \A j \in 1 .. Len(l.attrs) : l.attrs[j].key \in ToSet(base)
  BY DEF Replayable
<1>2. /\ m.attrs = l.attrs \o Added(l, SlogAttrs(safeArgs(args)))
      /\ Elems(m.withArgs)' = old \o args /\ m.preAttrKeys = keys
  BY DEF Derived
<1>3. base \in Seq(Strings) /\ l.attrs \in Seq(Attr)
  BY DEF Known, Logger
<1> HIDE DEF old, base
<1>4. Paired(old \o args) /\ InPairs(old \o args) = InPairs(old) \o InPairs(args)
  BY <1>1, PairsConcat
<1>5. Added(l, SlogAttrs(safeArgs(args))) = Added(Root, InPairs(args))
  <2>1. safeArgs(args) = args /\ SlogAttrs(args) = InPairs(args)
    BY PlainPairs, SlogPairs
  <2> QED  BY <1>1, <2>1, AddedOutside, Zenon
<1>6. m.attrs = Added(Root, InPairs(old \o args))
  <2>1. InPairs(old) \in Seq(Given) /\ InPairs(args) \in Seq(Given)
    BY <1>1, PairedGiven
  <2>2. Added(Root, InPairs(old)) \o Added(Root, InPairs(args)) = Added(Root, InPairs(old) \o InPairs(args))
    BY <2>1, AddedConcat
  <2> QED  BY <1>1, <1>2, <1>4, <1>5, <2>2, Zenon
<1>7. \A j \in 1 .. Len(m.attrs) : m.attrs[j].key \in ToSet(keys)
  <2> DEFINE a == l.attrs
             new == InPairs(args)
             b == Added(Root, new)
  <2>1. a \in Seq(Attr) /\ new \in Seq(Given) /\ b \in Seq(Attr) /\ Len(b) = Len(new)
        /\ \A j \in 1 .. Len(new) : b[j].key = new[j].key
    BY <1>3, PairedGiven, AddedIs, RootOk
  <2>2. \A j \in 1 .. Len(new) : new[j].key \in ToSet(keys)
    BY <1>3, KeysRemembered
  <2>3. \A x \in ToSet(base) : x \in ToSet(keys)
    BY <1>3, KeysRemembered DEF ToSet
  <2>4. m.attrs = a \o b
    BY <1>2, <1>5
  <2> HIDE DEF a, new, b, keys
  <2>5. /\ Len(a \o b) = Len(a) + Len(b) /\ Len(a) \in Nat /\ Len(b) \in Nat
        /\ \A j \in 1 .. Len(a) + Len(b) : (a \o b)[j] = IF j <= Len(a) THEN a[j] ELSE b[j - Len(a)]
    <3>1. Len(a) \in Nat /\ Len(b) \in Nat
      BY <2>1
    <3> QED  BY <2>1, <3>1, ConcatProperties, Zenon
  <2>6. ASSUME NEW j \in 1 .. Len(a) + Len(b) PROVE (a \o b)[j].key \in ToSet(keys)
    <3>1. CASE j <= Len(a)
      <4>1. j \in 1 .. Len(a) /\ (a \o b)[j] = a[j]
        BY <2>5, <3>1
      <4> QED  BY <1>1, <2>3, <4>1 DEF a
    <3>2. CASE ~(j <= Len(a))
      <4>1. j - Len(a) \in 1 .. Len(b) /\ (a \o b)[j] = b[j - Len(a)]
        BY <2>5, <3>2
      <4>2. j - Len(a) \in 1 .. Len(new)
        BY <2>1, <4>1
      <4> QED  BY <2>1, <2>2, <4>1, <4>2, Zenon
    <3> QED  BY <3>1, <3>2
  <2> QED  BY <2>4, <2>5, <2>6
<1> QED  BY <1>1, <1>2, <1>4, <1>6, <1>7 DEF Replayable

\* ... and AddHook makes the chain what the arguments say.
LEMMA ReplayHooked ==
    ASSUME LoggersInv, NEW l, Known(l), Replayable(l), NEW m, Adds(m), Hooked(l, m),
           m.groups = l.groups, m.opened = l.opened
    PROVE  Replayable(m)'
<1>1. /\ l.groups = <<>> /\ l.opened = <<>> /\ Paired(Elems(l.withArgs)) /\ l.attrs = Added(Root, InPairs(Elems(l.withArgs)))
      /\ \A j \in 1 .. Len(l.attrs) : l.attrs[j].key \in ToSet(l.preAttrKeys)
  BY DEF Replayable
<1>2. /\ m.attrs = Added(l, argsToAttrs(Elems(l.withArgs)))
      /\ Elems(m.withArgs)' = Elems(l.withArgs) /\ m.preAttrKeys = l.preAttrKeys
  BY DEF Hooked
<1>3. argsToAttrs(Elems(l.withArgs)) = InPairs(Elems(l.withArgs))
  BY <1>1, PlainPairs
<1>4. m.attrs = l.attrs
  BY <1>1, <1>2, <1>3, AddedOutside, Zenon
<1> QED  BY <1>1, <1>2, <1>4 DEF Replayable

\* A chain without attributes is what no arguments say.
LEMMA ReplayStart == LoggersInit => ReplayInv
<1> SUFFICES ASSUME LoggersInit PROVE ReplayInv
  OBVIOUS
<1>1. loggers = <<Root>> /\ arrays[1] = <<>>
  BY DEF LoggersInit
<1>2. /\ Root.withArgs.array = 1 /\ Root.withArgs.len = 0 /\ Root.groups = <<>> /\ Root.opened = <<>>
      /\ Root.attrs = <<>>
  BY DEF Root
<1>3. Elems(Root.withArgs) = <<>>
  BY <1>1, <1>2 DEF Elems
<1>4. Paired(<<>>) /\ InPairs(<<>>) = <<>>
  BY DEF Paired, InPairs
<1>5. Added(Root, <<>>) = <<>>
  BY DEF Added
<1>6. Replayable(Root)
  BY <1>2, <1>3, <1>4, <1>5 DEF Replayable
<1> HIDE DEF Root
<1>7. \A i \in 1 .. Len(loggers) : loggers[i] = Root
  BY <1>1
<1> QED  BY <1>6, <1>7 DEF ReplayInv

\* Each step keeps this, too.
LEMMA ReplayStep == AllPaired /\ LoggersInv /\ ReplayInv /\ [LoggersNext]_loggerVars => ReplayInv'
<1> SUFFICES ASSUME AllPaired, LoggersInv, ReplayInv, [LoggersNext]_loggerVars PROVE ReplayInv'
  OBVIOUS
<1>1. CASE UNCHANGED loggerVars
  BY <1>1 DEF loggerVars, ReplayInv, Replayable, Elems
<1>2. CASE LoggersNext
  <2>1. Grows
    BY <1>2, StepIs
  <2>2. PICK i \in 1 .. Len(loggers) : \E l, m :
                 /\ l = loggers[i] /\ Adds(m)
                 /\ \/ m.handler
                    \/ /\ ~l.handler /\ m.groups = l.groups /\ m.opened = l.opened
                       /\ (\E args \in WithArgs \cup Contexts : Derived(l, m, args)) \/ Hooked(l, m)
    BY <1>2, StepIs
  <2>3. PICK l, m :
                 /\ l = loggers[i] /\ Adds(m)
                 /\ \/ m.handler
                    \/ /\ ~l.handler /\ m.groups = l.groups /\ m.opened = l.opened
                       /\ (\E args \in WithArgs \cup Contexts : Derived(l, m, args)) \/ Hooked(l, m)
    BY <2>2
  <2>4. Known(l)
    <3>1. loggers[i] \in Logger
      BY DEF LoggersInv
    <3> QED  BY <2>3, <3>1 DEF LoggersInv, Known
  <2>5. ~m.handler => Replayable(m)'
    <3> SUFFICES ASSUME ~m.handler PROVE Replayable(m)'
      OBVIOUS
    <3>1. Replayable(l)
      BY <2>3 DEF ReplayInv
    <3>2. CASE Hooked(l, m)
      BY <2>3, <2>4, <3>1, <3>2, ReplayHooked
    <3>3. ASSUME NEW args \in WithArgs \cup Contexts, Derived(l, m, args) PROVE Replayable(m)'
      <4>1. Paired(args)
        BY ContextPaired DEF AllPaired, Contexts
      <4> QED  BY <2>3, <2>4, <3>1, <3>3, <4>1, ReplayDerived
    <3> QED  BY <2>3, <3>2, <3>3
  <2>6. /\ Len(loggers) \in Nat /\ \A j \in 1 .. Len(loggers) : loggers'[j] = loggers[j]
        /\ \A j \in 1 .. Len(loggers') : j \in 1 .. Len(loggers) \/ loggers'[j] = m
    BY <2>3, OldOrNew
  <2>7. ASSUME NEW j \in 1 .. Len(loggers'), ~loggers'[j].handler PROVE Replayable(loggers[j])'
    <3>1. CASE loggers'[j] = m
      BY <2>5, <2>7, <3>1 DEF Replayable
    <3>2. CASE j \in 1 .. Len(loggers)
      <4>1. PICK k : k = loggers[j]
        OBVIOUS
      <4>2. Fits(k)
        BY <3>2, <4>1 DEF LoggersInv
      <4>3. loggers'[j] = k
        BY <2>6, <3>2, <4>1
      <4>4. Replayable(k)
        BY <2>7, <3>2, <4>1, <4>3 DEF ReplayInv
      <4>5. Elems(k.withArgs)' = Elems(k.withArgs)
        BY <2>1, <4>2, GrowsKeeps
      <4>6. Replayable(k)'
        BY <4>4, <4>5 DEF Replayable
      <4> QED  BY <4>3, <4>6 DEF Replayable
    <3> QED  BY <2>6, <3>1, <3>2
  <2> QED  BY <2>7 DEF ReplayInv
<1> QED  BY <1>1, <1>2

\* When the lists given to With have their keys where they belong, a chain
\* built anew carries what the chain has.
THEOREM ReplayIsFaithfulCorrect == AllPaired => (LoggersSpec => []ReplayIsFaithful)
<1>1. ReplayInv => ReplayIsFaithful
  <2> SUFFICES ASSUME ReplayInv, NEW i \in 1 .. Len(loggers), ~loggers[i].handler
               PROVE  Added(Root, argsToAttrs(Elems(loggers[i].withArgs))) = loggers[i].attrs
    BY DEF ReplayIsFaithful
  <2>1. Paired(Elems(loggers[i].withArgs)) /\ loggers[i].attrs = Added(Root, InPairs(Elems(loggers[i].withArgs)))
    BY DEF ReplayInv, Replayable
  <2>2. argsToAttrs(Elems(loggers[i].withArgs)) = InPairs(Elems(loggers[i].withArgs))
    BY <2>1, PlainPairs
  <2> QED  BY <2>1, <2>2, Zenon
<1> SUFFICES ASSUME AllPaired PROVE LoggersSpec => []ReplayIsFaithful
  OBVIOUS
<1>2. LoggersInv /\ ReplayInv /\ [LoggersNext]_loggerVars => ReplayInv'
  BY ReplayStep
<1> QED  BY <1>1, <1>2, LoggersTyped, ReplayStart, PTL DEF LoggersSpec

\* Under the same condition, no field a call takes from its context repeats a
\* key the logger carries.
THEOREM PresetKeysWinCorrect == AllPaired => (LoggersSpec => []PresetKeysWin)
<1>1. LoggersInv /\ ReplayInv => PresetKeysWin
  <2> SUFFICES ASSUME LoggersInv, ReplayInv, NEW i \in 1 .. Len(loggers), NEW names \in SUBSET Names, ~loggers[i].handler,
                      NEW j \in 1 .. Len(loggers[i].attrs),
                      NEW k \in Len(loggers[i].attrs) + 1 .. Len(Output(loggers[i], names))
               PROVE  loggers[i].attrs[j].key # Output(loggers[i], names)[k].key
    BY DEF PresetKeysWin
  <2>1. PICK l : l = loggers[i]
    OBVIOUS
  <2>2. l \in Logger /\ GroupsOk(l) /\ ~l.handler
    BY <2>1 DEF LoggersInv
  <2>3. l.attrs[j].key \in ToSet(l.preAttrKeys)
    BY <2>1 DEF ReplayInv, Replayable
  <2> DEFINE a == l.attrs
             left == dropPreKeys(SlogAttrs(extractContextInfo(names)), l.preAttrKeys)
             b == Added(l, left)
  <2>4. left \in Seq(Given) /\ \A n \in 1 .. Len(left) : left[n].key \notin ToSet(l.preAttrKeys)
    BY GivenByContext
  <2>5. Output(l, names) = a \o b
    BY <2>2 DEF Output
  <2> HIDE DEF left
  <2>6. a \in Seq(Attr) /\ b \in Seq(Attr) /\ Len(b) = Len(left) /\ \A n \in 1 .. Len(left) : b[n].key = left[n].key
    BY <2>2, <2>4, AddedIs DEF Logger
  <2>7. k \in Len(a) + 1 .. Len(a \o b)
    BY <2>1, <2>5
  <2> HIDE DEF a, b
  <2>8. /\ Len(a \o b) = Len(a) + Len(b) /\ Len(a) \in Nat /\ Len(b) \in Nat
        /\ \A n \in 1 .. Len(a) + Len(b) : (a \o b)[n] = IF n <= Len(a) THEN a[n] ELSE b[n - Len(a)]
    <3>1. a \in Seq(Attr) /\ b \in Seq(Attr)
      BY <2>6
    <3>2. Len(a) \in Nat /\ Len(b) \in Nat
      BY <3>1
    <3> QED  BY <3>1, <3>2, ConcatProperties, Zenon
  <2>9. k - Len(a) \in 1 .. Len(b) /\ (a \o b)[k] = b[k - Len(a)]
    BY <2>7, <2>8
  <2>10. (a \o b)[k].key \notin ToSet(l.preAttrKeys)
    <3>1. k - Len(a) \in 1 .. Len(left)
      BY <2>6, <2>9
    <3> QED  BY <2>4, <2>6, <2>9, <3>1, Zenon
  <2> QED  BY <2>1, <2>3, <2>5, <2>10
<1> SUFFICES ASSUME AllPaired PROVE LoggersSpec => []PresetKeysWin
  OBVIOUS
<1>2. LoggersInv /\ ReplayInv /\ [LoggersNext]_loggerVars => ReplayInv'
  BY ReplayStep
<1> QED  BY <1>1, <1>2, LoggersTyped, ReplayStart, PTL DEF LoggersSpec

=============================================================================
