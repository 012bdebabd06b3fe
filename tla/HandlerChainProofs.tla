------------------------- MODULE HandlerChainProofs -------------------------
(***************************************************************************)
(* Proofs about HandlerChain: types, and that what a record or Sync is     *)
(* told to be written is written. What carries all of it is Grows:         *)
(* whatever a step does, an output keeps what it took, and a batchWriter   *)
(* loses no record but by failing.                                         *)
(*                                                                         *)
(* Without a fault nothing fails: Sync closes the outputs only after it    *)
(* has waited for the workers, and an error is only that of a goroutine it *)
(* has not waited for.                                                     *)
(*                                                                         *)
(* The outputs agree: behind the batchWriter all of them have the same     *)
(* until it fails, and then a later one has the beginning of what an       *)
(* earlier one has; under the mutex of slog.TextHandler the record in hand *)
(* is the last one of the outputs before, and new to the others.           *)
(***************************************************************************)
EXTENDS HandlerChain, TLAPS

BWs == {"main", "console"}
BWType == [buf : Seq(Records), err : BOOLEAN, closed : BOOLEAN, locked : BOOLEAN]

-----------------------------------------------------------------------------
(* Sequences as sets *)

LEMMA EmptyToSet == ToSet(<<>>) = {}
BY DEF ToSet

LEMMA AppendToSet ==
    ASSUME NEW S, NEW s \in Seq(S), NEW x \in S
    PROVE  ToSet(Append(s, x)) = ToSet(s) \cup {x}
<1>1. DOMAIN Append(s, x) = 1 .. Len(s) + 1 /\ DOMAIN s = 1 .. Len(s) /\ Len(s) \in Nat
  OBVIOUS
<1>2. \A i \in 1 .. Len(s) : Append(s, x)[i] = s[i]
  OBVIOUS
<1>3. Append(s, x)[Len(s) + 1] = x
  OBVIOUS
<1>4. ToSet(Append(s, x)) \subseteq ToSet(s) \cup {x}
  BY <1>1, <1>2, <1>3 DEF ToSet
<1>5. ToSet(s) \subseteq ToSet(Append(s, x))
  BY <1>1, <1>2 DEF ToSet
<1>6. x \in ToSet(Append(s, x))
  BY <1>1, <1>3 DEF ToSet
<1> QED  BY <1>4, <1>5, <1>6

LEMMA ConcatToSet ==
    ASSUME NEW S, NEW s \in Seq(S), NEW t \in Seq(S)
    PROVE  ToSet(s \o t) = ToSet(s) \cup ToSet(t)
<1>1. DOMAIN (s \o t) = 1 .. Len(s) + Len(t) /\ DOMAIN s = 1 .. Len(s) /\ DOMAIN t = 1 .. Len(t)
  OBVIOUS
<1>2. Len(s) \in Nat /\ Len(t) \in Nat
  OBVIOUS
<1>3. \A i \in 1 .. Len(s) : (s \o t)[i] = s[i]
  OBVIOUS
<1>4. \A i \in 1 .. Len(t) : (s \o t)[Len(s) + i] = t[i]
  OBVIOUS
<1>5. ToSet(s) \subseteq ToSet(s \o t)
  BY <1>1, <1>2, <1>3 DEF ToSet
<1>6. ToSet(t) \subseteq ToSet(s \o t)
  <2>1. \A i \in 1 .. Len(t) : Len(s) + i \in 1 .. Len(s) + Len(t)
    BY <1>2
  <2> QED  BY <1>1, <1>4, <2>1 DEF ToSet
<1>7. ASSUME NEW i \in 1 .. Len(s) + Len(t) PROVE (s \o t)[i] \in ToSet(s) \cup ToSet(t)
  <2>1. CASE i <= Len(s)
    BY <1>1, <1>2, <1>3, <2>1 DEF ToSet
  <2>2. CASE i > Len(s)
    <3>1. i - Len(s) \in 1 .. Len(t) /\ i = Len(s) + (i - Len(s))
      BY <1>2, <2>2
    <3> QED  BY <1>1, <1>4, <3>1 DEF ToSet
  <2> QED  BY <1>2, <2>1, <2>2
<1>8. ToSet(s \o t) \subseteq ToSet(s) \cup ToSet(t)
  BY <1>1, <1>7 DEF ToSet
<1> QED  BY <1>5, <1>6, <1>8

LEMMA PartOfSeq ==
    ASSUME NEW S, NEW s \in Seq(S), NEW m \in 0 .. Len(s)
    PROVE  SubSeq(s, 1, m) \in Seq(S) /\ SubSeq(s, m + 1, Len(s)) \in Seq(S)
OBVIOUS

LEMMA RestOfSeq ==
    ASSUME NEW S, NEW s \in Seq(S), NEW m \in 0 .. Len(s), m # Len(s)
    PROVE  SubSeq(s, m + 1, Len(s)) # <<>>
<1> DEFINE t == SubSeq(s, m + 1, Len(s))
<1>1. Len(s) \in Nat /\ m < Len(s)
  OBVIOUS
<1>2. t \in Seq(S) /\ Len(t) = Len(s) - m
  BY <1>1, PartOfSeq
<1>3. Len(t) > 0
  BY <1>1, <1>2
<1> HIDE DEF t
<1>4. t # <<>>
  BY <1>3
<1> QED  BY <1>4 DEF t

-----------------------------------------------------------------------------
(* Types *)

\* A goroutine in the chain has a record.
TypeInv == /\ TypeOK
           /\ \A c \in Goroutines : pc[c] # "idle" => n[c] # 0

LEMMA RecordOf ==
    ASSUME NEW c \in Goroutines, NEW m \in 1 .. MaxRecords[c]
    PROVE  <<c, m>> \in Records
BY DEF Records

LEMMA MembersType == TypeOK => Members \in Seq(Outputs) /\ Members # <<>>
<1> SUFFICES ASSUME TypeOK PROVE Members \in Seq(Outputs) /\ Members # <<>>
  OBVIOUS
<1>1. cfg.members \in Seq(Outputs \ {"console"}) /\ cfg.members # <<>>
  BY ConfigAssumption DEF TypeOK
<1> QED  BY <1>1 DEF Members

LEMMA BelowType == ASSUME TypeOK, NEW b \in BWs PROVE Below(b) \in Seq(Outputs)
<1>1. <<"console">> \in Seq(Outputs)
  BY DEF Outputs
<1>2. Members \in Seq(Outputs)
  BY MembersType
<1> QED  BY <1>1, <1>2 DEF Below

\* The effect of a call of Write with the records of chunk.
LEMMA SpreadEffect ==
    ASSUME TypeOK, NEW b \in BWs, NEW chunk \in Seq(Records), NEW i \in Nat, NEW m \in 0 .. Len(chunk),
           Spread(b, chunk, i, m)
    PROVE  /\ taken' \in [Outputs -> Seq(Records)]
           /\ \A o \in Outputs : ToSet(taken[o]) \subseteq ToSet(taken'[o])
           /\ \A o \in Outputs : o \in ToSet(SubSeq(Below(b), 1, i - 1)) => ToSet(chunk) \subseteq ToSet(taken'[o])
           /\ i \in 1 .. Len(Below(b)) /\ m = Len(chunk) => ToSet(chunk) \subseteq ToSet(taken'[Below(b)[i]])
<1> DEFINE Share(o) == IF o \in ToSet(SubSeq(Below(b), 1, i - 1)) THEN chunk
                       ELSE IF i <= Len(Below(b)) /\ o = Below(b)[i] THEN SubSeq(chunk, 1, m)
                       ELSE <<>>
<1>1. \A o \in Outputs : Share(o) \in Seq(Records)
  BY PartOfSeq
<1>2. \A o \in Outputs : taken[o] \in Seq(Records)
  BY DEF TypeOK
<1>3. taken' = [o \in Outputs |-> taken[o] \o Share(o)]
  BY DEF Spread
<1> HIDE DEF Share
<1>4. \A o \in Outputs : taken'[o] \in Seq(Records) /\ ToSet(taken'[o]) = ToSet(taken[o]) \cup ToSet(Share(o))
  BY <1>1, <1>2, <1>3, ConcatToSet
<1>5. taken' \in [Outputs -> Seq(Records)]
  BY <1>3, <1>4
<1>6. \A o \in Outputs : o \in ToSet(SubSeq(Below(b), 1, i - 1)) => Share(o) = chunk
  BY DEF Share
<1>7. ASSUME i \in 1 .. Len(Below(b)), m = Len(chunk)
      PROVE  ToSet(chunk) \subseteq ToSet(taken'[Below(b)[i]])
  <2>1. Below(b)[i] \in Outputs
    BY <1>7, BelowType
  <2>2. SubSeq(chunk, 1, m) = chunk
    BY <1>7
  <2>3. Share(Below(b)[i]) = chunk
    BY <1>7, <2>1, <2>2 DEF Share
  <2> QED  BY <1>4, <2>1, <2>3
<1> QED  BY <1>4, <1>5, <1>6, <1>7

\* A Write below b does not come back.
Halts(b, chunk) ==
    \E i \in 1 .. Len(Below(b)), m \in 0 .. Len(chunk), locked \in BOOLEAN :
        /\ \A j \in 1 .. i - 1 : Below(b)[j] \notin shut
        /\ MayFail
        /\ Spread(b, chunk, i, m)
        /\ bw' = [bw EXCEPT ![b].buf = chunk, ![b].locked = locked]

LEMMA HaltsMeans ==
    ASSUME NEW b, NEW chunk, NEW locked \in BOOLEAN, FlushPanics(b, chunk, locked) \/ FlushHangs(b, chunk)
    PROVE  Halts(b, chunk)
BY DEF FlushPanics, FlushHangs, FlushHalts, Halts

\* Something takes the records of chunk, which begins with those of buffer b.
Flush(b, chunk, flag) == FlushOk(b, chunk, flag) \/ FlushFails(b, chunk, flag) \/ Halts(b, chunk)

LEMMA FlushMeans ==
    ASSUME NEW b, NEW chunk, NEW flag,
           FlushOk(b, chunk, flag) \/ FlushFails(b, chunk, flag) \/ FlushPanics(b, chunk, TRUE)
           \/ FlushPanics(b, chunk, FALSE) \/ FlushHangs(b, chunk)
    PROVE  Flush(b, chunk, flag)
BY HaltsMeans DEF Flush

\* Output o below b has record r; or b still has it; or b has failed, with bytes
\* it could not write, or after an output before o took all of them.
Lost(b, o, r) == bw[b].err /\ (bw[b].buf # <<>> \/ EarlierTook(b, o, r))
Cared(b, o, r) == Took(o, r) \/ r \in ToSet(bw[b].buf) \/ Lost(b, o, r)

\* After it every record of chunk is with every output below b, or b still has
\* it, or b has failed.
LEMMA FlushEffect ==
    ASSUME TypeOK, NEW b \in BWs, NEW chunk \in Seq(Records), NEW flag \in BOOLEAN,
           ~bw[b].err, cfg' = cfg,
           Flush(b, chunk, flag)
    PROVE  /\ taken' \in [Outputs -> Seq(Records)]
           /\ \A o \in Outputs : ToSet(taken[o]) \subseteq ToSet(taken'[o])
           /\ \A o \in ToSet(Below(b)) : \A r \in ToSet(chunk) : Cared(b, o, r)'
           /\ bw' \in [BWs -> BWType]
           /\ \A a \in BWs : a # b => bw'[a] = bw[a]
           /\ faults' \in 0 .. MaxFaults
<1> USE DEF BWs
<1>1. bw \in [BWs -> BWType]
  BY DEF TypeOK, BWType
<1>2. faults \in 0 .. MaxFaults
  BY DEF TypeOK
<1>3. Below(b) \in Seq(Outputs) /\ Len(Below(b)) \in Nat /\ Below(b)' = Below(b)
  BY BelowType DEF Below, Members
<1>4. Len(chunk) \in Nat
  OBVIOUS
<1>5. CASE FlushOk(b, chunk, flag)
  <2> DEFINE i == Len(Below(b)) + 1
  <2>1. Spread(b, chunk, i, 0) /\ 0 \in 0 .. Len(chunk) /\ i \in Nat
    BY <1>3, <1>4, <1>5 DEF FlushOk
  <2>2. SubSeq(Below(b), 1, i - 1) = Below(b)
    BY <1>3
  <2>3. bw' = [bw EXCEPT ![b].buf = <<>>, ![b].closed = flag] /\ faults' = faults
    BY <1>5 DEF FlushOk
  <2> HIDE DEF i
  <2>4. /\ taken' \in [Outputs -> Seq(Records)]
        /\ \A o \in Outputs : ToSet(taken[o]) \subseteq ToSet(taken'[o])
        /\ \A o \in Outputs : o \in ToSet(Below(b)) => ToSet(chunk) \subseteq ToSet(taken'[o])
    BY <2>1, <2>2, SpreadEffect
  <2>5. /\ bw' \in [BWs -> BWType]
        /\ \A a \in BWs : a # b => bw'[a] = bw[a]
    BY <1>1, <2>3, <<>> \in Seq(Records) DEF BWType
  <2>6. \A o \in ToSet(Below(b)) : o \in Outputs
    BY <1>3 DEF ToSet
  <2>7. \A o \in ToSet(Below(b)) : \A r \in ToSet(chunk) : Cared(b, o, r)'
    <3> TAKE o \in ToSet(Below(b))
    <3> TAKE r \in ToSet(chunk)
    <3>1. r \in ToSet(taken'[o])
      BY <2>4, <2>6
    <3> QED  BY <3>1 DEF Cared, Took
  <2> QED  BY <1>2, <2>3, <2>4, <2>5, <2>7
<1>6. CASE FlushFails(b, chunk, flag)
  <2>0. PICK i \in 1 .. Len(Below(b)), m \in 0 .. Len(chunk) :
            /\ IF Below(b)[i] \in shut THEN m = 0 /\ UNCHANGED faults ELSE MayFail
            /\ Spread(b, chunk, i, m)
            /\ bw' = [bw EXCEPT ![b].buf = SubSeq(chunk, m + 1, Len(chunk)), ![b].err = TRUE, ![b].closed = flag]
    BY <1>6, Zenon DEF FlushFails
  <2>1. /\ UNCHANGED faults \/ MayFail
        /\ Spread(b, chunk, i, m)
        /\ bw' = [bw EXCEPT ![b].buf = SubSeq(chunk, m + 1, Len(chunk)), ![b].err = TRUE, ![b].closed = flag]
    BY <2>0, Zenon
  <2>2. i \in Nat /\ i - 1 \in 0 .. Len(Below(b))
    BY <1>3
  <2>3. /\ taken' \in [Outputs -> Seq(Records)]
        /\ \A o \in Outputs : ToSet(taken[o]) \subseteq ToSet(taken'[o])
        /\ \A o \in Outputs : o \in ToSet(SubSeq(Below(b), 1, i - 1)) => ToSet(chunk) \subseteq ToSet(taken'[o])
        /\ m = Len(chunk) => ToSet(chunk) \subseteq ToSet(taken'[Below(b)[i]])
    BY <2>1, <2>2, SpreadEffect
  <2>4. faults' \in 0 .. MaxFaults
    BY <1>2, <2>1, BoundAssumption DEF MayFail
  <2> DEFINE rest == SubSeq(chunk, m + 1, Len(chunk))
  <2>5. rest \in Seq(Records) /\ (m # Len(chunk) => rest # <<>>)
    BY PartOfSeq, RestOfSeq
  <2>6. bw' = [bw EXCEPT ![b].buf = rest, ![b].err = TRUE, ![b].closed = flag]
    BY <2>1
  <2> HIDE DEF rest
  <2>7. /\ bw' \in [BWs -> BWType]
        /\ \A a \in BWs : a # b => bw'[a] = bw[a]
        /\ bw'[b].err /\ bw'[b].buf = rest
    BY <1>1, <2>5, <2>6 DEF BWType
  <2>8. ASSUME m = Len(chunk), NEW o \in ToSet(Below(b)), NEW r \in ToSet(chunk) PROVE Cared(b, o, r)'
    <3>1. PICK j \in 1 .. Len(Below(b)) : Below(b)[j] = o
      BY <1>3, <2>8 DEF ToSet
    <3>2. CASE j < i
      <4>1. /\ SubSeq(Below(b), 1, i - 1)[j] = o
            /\ j \in DOMAIN SubSeq(Below(b), 1, i - 1)
        BY <1>3, <2>2, <3>1, <3>2
      <4>2. o \in ToSet(SubSeq(Below(b), 1, i - 1)) /\ o \in Outputs
        BY <1>3, <3>1, <4>1 DEF ToSet
      <4>3. r \in ToSet(taken'[o])
        BY <2>3, <2>8, <4>2
      <4> QED  BY <4>3 DEF Cared, Took
    <3>3. CASE j = i
      <4>1. r \in ToSet(taken'[o])
        BY <2>3, <2>8, <3>1, <3>3
      <4> QED  BY <4>1 DEF Cared, Took
    <3>4. CASE j > i
      <4>1. r \in ToSet(taken'[Below(b)[i]])
        BY <2>3, <2>8
      <4>2. EarlierTook(b, o, r)'
        BY <1>3, <3>1, <3>4, <4>1 DEF EarlierTook, Took
      <4> QED  BY <2>7, <4>2 DEF Cared, Lost
    <3> QED  BY <1>3, <3>2, <3>3, <3>4
  <2>9. m # Len(chunk) => \A o, r : Cared(b, o, r)'
    BY <2>5, <2>7 DEF Cared, Lost
  <2> QED  BY <2>3, <2>4, <2>7, <2>8, <2>9
<1>7. CASE Halts(b, chunk)
  <2>1. PICK i \in 1 .. Len(Below(b)), m \in 0 .. Len(chunk), locked \in BOOLEAN :
            /\ MayFail
            /\ Spread(b, chunk, i, m)
            /\ bw' = [bw EXCEPT ![b].buf = chunk, ![b].locked = locked]
    BY <1>7 DEF Halts
  <2>2. i \in Nat
    BY <1>3
  <2>3. /\ taken' \in [Outputs -> Seq(Records)]
        /\ \A o \in Outputs : ToSet(taken[o]) \subseteq ToSet(taken'[o])
    BY <2>1, <2>2, SpreadEffect
  <2>4. faults' \in 0 .. MaxFaults
    BY <1>2, <2>1, BoundAssumption DEF MayFail
  <2>5. /\ bw' \in [BWs -> BWType]
        /\ \A a \in BWs : a # b => bw'[a] = bw[a]
        /\ bw'[b].buf = chunk
    BY <1>1, <2>1 DEF BWType
  <2>6. \A o, r : r \in ToSet(chunk) => Cared(b, o, r)'
    BY <2>5 DEF Cared
  <2> QED  BY <2>3, <2>4, <2>5, <2>6
<1> QED  BY <1>5, <1>6, <1>7 DEF Flush

-----------------------------------------------------------------------------
(* Types are kept *)

PCs == {"idle", "before", "syncing", "main", "console", "hung", "after", "resyncing"}

\* What the goroutines in the chain have of TypeInv.
ChainType ==
    /\ pc \in [Goroutines -> PCs]
    /\ k \in [Goroutines -> Nat \ {0}]
    /\ err \in [Goroutines -> BOOLEAN]
    /\ outcome \in [Records -> {"none", "dropped", "stopped", "ok", "error", "panic"}]
    /\ \A c \in Goroutines : pc[c] # "idle" => n[c] # 0

\* What the batchWriters and the outputs have of it.
OutputType ==
    /\ bw \in [BWs -> BWType]
    /\ taken \in [Outputs -> Seq(Records)]
    /\ faults \in 0 .. MaxFaults

LEMMA RecIsRecord == ASSUME TypeInv, NEW c \in Goroutines, pc[c] # "idle" PROVE Rec(c) \in Records
<1>1. n[c] \in 1 .. MaxRecords[c]
  BY BoundAssumption DEF TypeInv, TypeOK
<1> QED  BY <1>1, RecordOf DEF Rec

LEMMA GotoType ==
    ASSUME TypeInv, NEW c \in Goroutines, NEW stage \in PCs, Goto(c, stage), pc[c] # "idle",
           UNCHANGED <<n, err, outcome>>
    PROVE  ChainType'
BY DEF TypeInv, TypeOK, ChainType, PCs, Goto

LEMMA EndsType ==
    ASSUME TypeInv, NEW c \in Goroutines, NEW how \in {"dropped", "stopped", "ok", "error", "panic"}, Ends(c, how),
           pc[c] # "idle", UNCHANGED <<n, err>>
    PROVE  ChainType'
<1>1. pc' \in [Goroutines -> PCs] /\ k' \in [Goroutines -> Nat \ {0}]
  BY DEF TypeInv, TypeOK, PCs, Ends, Goto
<1>2. \A d \in Goroutines : pc'[d] # "idle" => n'[d] # 0
  BY DEF TypeInv, TypeOK, Ends, Goto
<1>3. outcome' \in [Records -> {"none", "dropped", "stopped", "ok", "error", "panic"}]
  BY DEF TypeInv, TypeOK, Ends
<1> QED  BY <1>1, <1>2, <1>3 DEF TypeInv, TypeOK, ChainType

LEMMA WroteType ==
    ASSUME TypeInv, NEW c \in Goroutines, NEW failed \in BOOLEAN, Wrote(c, failed), pc[c] # "idle", UNCHANGED n
    PROVE  ChainType'
<1>1. err' \in [Goroutines -> BOOLEAN] /\ outcome' = outcome
  BY DEF TypeInv, TypeOK, Wrote
<1>2. PICK stage \in {"console", "after"} : Goto(c, stage)
  BY DEF Wrote
<1>3. pc' \in [Goroutines -> PCs] /\ k' \in [Goroutines -> Nat \ {0}]
  BY <1>2 DEF TypeInv, TypeOK, PCs, Goto
<1>4. \A d \in Goroutines : pc'[d] # "idle" => n'[d] # 0
  BY <1>2 DEF TypeInv, TypeOK, Goto
<1> QED  BY <1>1, <1>3, <1>4 DEF TypeInv, TypeOK, ChainType

LEMMA WritePanicsType ==
    ASSUME TypeInv, NEW c \in Goroutines, WritePanics(c), pc[c] # "idle", UNCHANGED n
    PROVE  ChainType'
BY WroteType, EndsType DEF WritePanics

LEMMA SyncGoesType ==
    ASSUME TypeInv, NEW failed \in BOOLEAN, SyncGoes(failed)
    PROVE  sync' \in [stage : {"idle", "workers", "main", "console", "file", "network", "done"},
                      result : {"nil", "error", "panic"}]
<1>1. PICK j \in 1 .. Len(Stages) :
          sync' = [stage |-> Stages[j], result |-> IF failed THEN "error" ELSE sync.result]
  BY DEF SyncGoes
<1>2. Stages[j] \in {"idle", "workers", "main", "console", "file", "network", "done"}
  BY DEF Stages
<1> QED  BY <1>1, <1>2 DEF TypeInv, TypeOK

LEMMA Assemble ==
    ASSUME ChainType', OutputType', cfg' \in Configs,
           n' \in [Goroutines -> Nat], \A c \in Goroutines : n'[c] <= MaxRecords[c],
           textMu' \in Goroutines \cup {Nobody}, shut' \subseteq {"file"}, stalled' \subseteq Goroutines, alive' \in BOOLEAN,
           sync' \in [stage : {"idle", "workers", "main", "console", "file", "network", "done"},
                      result : {"nil", "error", "panic"}]
    PROVE  TypeInv'
BY DEF TypeInv, TypeOK, ChainType, OutputType, PCs, BWs, BWType

LEMMA TypeParts == TypeInv => ChainType /\ OutputType
BY DEF TypeInv, TypeOK, ChainType, OutputType, PCs, BWs, BWType

-----------------------------------------------------------------------------
(* What a step may do to the records below the chain *)

\* Batch writer b has taken care of r.
With(r, b) ==
    \A o \in ToSet(Below(b)) : Cared(b, o, r)

\* What an output took it keeps, no buffer loses a record, and a bufio that has
\* failed does nothing more.
Grows ==
    /\ cfg' = cfg
    /\ \A o \in Outputs : ToSet(taken[o]) \subseteq ToSet(taken'[o])
    /\ \A b \in BWs : bw[b].err => bw'[b].err /\ bw'[b].buf = bw[b].buf
    /\ \A b \in BWs : \A r \in ToSet(bw[b].buf) : With(r, b)'

LEMMA CaredStays ==
    ASSUME TypeOK, NEW b \in BWs, NEW o \in Outputs, NEW r, Cared(b, o, r), cfg' = cfg,
           \A p \in Outputs : ToSet(taken[p]) \subseteq ToSet(taken'[p]),
           bw[b].err => bw'[b].err /\ bw'[b].buf = bw[b].buf,
           r \in ToSet(bw[b].buf) => Cared(b, o, r)'
    PROVE  Cared(b, o, r)'
<1>1. Below(b)' = Below(b) /\ \A i \in 1 .. Len(Below(b)) : Below(b)[i] \in Outputs
  BY BelowType DEF Below, Members
<1>2. EarlierTook(b, o, r) => EarlierTook(b, o, r)'
  BY <1>1 DEF EarlierTook, Took
<1> QED  BY <1>2 DEF Cared, Lost, Took

LEMMA BelowOutputs == ASSUME TypeOK, NEW b \in BWs PROVE ToSet(Below(b)) \subseteq Outputs
BY BelowType DEF ToSet

\* So it is for a flush of what is in the buffer, and of more.
LEMMA FlushGrows ==
    ASSUME TypeInv, NEW b \in BWs, NEW chunk \in Seq(Records), NEW flag \in BOOLEAN,
           ~bw[b].err, Flush(b, chunk, flag), cfg' = cfg,
           ToSet(bw[b].buf) \subseteq ToSet(chunk)
    PROVE  OutputType' /\ Grows /\ \A r \in ToSet(chunk) : With(r, b)'
<1>1. TypeOK /\ ToSet(Below(b)) \subseteq Outputs
  BY BelowOutputs DEF TypeInv
<1>2. /\ taken' \in [Outputs -> Seq(Records)]
      /\ \A o \in Outputs : ToSet(taken[o]) \subseteq ToSet(taken'[o])
      /\ \A o \in ToSet(Below(b)) : \A r \in ToSet(chunk) : Cared(b, o, r)'
      /\ bw' \in [BWs -> BWType]
      /\ \A a \in BWs : a # b => bw'[a] = bw[a]
      /\ faults' \in 0 .. MaxFaults
  BY <1>1, FlushEffect
<1>3. OutputType'
  BY <1>2 DEF OutputType, TypeInv
<1>4. \A a \in BWs : Below(a)' = Below(a)
  BY DEF Below, Members
<1>5. \A r \in ToSet(chunk) : With(r, b)'
  BY <1>2, <1>4 DEF With
<1>6. \A a \in BWs : \A r \in ToSet(bw[a].buf) : With(r, a)'
  <2> TAKE a \in BWs
  <2>1. CASE a = b
    BY <1>5, <2>1
  <2>2. CASE a # b
    BY <1>2, <1>4, <2>2 DEF With, Cared
  <2> QED  BY <2>1, <2>2
<1>7. Grows
  BY <1>2, <1>6 DEF Grows
<1> QED  BY <1>3, <1>5, <1>7

\* Steps that touch neither the batchWriters nor the outputs.
LEMMA NothingBelow ==
    ASSUME TypeInv, UNCHANGED <<bw, taken, cfg>>, faults' \in 0 .. MaxFaults
    PROVE  OutputType' /\ Grows
<1>1. Grows
  BY DEF Grows, With, Cared, Below, Members
<1> QED  BY <1>1 DEF TypeInv, TypeOK, OutputType, BWs, BWType

LEMMA MayFailType == TypeInv /\ MayFail => faults' \in 0 .. MaxFaults
BY BoundAssumption DEF TypeInv, TypeOK, MayFail

\* batchWriter.Write either fails, or has taken care of the record.
LEMMA WriteBatchEffect ==
    ASSUME TypeInv, NEW c \in Goroutines, WriteBatch(c)
    PROVE  \E b \in BWs :
               /\ pc[c] = b /\ InUse(b)
               /\ OutputType' /\ Grows
               /\ \/ Wrote(c, TRUE)
                  \/ WritePanics(c)
                  \/ Goto(c, "hung") /\ UNCHANGED <<err, outcome>>
                  \/ Wrote(c, FALSE) /\ With(Rec(c), b)'
<1> DEFINE filled(b) == Append(bw[b].buf, Rec(c))
<1>1. PICK b \in BWs :
        /\ pc[c] = b /\ InUse(b) /\ cfg' = cfg /\ n' = n
        /\ \/ Wrote(c, TRUE) /\ UNCHANGED <<bw, faults, taken>>
           \/ /\ ~bw[b].err
              /\ Wrote(c, FALSE)
              /\ bw' = [bw EXCEPT ![b].buf = filled(b)]
              /\ UNCHANGED <<faults, taken>>
           \/ ~bw[b].err /\ FlushOk(b, filled(b), FALSE) /\ Wrote(c, FALSE)
           \/ ~bw[b].err /\ FlushFails(b, filled(b), FALSE) /\ Wrote(c, TRUE)
           \/ ~bw[b].err /\ FlushPanics(b, filled(b), TRUE) /\ WritePanics(c)
           \/ ~bw[b].err /\ FlushHangs(b, filled(b)) /\ Goto(c, "hung") /\ UNCHANGED <<err, outcome>>
  BY DEF WriteBatch, BWs
<1>2. bw \in [BWs -> BWType] /\ bw[b].buf \in Seq(Records) /\ faults \in 0 .. MaxFaults
  BY DEF TypeInv, TypeOK, BWs, BWType
<1>3. Rec(c) \in Records
  BY <1>1, RecIsRecord DEF BWs
<1>11. Rec(c)' = Rec(c)
  BY <1>1 DEF Rec
<1>4. filled(b) \in Seq(Records) /\ ToSet(filled(b)) = ToSet(bw[b].buf) \cup {Rec(c)}
  BY <1>2, <1>3, AppendToSet
<1> HIDE DEF filled
<1>5. CASE Wrote(c, TRUE) /\ UNCHANGED <<bw, faults, taken>>
  BY <1>1, <1>2, <1>5, NothingBelow
<1>6. CASE /\ ~bw[b].err /\ Wrote(c, FALSE)
           /\ bw' = [bw EXCEPT ![b].buf = filled(b)]
           /\ UNCHANGED <<faults, taken>>
  <2>1. bw' \in [BWs -> BWType] /\ bw'[b].buf = filled(b) /\ bw'[b].err = bw[b].err
        /\ \A a \in BWs : a # b => bw'[a] = bw[a]
    BY <1>2, <1>4, <1>6 DEF BWType
  <2>2. \A a \in BWs : bw'[a].err = bw[a].err /\ (bw[a].err => bw'[a].buf = bw[a].buf)
    BY <1>6, <2>1
  <2>3. OutputType'
    BY <1>6, <2>1 DEF TypeInv, TypeOK, OutputType
  <2>4. \A a \in BWs : \A r \in ToSet(bw[a].buf) : r \in ToSet(bw'[a].buf)
    BY <1>4, <2>1
  <2>5. Grows
    BY <1>1, <1>6, <2>2, <2>4 DEF Grows, With, Cared
  <2>6. With(Rec(c), b)'
    BY <1>11, <1>4, <2>1 DEF With, Cared
  <2> QED  BY <1>1, <1>6, <2>3, <2>5, <2>6
<1>7. ASSUME NEW flag \in BOOLEAN, ~bw[b].err, Flush(b, filled(b), flag)
      PROVE  OutputType' /\ Grows /\ With(Rec(c), b)'
  BY <1>1, <1>11, <1>4, <1>7, FlushGrows
<1>8. CASE ~bw[b].err /\ FlushOk(b, filled(b), FALSE) /\ Wrote(c, FALSE)
  BY <1>1, <1>7, <1>8, FlushMeans
<1>9. CASE ~bw[b].err /\ FlushFails(b, filled(b), FALSE) /\ Wrote(c, TRUE)
  BY <1>1, <1>7, <1>9, FlushMeans
<1>10. CASE ~bw[b].err /\ FlushPanics(b, filled(b), TRUE) /\ WritePanics(c)
  BY <1>1, <1>7, <1>10, FlushMeans
<1>12. CASE ~bw[b].err /\ FlushHangs(b, filled(b)) /\ Goto(c, "hung") /\ UNCHANGED <<err, outcome>>
  BY <1>1, <1>7, <1>12, FlushMeans
<1> QED  BY <1>1, <1>5, <1>6, <1>8, <1>9, <1>10, <1>12

\* So is a Write without a batchWriter; one member after the other.
LEMMA WriteMemberEffect ==
    ASSUME TypeInv, NEW c \in Goroutines, WriteMember(c)
    PROVE  ChainType' /\ OutputType' /\ Grows
<1> DEFINE o == Members[k[c]]
<1>1. /\ pc[c] = "main" /\ UNCHANGED <<n, bw, cfg>>
      /\ \/ /\ taken' = [taken EXCEPT ![o] = Append(@, Rec(c))]
         \/ taken' = taken
      /\ faults' = faults \/ MayFail
      /\ \/ k' = [k EXCEPT ![c] = @ + 1] /\ UNCHANGED <<pc, err, outcome>>
         \/ Wrote(c, FALSE)
         \/ Wrote(c, TRUE)
         \/ WritePanics(c)
  BY DEF WriteMember, MayWrite
<1> HIDE DEF o
<1>2. ChainType'
  <2>1. CASE k' = [k EXCEPT ![c] = @ + 1] /\ UNCHANGED <<pc, err, outcome>>
    BY <1>1, <2>1, TypeParts DEF ChainType
  <2> QED  BY <1>1, <2>1, WroteType, WritePanicsType
<1>3. faults' \in 0 .. MaxFaults
  BY <1>1, MayFailType DEF TypeInv, TypeOK
<1>4. CASE UNCHANGED taken
  BY <1>1, <1>2, <1>3, <1>4, NothingBelow
<1>5. CASE taken' = [taken EXCEPT ![o] = Append(@, Rec(c))]
  <2>1. Rec(c) \in Records
    BY <1>1, RecIsRecord
  <2>2. \A p \in Outputs : taken[p] \in Seq(Records)
    BY DEF TypeInv, TypeOK
  <2>3. \A p \in Outputs : /\ Append(taken[p], Rec(c)) \in Seq(Records)
                           /\ ToSet(taken[p]) \subseteq ToSet(Append(taken[p], Rec(c)))
    BY <2>1, <2>2, AppendToSet
  <2>4. taken' \in [Outputs -> Seq(Records)] /\ \A p \in Outputs : ToSet(taken[p]) \subseteq ToSet(taken'[p])
    BY <1>5, <2>3 DEF TypeInv, TypeOK
  <2>5. OutputType'
    BY <1>1, <1>3, <2>4, TypeParts DEF OutputType
  <2>6. Grows
    BY <1>1, <2>4 DEF Grows, With, Cared
  <2> QED  BY <1>2, <2>5, <2>6
<1> QED  BY <1>1, <1>4, <1>5

\* Every step keeps the types and loses nothing.
LEMMA StepEffect == TypeInv /\ [Next]_vars => TypeInv' /\ Grows
<1> SUFFICES ASSUME TypeInv, [Next]_vars PROVE TypeInv' /\ Grows
  OBVIOUS
<1>1. /\ cfg \in Configs /\ n \in [Goroutines -> Nat] /\ \A c \in Goroutines : n[c] <= MaxRecords[c]
      /\ textMu \in Goroutines \cup {Nobody} /\ shut \subseteq {"file"} /\ stalled \subseteq Goroutines
      /\ alive \in BOOLEAN
      /\ sync \in [stage : {"idle", "workers", "main", "console", "file", "network", "done"},
                   result : {"nil", "error", "panic"}]
      /\ faults \in 0 .. MaxFaults
      /\ ChainType /\ OutputType
  BY TypeParts DEF TypeInv, TypeOK
<1>2. CASE UNCHANGED vars
  <2>1. OutputType' /\ Grows
    BY <1>1, <1>2, NothingBelow DEF vars, chainVars
  <2>2. ChainType'
    BY <1>1, <1>2 DEF ChainType, vars, chainVars
  <2> QED  BY <1>1, <1>2, <2>1, <2>2, Assemble DEF vars, chainVars
<1>3. ASSUME NEW c \in Goroutines, Begin(c) PROVE TypeInv' /\ Grows
  <2>1. OutputType' /\ Grows
    BY <1>1, <1>3, NothingBelow DEF Begin
  <2>2. n' \in [Goroutines -> Nat] /\ (\A d \in Goroutines : n'[d] <= MaxRecords[d]) /\ n'[c] # 0
    <3>1. n' = [n EXCEPT ![c] = n[c] + 1] /\ n[c] < MaxRecords[c]
      BY <1>3 DEF Begin
    <3>2. n[c] \in Nat /\ MaxRecords[c] \in Nat
      BY <1>1, BoundAssumption
    <3> QED  BY <1>1, <3>1, <3>2
  <2>3. ChainType'
    BY <1>1, <1>3, <2>2 DEF Begin, Goto, ChainType, PCs
  <2> QED  BY <1>1, <1>3, <2>1, <2>2, <2>3, Assemble DEF Begin
<1>4. ASSUME NEW c \in Goroutines, Stopped(c) PROVE TypeInv' /\ Grows
  <2>1. OutputType' /\ Grows
    BY <1>1, <1>4, NothingBelow, MayFailType DEF Stopped
  <2>2. ChainType'
    BY <1>4, EndsType DEF Stopped
  <2> QED  BY <1>1, <1>4, <2>1, <2>2, Assemble DEF Stopped
<1>5. ASSUME NEW c \in Goroutines, Before(c) PROVE TypeInv' /\ Grows
  <2>1. OutputType' /\ Grows
    BY <1>1, <1>5, NothingBelow DEF Before
  <2>2. ChainType'
    BY <1>5, GotoType DEF Before, PCs
  <2> QED  BY <1>1, <1>5, <2>1, <2>2, Assemble DEF Before
<1>6. ASSUME NEW c \in Goroutines, HookSyncs(c) PROVE TypeInv' /\ Grows
  <2>1. OutputType' /\ Grows
    BY <1>1, <1>6, NothingBelow DEF HookSyncs
  <2>2. ChainType'
    BY <1>1, <1>6 DEF HookSyncs, ChainType, PCs
  <2>3. sync' \in [stage : {"idle", "workers", "main", "console", "file", "network", "done"},
                   result : {"nil", "error", "panic"}]
    <3>1. sync' = sync \/ sync' = [sync EXCEPT !.stage = "workers"]
      BY <1>6 DEF HookSyncs
    <3> QED  BY <1>1, <3>1
  <2> QED  BY <1>1, <1>6, <2>1, <2>2, <2>3, Assemble DEF HookSyncs
<1>7. ASSUME NEW c \in Goroutines, HookSyncReturns(c) PROVE TypeInv' /\ Grows
  <2>1. OutputType' /\ Grows
    BY <1>1, <1>7, NothingBelow DEF HookSyncReturns
  <2>2. ChainType'
    BY <1>7, GotoType DEF HookSyncReturns, PCs
  <2> QED  BY <1>1, <1>7, <2>1, <2>2, Assemble DEF HookSyncReturns
<1>8. ASSUME NEW c \in Goroutines, SerialisePanics(c) PROVE TypeInv' /\ Grows
  <2>1. OutputType' /\ Grows
    BY <1>1, <1>8, NothingBelow, MayFailType DEF SerialisePanics
  <2>2. ChainType'
    BY <1>8, EndsType DEF SerialisePanics
  <2> QED  BY <1>1, <1>8, <2>1, <2>2, Assemble DEF SerialisePanics
<1>9. ASSUME NEW c \in Goroutines, WriteBatch(c) PROVE TypeInv' /\ Grows
  <2>1. PICK b \in BWs : /\ pc[c] = b /\ OutputType' /\ Grows
                         /\ \/ Wrote(c, TRUE) \/ WritePanics(c) \/ Wrote(c, FALSE)
                            \/ Goto(c, "hung") /\ UNCHANGED <<err, outcome>>
    BY <1>9, WriteBatchEffect
  <2>2. UNCHANGED <<cfg, n, textMu, shut, stalled, sync, alive>>
    BY <1>9 DEF WriteBatch
  <2>3. ChainType'
    BY <2>1, <2>2, WroteType, WritePanicsType, GotoType DEF BWs, PCs
  <2> QED  BY <1>1, <2>1, <2>2, <2>3, Assemble
<1>10. ASSUME NEW c \in Goroutines, WriteMember(c) PROVE TypeInv' /\ Grows
  <2>1. ChainType' /\ OutputType' /\ Grows
    BY <1>10, WriteMemberEffect
  <2>2. UNCHANGED <<cfg, n, shut, stalled, sync, alive>> /\ textMu' \in Goroutines \cup {Nobody}
    BY <1>10 DEF WriteMember, TextMuNext
  <2> QED  BY <1>1, <2>1, <2>2, Assemble
<1>11. ASSUME NEW c \in Goroutines, After(c) PROVE TypeInv' /\ Grows
  <2>1. OutputType' /\ Grows
    BY <1>1, <1>11, NothingBelow DEF After
  <2>2. ChainType'
    BY <1>11, EndsType DEF After
  <2> QED  BY <1>1, <1>11, <2>1, <2>2, Assemble DEF After
<1>16. ASSUME NEW c \in Goroutines, MemberStalls(c) PROVE TypeInv' /\ Grows
  <2>1. OutputType' /\ Grows
    BY <1>1, <1>16, NothingBelow, MayFailType DEF MemberStalls
  <2>2. UNCHANGED <<cfg, chainVars, shut, sync, alive, outcome>> /\ textMu' \in Goroutines \cup {Nobody}
        /\ stalled' \subseteq Goroutines
    BY <1>1, <1>16 DEF MemberStalls
  <2>3. ChainType'
    BY <1>1, <2>2 DEF ChainType, chainVars
  <2> QED  BY <1>1, <2>1, <2>2, <2>3, Assemble DEF chainVars
<1>12. ASSUME NEW b \in BWs, TimerFlush(b) PROVE TypeInv' /\ Grows
  <2>1. bw[b].buf \in Seq(Records)
    BY DEF TypeInv, TypeOK, BWs
  <2>2. OutputType' /\ Grows
    BY <1>12, <2>1, FlushGrows, FlushMeans DEF TimerFlush
  <2>3. UNCHANGED <<cfg, chainVars, textMu, shut, stalled, sync, outcome>> /\ alive' \in BOOLEAN
    BY <1>1, <1>12 DEF TimerFlush
  <2>4. ChainType'
    BY <1>1, <2>3 DEF ChainType, chainVars
  <2> QED  BY <1>1, <2>2, <2>3, <2>4, Assemble DEF chainVars
<1>13. ASSUME SyncBegin \/ SyncWaited PROVE TypeInv' /\ Grows
  <2>1. UNCHANGED <<cfg, chainVars, textMu, bw, shut, stalled, alive, faults, taken, outcome>> /\ SyncGoes(FALSE)
    BY <1>13 DEF SyncBegin, SyncWaited
  <2>2. OutputType' /\ Grows
    BY <1>1, <2>1, NothingBelow
  <2>3. ChainType'
    BY <1>1, <2>1 DEF ChainType, chainVars
  <2> QED  BY <1>1, <2>1, <2>2, <2>3, SyncGoesType, Assemble DEF chainVars
<1>14. ASSUME NEW b \in BWs, CloseBatch(b) PROVE TypeInv' /\ Grows
  <2>1. bw[b].buf \in Seq(Records) /\ bw \in [BWs -> BWType]
    BY DEF TypeInv, TypeOK, BWs, BWType
  <2>2. OutputType' /\ Grows
    <3>1. CASE bw' = [bw EXCEPT ![b].closed = TRUE] /\ UNCHANGED <<faults, taken>>
      <4>1. UNCHANGED cfg
        BY <1>14 DEF CloseBatch
      <4>2. bw' \in [BWs -> BWType] /\ \A a \in BWs : bw'[a].buf = bw[a].buf /\ bw'[a].err = bw[a].err
        BY <2>1, <3>1 DEF BWType
      <4> QED  BY <1>1, <3>1, <4>1, <4>2 DEF OutputType, Grows, With, Cared
    <3> QED  BY <1>14, <2>1, <3>1, FlushGrows, FlushMeans DEF CloseBatch
  <2>3. UNCHANGED <<cfg, chainVars, textMu, shut, stalled, alive, outcome>>
    BY <1>14 DEF CloseBatch
  <2>4. ChainType'
    BY <1>1, <2>3 DEF ChainType, chainVars
  <2>5. \/ \E failed \in BOOLEAN : SyncGoes(failed)
        \/ sync' = [stage |-> "done", result |-> "panic"]
        \/ sync' = sync
    BY <1>14 DEF CloseBatch
  <2>6. sync' \in [stage : {"idle", "workers", "main", "console", "file", "network", "done"},
                   result : {"nil", "error", "panic"}]
    BY <1>1, <2>5, SyncGoesType
  <2> QED  BY <1>1, <2>2, <2>3, <2>4, <2>6, Assemble DEF chainVars
<1>15. ASSUME CloseFile \/ CloseNetwork PROVE TypeInv' /\ Grows
  <2>1. /\ UNCHANGED <<cfg, chainVars, textMu, bw, alive, taken, outcome>>
        /\ shut' \subseteq {"file"}
        /\ stalled' \subseteq Goroutines
        /\ faults' = faults \/ MayFail
        /\ \E failed \in BOOLEAN : SyncGoes(failed)
    BY <1>1, <1>15 DEF CloseFile, CloseNetwork
  <2>2. OutputType' /\ Grows
    BY <1>1, <2>1, NothingBelow, MayFailType
  <2>3. ChainType'
    BY <1>1, <2>1 DEF ChainType, chainVars
  <2> QED  BY <1>1, <2>1, <2>2, <2>3, SyncGoesType, Assemble DEF chainVars
<1> QED
  BY <1>2, <1>3, <1>4, <1>5, <1>6, <1>7, <1>8, <1>9, <1>10, <1>11, <1>12, <1>13, <1>14, <1>15, <1>16
  DEF Next, Chain, Sync, Finished, BWs

LEMMA InitType == Init => TypeInv
<1>1. <<>> \in Seq(Records)
  OBVIOUS
<1> QED  BY <1>1, BoundAssumption DEF Init, TypeInv, TypeOK, BWs

\* TypeOK: every variable keeps its type.
THEOREM TypeCorrect == Spec => []TypeOK
<1>1. TypeInv /\ [Next]_vars => TypeInv'
  BY StepEffect
<1>2. TypeInv => TypeOK
  BY DEF TypeInv
<1> QED  BY <1>1, <1>2, InitType, PTL DEF Spec

-----------------------------------------------------------------------------
(* A record that ends without an error is kept *)

Kept(r, o) == Took(o, r) \/ \E b \in Buffer(o) : Cared(b, o, r)
NilKept == \A r \in Records, o \in Outputs : outcome[r] = "ok" /\ Reads(o) => Kept(r, o)

LEMMA OnlyConsole == TypeInv => "console" \notin ToSet(Members) /\ ToSet(Members) \subseteq Outputs
<1> SUFFICES ASSUME TypeInv PROVE "console" \notin ToSet(Members) /\ ToSet(Members) \subseteq Outputs
  OBVIOUS
<1>1. cfg.members \in Seq(Outputs \ {"console"})
  BY ConfigAssumption DEF TypeInv, TypeOK
<1> QED  BY <1>1 DEF ToSet, Members

\* The outputs that are read are those below the batchWriter in front of them.
LEMMA BufferBelow ==
    ASSUME TypeInv, NEW o \in Outputs, Reads(o), NEW b \in Buffer(o)
    PROVE  b \in BWs /\ o \in ToSet(Below(b))
<1>1. ToSet(<<"console">>) = {"console"}
  BY DEF ToSet
<1> QED  BY <1>1 DEF Buffer, Below, Reads, BWs

\* What is kept stays kept.
LEMMA KeptStays ==
    ASSUME TypeInv, Grows, NEW r, NEW o \in Outputs, Reads(o), Kept(r, o)
    PROVE  Kept(r, o)'
<1>1. Buffer(o)' = Buffer(o) /\ \A b \in BWs : Below(b)' = Below(b)
  BY DEF Grows, Buffer, Below, Members
<1>2. CASE Took(o, r)
  BY <1>2 DEF Kept, Took, Grows
<1>3. ASSUME NEW b \in Buffer(o), Cared(b, o, r) PROVE Kept(r, o)'
  <2>1. b \in BWs /\ o \in ToSet(Below(b))
    BY BufferBelow
  <2>2. r \in ToSet(bw[b].buf) => Cared(b, o, r)'
    BY <1>1, <2>1 DEF Grows, With
  <2>3. Cared(b, o, r)'
    BY <1>3, <2>1, <2>2, CaredStays DEF Grows, TypeInv
  <2> QED  BY <1>1, <2>3 DEF Kept
<1> QED  BY <1>2, <1>3 DEF Kept

\* What a record without an error has reached, by the stage of its goroutine.
StageOf(c) ==
    ~err[c] =>
        /\ pc[c] = "main" => /\ k[c] \in 1 .. Len(Members)
                             /\ cfg.async => k[c] = 1
                             /\ \A j \in 1 .. k[c] - 1 : Kept(Rec(c), Members[j])
        /\ pc[c] = "console" => \A j \in 1 .. Len(Members) : Kept(Rec(c), Members[j])
        /\ pc[c] \in {"after", "resyncing"} => \A o \in Outputs : Reads(o) => Kept(Rec(c), o)

KeptInv == TypeInv /\ NilKept /\ \A c \in Goroutines : StageOf(c)

LEMMA MemberIsRead ==
    ASSUME TypeInv, NEW j \in 1 .. Len(Members)
    PROVE  Members[j] \in Outputs /\ Reads(Members[j]) /\ Members[j] \in ToSet(Members)
<1>1. Members \in Seq(Outputs)
  BY MembersType DEF TypeInv
<1>2. Members[j] \in ToSet(Members)
  BY <1>1 DEF ToSet
<1> QED  BY <1>2, OnlyConsole DEF Reads

\* A goroutine that stays where it is keeps what it has reached.
LEMMA StageStays ==
    ASSUME TypeInv, TypeInv', Grows, NEW c \in Goroutines, StageOf(c),
           \/ pc'[c] = pc[c] /\ k'[c] = k[c]
           \/ pc[c] \in {"after", "resyncing"} /\ pc'[c] \in {"after", "resyncing"},
           err'[c] = err[c], n'[c] = n[c]
    PROVE  StageOf(c)'
<1>1. cfg' = cfg /\ Members' = Members /\ Rec(c)' = Rec(c)
  BY DEF Grows, Members, Rec
<1>2. \A o \in Outputs : Reads(o)' = Reads(o)
  BY <1>1 DEF Reads, Members
<1>3. ASSUME NEW j \in 1 .. Len(Members), Kept(Rec(c), Members[j]) PROVE Kept(Rec(c), Members[j])'
  <2> DEFINE r == Rec(c)
             o == Members[j]
  <2>1. o \in Outputs /\ Reads(o) /\ Kept(r, o)
    BY <1>3, MemberIsRead
  <2>2. r' = r /\ o' = o
    BY <1>1
  <2> HIDE DEF r, o
  <2>3. Kept(r, o)'
    BY <2>1, <2>2, KeptStays DEF Kept, Took
  <2> QED  BY <2>3 DEF r, o
<1>4. ASSUME NEW o \in Outputs, Reads(o), Kept(Rec(c), o) PROVE Kept(Rec(c), o)'
  <2> DEFINE r == Rec(c)
  <2>1. r' = r
    BY <1>1
  <2> HIDE DEF r
  <2>2. Kept(r, o) => Kept(r, o)'
    BY <1>4, <2>1, KeptStays DEF Kept, Took
  <2> QED  BY <1>4, <2>2 DEF r
<1>5. CASE pc[c] = "main"
  <2>1. \A j \in 1 .. k[c] - 1 : ~err[c] => j \in 1 .. Len(Members) /\ Kept(Rec(c), Members[j])
    BY <1>5 DEF StageOf
  <2> QED  BY <1>1, <1>3, <1>5, <2>1 DEF StageOf
<1>6. CASE pc[c] = "console"
  BY <1>1, <1>3, <1>6 DEF StageOf
<1>7. CASE pc[c] \in {"after", "resyncing"}
  BY <1>1, <1>2, <1>4, <1>7 DEF StageOf
<1> QED  BY <1>5, <1>6, <1>7 DEF StageOf

\* Nothing but After ends a record without an error.
LEMMA NilStays ==
    ASSUME TypeInv, NilKept, Grows, \A r \in Records : outcome'[r] = "ok" => outcome[r] = "ok"
    PROVE  NilKept'
<1>1. \A o \in Outputs : Reads(o)' = Reads(o)
  BY DEF Grows, Reads, Members
<1>2. \A r \in Records, o \in Outputs : outcome'[r] = "ok" /\ Reads(o)' => Kept(r, o)'
  BY <1>1, KeptStays DEF NilKept
<1> QED  BY <1>2 DEF NilKept

\* A step of goroutine c: the others stay where they are, and no record ends
\* without an error.
Moves(c) ==
    /\ \A d \in Goroutines : d # c => pc'[d] = pc[d] /\ k'[d] = k[d] /\ err'[d] = err[d] /\ n'[d] = n[d]
    /\ \A r \in Records : outcome'[r] = "ok" => outcome[r] = "ok"

LEMMA EndsMoves ==
    ASSUME TypeInv, NEW c \in Goroutines, NEW how, how # "ok", Ends(c, how), pc[c] # "idle", UNCHANGED <<n, err>>
    PROVE  Moves(c) /\ pc'[c] = "idle"
BY RecIsRecord DEF Moves, Ends, Goto, TypeInv, TypeOK

LEMMA GotoMoves ==
    ASSUME TypeInv, NEW c \in Goroutines, NEW stage, Goto(c, stage), UNCHANGED <<n, err, outcome>>
    PROVE  Moves(c) /\ pc'[c] = stage /\ k'[c] = 1
BY DEF Moves, Goto, TypeInv, TypeOK

LEMMA WroteMoves ==
    ASSUME TypeInv, NEW c \in Goroutines, NEW failed \in BOOLEAN, Wrote(c, failed), UNCHANGED n
    PROVE  /\ Moves(c)
           /\ err'[c] = (err[c] \/ failed)
           /\ pc'[c] = IF pc[c] = "main" /\ cfg.console THEN "console" ELSE "after"
<1>1. err' = [err EXCEPT ![c] = err[c] \/ failed] /\ outcome' = outcome
  BY DEF Wrote
<1>2. Goto(c, IF pc[c] = "main" /\ cfg.console THEN "console" ELSE "after")
  BY DEF Wrote
<1>3. /\ pc' = [pc EXCEPT ![c] = IF pc[c] = "main" /\ cfg.console THEN "console" ELSE "after"]
      /\ k' = [k EXCEPT ![c] = 1]
  BY <1>2 DEF Goto
<1> QED  BY <1>1, <1>3 DEF Moves, TypeInv, TypeOK

\* A handler that fails tells the record of an error, or ends it.
LEMMA FailedMoves ==
    ASSUME TypeInv, NEW c \in Goroutines, Wrote(c, TRUE) \/ WritePanics(c), pc[c] # "idle", UNCHANGED n
    PROVE  Moves(c) /\ StageOf(c)'
<1>1. CASE Wrote(c, TRUE)
  BY <1>1, WroteMoves DEF StageOf
<1>2. CASE Ends(c, "panic") /\ UNCHANGED err
  BY <1>2, EndsMoves DEF StageOf
<1> QED  BY <1>1, <1>2 DEF WritePanics

\* A Write that does not return tells nobody of the record.
LEMMA HungMoves ==
    ASSUME TypeInv, NEW c \in Goroutines, Goto(c, "hung"), UNCHANGED <<n, err, outcome>>
    PROVE  Moves(c) /\ StageOf(c)'
BY GotoMoves DEF StageOf

\* A handler that succeeds leaves the record with all its outputs.
LEMMA SucceededMoves ==
    ASSUME TypeInv, TypeInv', Grows, NEW c \in Goroutines, Wrote(c, FALSE), UNCHANGED n, pc[c] \in BWs,
           ~err[c] => \A j \in 1 .. Len(Members) : Kept(Rec(c), Members[j])',
           ~err[c] /\ pc[c] = "console" => Kept(Rec(c), "console")'
    PROVE  Moves(c) /\ StageOf(c)'
<1>1. /\ Moves(c)
      /\ err'[c] = err[c]
      /\ pc'[c] = IF pc[c] = "main" /\ cfg.console THEN "console" ELSE "after"
  <2>1. /\ Moves(c)
        /\ err'[c] = (err[c] \/ FALSE)
        /\ pc'[c] = IF pc[c] = "main" /\ cfg.console THEN "console" ELSE "after"
    BY WroteMoves
  <2>2. err[c] \in BOOLEAN
    BY DEF TypeInv, TypeOK
  <2> QED  BY <2>1, <2>2
<1>2. cfg' = cfg /\ Members' = Members /\ \A o \in Outputs : Reads(o)' = Reads(o)
  BY DEF Grows, Members, Reads
<1>3. ASSUME ~err[c], pc'[c] = "after", NEW o \in Outputs, Reads(o) PROVE Kept(Rec(c), o)'
  <2>1. CASE o = "console"
    <3>1. cfg.console
      BY <1>3, <2>1 DEF Reads
    <3> QED  BY <1>1, <1>3, <2>1, <3>1 DEF BWs
  <2>2. CASE o # "console"
    <3>1. PICK j \in 1 .. Len(Members) : Members[j] = o
      BY <1>3, <2>2, MembersType DEF Reads, ToSet, TypeInv
    <3>2. Kept(Rec(c), Members[j])'
      BY <1>3
    <3> QED  BY <1>2, <3>1, <3>2
  <2> QED  BY <2>1, <2>2
<1>4. ~err[c] => \A j \in 1 .. Len(Members)' : Kept(Rec(c), Members[j])'
  BY <1>2
<1> QED  BY <1>1, <1>2, <1>3, <1>4 DEF StageOf

\* batchWriter.Write takes care of the record for every output below it.
LEMMA WriteBatchStage ==
    ASSUME TypeInv, TypeInv', NEW c \in Goroutines, WriteBatch(c), StageOf(c)
    PROVE  Moves(c) /\ StageOf(c)'
<1>1. PICK b \in BWs :
          /\ pc[c] = b /\ InUse(b) /\ Grows
          /\ \/ Wrote(c, TRUE)
             \/ WritePanics(c)
             \/ Goto(c, "hung") /\ UNCHANGED <<err, outcome>>
             \/ Wrote(c, FALSE) /\ With(Rec(c), b)'
  BY WriteBatchEffect
<1>2. UNCHANGED n
  BY DEF WriteBatch
<1>3. CASE Wrote(c, TRUE) \/ WritePanics(c)
  BY <1>1, <1>2, <1>3, FailedMoves DEF BWs
<1>4. CASE Wrote(c, FALSE) /\ With(Rec(c), b)'
  <2>1. cfg' = cfg /\ Members' = Members /\ Below(b)' = Below(b) /\ Rec(c)' = Rec(c)
    BY <1>1, <1>2 DEF Grows, Members, Below, Rec
  <2>2. ASSUME NEW o \in ToSet(Below(b)), b \in Buffer(o) PROVE Kept(Rec(c), o)'
    <3>1. b \in Buffer(o)'
      BY <2>1, <2>2 DEF Buffer
    <3>2. Cared(b, o, Rec(c))'
      BY <1>4, <2>1, <2>2 DEF With
    <3> QED  BY <3>1, <3>2 DEF Kept
  <2>3. CASE b = "main"
    <3>1. ASSUME NEW j \in 1 .. Len(Members) PROVE Kept(Rec(c), Members[j])'
      <4>1. Members[j] \in ToSet(Below(b)) /\ b \in Buffer(Members[j])
        BY <1>1, <2>3, MemberIsRead, OnlyConsole DEF Below, Buffer, InUse
      <4>2. \A o : o = Members[j] => Kept(Rec(c), o)'
        BY <2>2, <4>1
      <4> QED  BY <2>1, <4>2
    <3> QED  BY <1>1, <1>2, <1>4, <2>3, <3>1, SucceededMoves DEF BWs
  <2>4. CASE b = "console"
    <3>1. Kept(Rec(c), "console")'
      <4>1. "console" \in ToSet(Below(b)) /\ b \in Buffer("console")
        BY <2>4 DEF Below, Buffer, ToSet
      <4> QED  BY <2>2, <4>1
    <3>2. ASSUME ~err[c], NEW j \in 1 .. Len(Members) PROVE Kept(Rec(c), Members[j])'
      <4>1. Kept(Rec(c), Members[j]) /\ Members[j] \in Outputs /\ Reads(Members[j])
        BY <1>1, <2>4, <3>2, MemberIsRead DEF StageOf
      <4>2. \A r, o : r = Rec(c) /\ o = Members[j] => Kept(r, o)'
        BY <1>1, <4>1, KeptStays
      <4> QED  BY <2>1, <4>2
    <3> QED  BY <1>1, <1>2, <1>4, <2>4, <3>1, <3>2, SucceededMoves DEF BWs
  <2> QED  BY <2>3, <2>4 DEF BWs
<1>5. CASE Goto(c, "hung") /\ UNCHANGED <<err, outcome>>
  BY <1>2, <1>5, HungMoves
<1> QED  BY <1>1, <1>3, <1>4, <1>5

\* So does Write of one member after the other.
LEMMA WriteMemberStage ==
    ASSUME TypeInv, TypeInv', NEW c \in Goroutines, WriteMember(c), StageOf(c)
    PROVE  Moves(c) /\ StageOf(c)'
<1> DEFINE o == Members[k[c]]
<1>1. /\ pc[c] = "main" /\ ~cfg.async /\ n' = n
      /\ \/ /\ taken' = [taken EXCEPT ![o] = Append(@, Rec(c))]
            /\ \/ /\ k[c] < Len(Members)
                  /\ k' = [k EXCEPT ![c] = @ + 1]
                  /\ UNCHANGED <<pc, err, outcome>>
               \/ k[c] >= Len(Members) /\ Wrote(c, FALSE)
         \/ Wrote(c, TRUE) \/ WritePanics(c)
  <2>1. k[c] \in Nat /\ Len(Members) \in Nat
    BY MembersType DEF TypeInv, TypeOK
  <2>2. ~(k[c] < Len(Members)) => k[c] >= Len(Members)
    BY <2>1
  <2>3. /\ pc[c] = "main" /\ ~cfg.async /\ n' = n
        /\ \/ /\ taken' = [taken EXCEPT ![o] = Append(@, Rec(c))]
              /\ \/ /\ k[c] < Len(Members)
                    /\ k' = [k EXCEPT ![c] = @ + 1]
                    /\ UNCHANGED <<pc, err, outcome>>
                 \/ ~(k[c] < Len(Members)) /\ Wrote(c, FALSE)
           \/ Wrote(c, TRUE) \/ WritePanics(c)
    BY DEF WriteMember, MayWrite
  <2> QED  BY <2>2, <2>3
<1>2. Grows
  BY WriteMemberEffect
<1>3. Members' = Members /\ cfg' = cfg /\ Rec(c)' = Rec(c)
  BY <1>1, <1>2 DEF Grows, Members, Rec
<1>4. CASE Wrote(c, TRUE) \/ WritePanics(c)
  BY <1>1, <1>4, FailedMoves
<1>5. CASE err[c] /\ ~(Wrote(c, TRUE) \/ WritePanics(c))
  <2>1. CASE k' = [k EXCEPT ![c] = @ + 1] /\ UNCHANGED <<pc, err, outcome>>
    BY <1>1, <1>5, <2>1 DEF StageOf, Moves, TypeInv, TypeOK
  <2>2. CASE Wrote(c, FALSE)
    BY <1>1, <1>5, <2>2, WroteMoves DEF StageOf
  <2> QED  BY <1>1, <1>5, <2>1, <2>2
<1>6. CASE ~err[c] /\ taken' = [taken EXCEPT ![o] = Append(@, Rec(c))]
  <2>1. k[c] \in 1 .. Len(Members) /\ \A j \in 1 .. k[c] - 1 : Kept(Rec(c), Members[j])
    BY <1>1, <1>6 DEF StageOf
  <2>2. o \in Outputs /\ taken[o] \in Seq(Records) /\ Rec(c) \in Records
    BY <1>1, <2>1, MemberIsRead, RecIsRecord DEF TypeInv, TypeOK
  <2>3. taken'[o] = Append(taken[o], Rec(c))
    BY <1>6, <2>2 DEF TypeInv, TypeOK
  <2>4. Rec(c) \in ToSet(taken'[o])
    BY <2>2, <2>3, AppendToSet
  <2>5. ASSUME NEW j \in 1 .. k[c] PROVE Kept(Rec(c), Members[j])'
    <3>1. CASE j = k[c]
      BY <1>3, <2>4, <3>1 DEF Kept, Took
    <3>2. CASE j # k[c]
      <4>1. j \in 1 .. k[c] - 1 /\ j \in 1 .. Len(Members)
        BY <2>1, <3>2
      <4>2. Kept(Rec(c), Members[j]) /\ Members[j] \in Outputs /\ Reads(Members[j])
        BY <2>1, <4>1, MemberIsRead
      <4>3. \A r, p : r = Rec(c) /\ p = Members[j] => Kept(r, p)'
        BY <1>2, <4>2, KeptStays
      <4> QED  BY <1>3, <4>3
    <3> QED  BY <3>1, <3>2
  <2>6. CASE k[c] < Len(Members) /\ k' = [k EXCEPT ![c] = @ + 1] /\ UNCHANGED <<pc, err, outcome>>
    <3>1. Moves(c)
      BY <1>1, <2>6 DEF Moves, TypeInv, TypeOK
    <3>2. k'[c] = k[c] + 1 /\ k'[c] \in 1 .. Len(Members) /\ k'[c] - 1 = k[c]
      <4>1. k \in [Goroutines -> Nat \ {0}] /\ k[c] < Len(Members) /\ k' = [k EXCEPT ![c] = k[c] + 1]
        BY <2>6 DEF TypeInv, TypeOK
      <4>2. k'[c] = k[c] + 1 /\ k[c] \in Nat
        BY <4>1
      <4>3. Len(Members) \in Nat
        BY MembersType DEF TypeInv
      <4> QED  BY <4>1, <4>2, <4>3
    <3>3. pc'[c] = "main" /\ ~cfg'.async
      BY <1>1, <1>3, <2>6
    <3> QED  BY <1>3, <2>5, <3>1, <3>2, <3>3 DEF StageOf
  <2>7. CASE k[c] >= Len(Members) /\ Wrote(c, FALSE)
    <3>1. k[c] = Len(Members)
      BY <2>1, <2>7
    <3> QED  BY <1>1, <1>2, <2>5, <2>7, <3>1, SucceededMoves DEF BWs
  <2> QED  BY <1>1, <1>4, <1>6, <2>6, <2>7
<1> QED  BY <1>1, <1>4, <1>5, <1>6

\* A goroutine on its way to the first handler.
LEMMA ToMain ==
    ASSUME TypeInv, NEW c \in Goroutines, Goto(c, "main"), UNCHANGED <<cfg, n, err, outcome>>
    PROVE  Moves(c) /\ StageOf(c)'
<1>1. Moves(c) /\ pc'[c] = "main" /\ k'[c] = 1
  BY GotoMoves
<1>2. Members' = Members /\ Len(Members) \in Nat \ {0}
  BY MembersType DEF Members, TypeInv
<1> QED  BY <1>1, <1>2 DEF StageOf

LEMMA ChainMoves ==
    ASSUME TypeInv, TypeInv', Grows, NEW c \in Goroutines, Chain(c), ~After(c), StageOf(c)
    PROVE  Moves(c) /\ StageOf(c)'
<1>0. TypeInv /\ TypeInv' /\ Grows /\ StageOf(c)
  OBVIOUS
<1>1. CASE Begin(c)
  <2>1. Moves(c) /\ pc'[c] = "before"
    BY <1>1 DEF Begin, Goto, Moves, TypeInv, TypeOK
  <2> QED  BY <2>1 DEF StageOf
<1>2. CASE Stopped(c)
  BY <1>2, EndsMoves DEF Stopped, StageOf
<1>3. CASE Before(c)
  BY <1>3, ToMain DEF Before
<1>4. CASE HookSyncs(c)
  <2>1. /\ Moves(c) /\ UNCHANGED <<n, err>>
        /\ pc'[c] = IF pc[c] = "before" THEN "syncing" ELSE "resyncing"
        /\ pc[c] \in {"before", "after"}
    BY <1>4 DEF HookSyncs, Moves, TypeInv, TypeOK
  <2>2. CASE pc[c] = "before"
    BY <2>1, <2>2 DEF StageOf
  <2>3. CASE pc[c] = "after"
    BY <1>0, <2>1, <2>3, StageStays
  <2> QED  BY <2>1, <2>2, <2>3
<1>5. CASE HookSyncReturns(c)
  <2>1. Goto(c, IF pc[c] = "syncing" THEN "main" ELSE "after") /\ pc[c] \in {"syncing", "resyncing"}
        /\ UNCHANGED <<cfg, n, err, outcome>>
    BY <1>5 DEF HookSyncReturns
  <2>2. CASE pc[c] = "syncing"
    BY <2>1, <2>2, ToMain
  <2>3. CASE pc[c] = "resyncing"
    <3>1. Moves(c) /\ pc'[c] = "after"
      BY <2>1, <2>3, GotoMoves
    <3> QED  BY <1>0, <2>1, <2>3, <3>1, StageStays
  <2> QED  BY <2>1, <2>2, <2>3
<1>6. CASE SerialisePanics(c)
  BY <1>6, EndsMoves DEF SerialisePanics, StageOf
<1>7. CASE WriteBatch(c)
  BY <1>7, WriteBatchStage
<1>8. CASE WriteMember(c)
  BY <1>8, WriteMemberStage
<1>9. CASE MemberStalls(c)
  <2>1. UNCHANGED <<pc, n, k, err, outcome>>
    BY <1>9 DEF MemberStalls, chainVars
  <2> QED  BY <1>0, <2>1, StageStays DEF Moves
<1> QED  BY <1>1, <1>2, <1>3, <1>4, <1>5, <1>6, <1>7, <1>8, <1>9 DEF Chain

LEMMA KeptStep == KeptInv /\ [Next]_vars => KeptInv'
<1> SUFFICES ASSUME KeptInv, [Next]_vars PROVE KeptInv'
  OBVIOUS
<1>1. TypeInv /\ TypeInv' /\ Grows /\ NilKept /\ \A c \in Goroutines : StageOf(c)
  BY StepEffect DEF KeptInv
<1>2. ASSUME UNCHANGED <<chainVars, outcome>> PROVE KeptInv'
  BY <1>1, <1>2, StageStays, NilStays DEF KeptInv, chainVars
<1>3. ASSUME NEW c \in Goroutines, Chain(c), ~After(c) PROVE KeptInv'
  <2>1. Moves(c) /\ StageOf(c)'
    BY <1>1, <1>3, ChainMoves
  <2>2. \A d \in Goroutines : StageOf(d)'
    BY <1>1, <2>1, StageStays DEF Moves
  <2>3. NilKept'
    BY <1>1, <2>1, NilStays DEF Moves
  <2> QED  BY <1>1, <2>2, <2>3 DEF KeptInv
<1>4. ASSUME NEW c \in Goroutines, After(c) PROVE KeptInv'
  <2>1. /\ pc[c] = "after" /\ Ends(c, IF err[c] THEN "error" ELSE "ok")
        /\ UNCHANGED <<cfg, n, err>>
    BY <1>4 DEF After
  <2>2. /\ \A d \in Goroutines : d # c => pc'[d] = pc[d] /\ k'[d] = k[d] /\ err'[d] = err[d] /\ n'[d] = n[d]
        /\ pc'[c] = "idle"
        /\ \A r \in Records : r # Rec(c) => outcome'[r] = outcome[r]
        /\ Rec(c) \in Records /\ outcome'[Rec(c)] = IF err[c] THEN "error" ELSE "ok"
    BY <1>1, <2>1, RecIsRecord DEF Ends, Goto, TypeInv, TypeOK
  <2>3. \A d \in Goroutines : StageOf(d)'
    <3>1. StageOf(c)'
      BY <2>2 DEF StageOf
    <3> QED  BY <1>1, <2>2, <3>1, StageStays
  <2>4. \A o \in Outputs : Reads(o)' = Reads(o)
    BY <2>1 DEF Reads, Members
  <2>5. ASSUME NEW r \in Records, NEW o \in Outputs, outcome'[r] = "ok", Reads(o) PROVE Kept(r, o)'
    <3>1. CASE r = Rec(c)
      <4>1. ~err[c]
        BY <2>2, <2>5, <3>1
      <4>2. Kept(r, o)
        BY <1>1, <2>1, <2>5, <3>1, <4>1 DEF StageOf
      <4> QED  BY <1>1, <2>5, <4>2, KeptStays
    <3>2. CASE r # Rec(c)
      <4>1. Kept(r, o)
        BY <1>1, <2>2, <2>5, <3>2 DEF NilKept
      <4> QED  BY <1>1, <2>5, <4>1, KeptStays
    <3> QED  BY <3>1, <3>2
  <2>6. NilKept'
    BY <2>4, <2>5 DEF NilKept
  <2> QED  BY <1>1, <2>3, <2>6 DEF KeptInv
<1>5. ASSUME \E b \in BWs : TimerFlush(b) PROVE UNCHANGED <<chainVars, outcome>>
  BY <1>5 DEF TimerFlush
<1>6. ASSUME Sync PROVE UNCHANGED <<chainVars, outcome>>
  BY <1>6 DEF Sync, SyncBegin, SyncWaited, CloseBatch, CloseFile, CloseNetwork
<1>7. ASSUME UNCHANGED vars PROVE UNCHANGED <<chainVars, outcome>>
  BY <1>7 DEF vars
<1> QED
  BY <1>2, <1>3, <1>4, <1>5, <1>6, <1>7 DEF Next, Finished, BWs

LEMMA InitKept == Init => KeptInv
<1> SUFFICES ASSUME Init PROVE KeptInv
  OBVIOUS
<1>1. \A c \in Goroutines : StageOf(c)
  BY DEF Init, StageOf
<1>2. NilKept
  BY DEF Init, NilKept
<1> QED  BY <1>1, <1>2, InitType DEF KeptInv

\* NilMeansKept: a record whose hooks were told of no error has reached every
\* output, or a buffer that still has it, or one that has failed.
THEOREM NilMeansKeptCorrect == Spec => []NilMeansKept
<1>1. KeptInv => NilMeansKept
  BY DEF KeptInv, NilKept, NilMeansKept, Kept, Cared, Lost
<1> QED  BY <1>1, InitKept, KeptStep, PTL DEF Spec

-----------------------------------------------------------------------------
(* What Sync returns *)

Passed(b) == \E l, j \in 1 .. 7 : l < j /\ Stages[l] = b /\ Stages[j] = sync.stage

\* As long as Sync has met no error, the batchWriters behind it are closed and
\* empty.
SyncInv ==
    sync.result = "nil" =>
        \A b \in BWs : Passed(b) /\ InUse(b) => bw[b].closed /\ bw[b].buf = <<>>

LEMMA StagesDiffer ==
    /\ Len(Stages) = 7
    /\ \A i, j \in 1 .. 7 : Stages[i] = Stages[j] => i = j
    /\ Stages[1] = "idle" /\ Stages[2] = "workers" /\ Stages[3] = "main" /\ Stages[4] = "console" /\ Stages[7] = "done"
<1>1. /\ Len(Stages) = 7
      /\ Stages[1] = "idle" /\ Stages[2] = "workers" /\ Stages[3] = "main" /\ Stages[4] = "console"
      /\ Stages[5] = "file" /\ Stages[6] = "network" /\ Stages[7] = "done"
  BY DEF Stages
<1> QED  BY <1>1

\* Sync goes past nothing but what it has closed and what is not in use.
LEMMA SyncGoesPasses ==
    ASSUME TypeInv, NEW failed \in BOOLEAN, SyncGoes(failed), cfg' = cfg
    PROVE  /\ sync'.result = "nil" => ~failed /\ sync.result = "nil"
           /\ \A b \in BWs : Passed(b)' /\ InUse(b) => Passed(b) \/ sync.stage = b
<1>1. PICK i, j \in 1 .. 7 :
          /\ i < j /\ Stages[i] = sync.stage
          /\ \A l \in i + 1 .. j - 1 : ~InUse(Stages[l])
          /\ sync' = [stage |-> Stages[j], result |-> IF failed THEN "error" ELSE sync.result]
  BY StagesDiffer DEF SyncGoes
<1>2. ASSUME NEW b \in BWs, Passed(b)', InUse(b) PROVE Passed(b) \/ sync.stage = b
  <2>1. PICK l, m \in 1 .. 7 : l < m /\ Stages[l] = b /\ Stages[m] = Stages[j]
    BY <1>1, <1>2 DEF Passed, Stages
  <2>2. m = j
    BY <2>1, StagesDiffer
  <2>3. CASE l < i
    BY <1>1, <2>1, <2>3 DEF Passed
  <2>4. CASE l = i
    BY <1>1, <2>1, <2>4
  <2>5. CASE l > i
    <3>1. l \in i + 1 .. j - 1
      BY <2>1, <2>2, <2>5
    <3> QED  BY <1>1, <1>2, <2>1, <3>1
  <2> QED  BY <2>3, <2>4, <2>5
<1> QED  BY <1>1, <1>2

\* A flush touches one batchWriter.
LEMMA FlushTouches ==
    ASSUME TypeInv, NEW a \in BWs, NEW chunk, NEW flag, Flush(a, chunk, flag), NEW b \in BWs, b # a
    PROVE  bw'[b] = bw[b]
<1>1. bw \in [BWs -> BWType]
  BY DEF TypeInv, TypeOK, BWs, BWType
<1>2. CASE FlushOk(a, chunk, flag)
  BY <1>1, <1>2 DEF FlushOk
<1>3. CASE FlushFails(a, chunk, flag)
  BY <1>1, <1>3 DEF FlushFails
<1>4. CASE Halts(a, chunk)
  BY <1>1, <1>4 DEF Halts
<1> QED  BY <1>2, <1>3, <1>4 DEF Flush

\* A batchWriter that is closed does nothing more.
LEMMA ClosedStays ==
    ASSUME TypeInv, NEW b \in BWs, bw[b].closed,
           (\E c \in Goroutines : Chain(c)) \/ (\E a \in BWs : TimerFlush(a))
    PROVE  bw'[b] = bw[b]
<1>1. ASSUME NEW c \in Goroutines, WriteBatch(c) PROVE bw'[b] = bw[b]
  <2>1. PICK a \in BWs : \/ bw' = bw
                         \/ /\ ~bw[a].closed
                            /\ bw' = [bw EXCEPT ![a].buf = Append(bw[a].buf, Rec(c))]
                         \/ ~bw[a].closed /\ \E flag \in BOOLEAN : Flush(a, Append(bw[a].buf, Rec(c)), flag)
    BY <1>1, FlushMeans DEF WriteBatch, BWs
  <2>2. CASE bw' = bw
    BY <2>2
  <2>3. CASE ~bw[a].closed /\ bw' = [bw EXCEPT ![a].buf = Append(bw[a].buf, Rec(c))]
    <3>1. a # b /\ bw \in [BWs -> BWType]
      BY <2>3 DEF TypeInv, TypeOK, BWs, BWType
    <3> QED  BY <2>3, <3>1
  <2>4. CASE ~bw[a].closed /\ \E flag \in BOOLEAN : Flush(a, Append(bw[a].buf, Rec(c)), flag)
    BY <2>4, FlushTouches
  <2> QED  BY <2>1, <2>2, <2>3, <2>4
<1>2. ASSUME NEW c \in Goroutines, Chain(c), ~WriteBatch(c) PROVE bw'[b] = bw[b]
  BY <1>2 DEF Chain, Begin, Stopped, Before, HookSyncs, HookSyncReturns, SerialisePanics, WriteMember,
                MemberStalls, After
<1>3. ASSUME NEW a \in BWs, TimerFlush(a) PROVE bw'[b] = bw[b]
  <2>1. a # b /\ Flush(a, bw[a].buf, FALSE)
    BY <1>3, FlushMeans DEF TimerFlush
  <2> QED  BY <2>1, FlushTouches
<1> QED  BY <1>1, <1>2, <1>3

\* Only Sync, or a hook that calls it, moves Sync on.
LEMMA SyncWaits ==
    ASSUME TypeInv, (\E c \in Goroutines : Chain(c)) \/ (\E a \in BWs : TimerFlush(a))
    PROVE  /\ cfg' = cfg /\ sync'.result = sync.result
           /\ \A b \in BWs : Passed(b)' => Passed(b)
<1>1. CASE sync' = sync /\ cfg' = cfg
  BY <1>1 DEF Passed
<1>2. CASE sync' = [sync EXCEPT !.stage = "workers"] /\ cfg' = cfg
  <2>1. sync'.stage = "workers" /\ sync'.result = sync.result
    BY <1>2 DEF TypeInv, TypeOK
  <2>2. ASSUME NEW b \in BWs, Passed(b)' PROVE FALSE
    <3>1. PICK l, j \in 1 .. 7 : l < j /\ Stages[l] = b /\ Stages[j] = "workers"
      BY <2>1, <2>2 DEF Passed, Stages
    <3>2. j = 2 /\ l = 1
      BY <3>1, StagesDiffer
    <3> QED  BY <3>1, <3>2, StagesDiffer DEF BWs
  <2> QED  BY <1>2, <2>1, <2>2
<1>3. ASSUME NEW c \in Goroutines, Chain(c) PROVE (sync' = sync \/ sync' = [sync EXCEPT !.stage = "workers"]) /\ cfg' = cfg
  <2>1. CASE WriteBatch(c)
    BY <2>1 DEF WriteBatch
  <2>2. CASE WriteMember(c) \/ MemberStalls(c)
    BY <2>2 DEF WriteMember, MemberStalls
  <2>3. CASE HookSyncs(c)
    BY <2>3 DEF HookSyncs
  <2>4. CASE Begin(c) \/ Stopped(c) \/ Before(c) \/ HookSyncReturns(c) \/ SerialisePanics(c) \/ After(c)
    BY <2>4 DEF Begin, Stopped, Before, HookSyncReturns, SerialisePanics, After
  <2> QED  BY <1>3, <2>1, <2>2, <2>3, <2>4 DEF Chain
<1>4. ASSUME NEW a \in BWs, TimerFlush(a) PROVE sync' = sync /\ cfg' = cfg
  BY <1>4 DEF TimerFlush
<1> QED  BY <1>1, <1>2, <1>3, <1>4

LEMMA SyncStep == TypeInv /\ SyncInv /\ [Next]_vars => SyncInv'
<1> SUFFICES ASSUME TypeInv, SyncInv, [Next]_vars PROVE SyncInv'
  OBVIOUS
<1>1. cfg' = cfg /\ \A b \in BWs : InUse(b)' = InUse(b)
  BY StepEffect DEF Grows, InUse, Members
<1>2. bw \in [BWs -> BWType]
  BY DEF TypeInv, TypeOK, BWs, BWType
<1>3. CASE (\E c \in Goroutines : Chain(c)) \/ (\E a \in BWs : TimerFlush(a))
  BY <1>1, <1>3, ClosedStays, SyncWaits DEF SyncInv
<1>4. CASE SyncBegin \/ SyncWaited \/ CloseFile \/ CloseNetwork
  <2>1. /\ bw' = bw /\ sync.stage \notin BWs
        /\ \E failed \in BOOLEAN : SyncGoes(failed)
    BY <1>4 DEF SyncBegin, SyncWaited, CloseFile, CloseNetwork, BWs
  <2> QED  BY <1>1, <2>1, SyncGoesPasses DEF SyncInv
<1>5. ASSUME NEW a \in BWs, CloseBatch(a) PROVE SyncInv'
  <2>1. sync.stage = a
    BY <1>5 DEF CloseBatch
  <2>2. CASE sync' = [stage |-> "done", result |-> "panic"]
    BY <2>2 DEF SyncInv
  <2>3. ASSUME NEW failed \in BOOLEAN, SyncGoes(failed),
               \A b \in BWs : b # a => bw'[b] = bw[b],
               sync.result = "nil" /\ ~failed => bw'[a].closed /\ bw'[a].buf = <<>>
        PROVE  SyncInv'
    BY <1>1, <2>1, <2>3, SyncGoesPasses DEF SyncInv
  <2>4. CASE bw' = [bw EXCEPT ![a].closed = TRUE] /\ SyncGoes(bw[a].buf # <<>>)
    <3>1. bw'[a].closed /\ bw'[a].buf = bw[a].buf /\ bw'[a].err = bw[a].err
      BY <1>2, <2>4 DEF BWType
    <3>2. \A b \in BWs : b # a => bw'[b] = bw[b]
      BY <1>2, <2>4
    <3>3. (bw[a].buf # <<>>) \in BOOLEAN
      OBVIOUS
    <3> QED  BY <2>3, <2>4, <3>1, <3>2, <3>3
  <2>5. CASE ~bw[a].err /\ FlushOk(a, bw[a].buf, TRUE) /\ SyncGoes(FALSE)
    <3>1. bw'[a].closed /\ bw'[a].buf = <<>> /\ bw'[a].err = bw[a].err
      BY <1>2, <2>5 DEF FlushOk, BWType
    <3>2. \A b \in BWs : b # a => bw'[b] = bw[b]
      BY <2>5, FlushTouches DEF Flush
    <3> QED  BY <2>3, <2>5, <3>1, <3>2
  <2>6. CASE FlushFails(a, bw[a].buf, TRUE) /\ SyncGoes(TRUE)
    BY <2>6, <2>3, FlushTouches DEF Flush
  <2>7. CASE FlushHangs(a, bw[a].buf) /\ sync' = sync
    <3>1. \A b \in BWs : b # a => bw'[b] = bw[b]
      BY <2>7, FlushMeans, FlushTouches
    <3>2. ~Passed(a)
      BY <2>1, StagesDiffer DEF Passed
    <3> QED  BY <1>1, <2>7, <3>1, <3>2 DEF SyncInv, Passed
  <2> QED  BY <1>5, <2>2, <2>4, <2>5, <2>6, <2>7 DEF CloseBatch
<1>6. CASE UNCHANGED vars
  BY <1>6 DEF vars, SyncInv, Passed, InUse, Members
<1> QED  BY <1>3, <1>4, <1>5, <1>6 DEF Next, Sync, Finished, BWs

LEMMA InitSync == Init => SyncInv
<1> SUFFICES ASSUME Init PROVE SyncInv
  OBVIOUS
<1>1. ASSUME NEW b \in BWs, Passed(b) PROVE FALSE
  <2>1. PICK l, j \in 1 .. 7 : l < j /\ Stages[j] = "idle"
    BY <1>1 DEF Passed, Init
  <2> QED  BY <2>1, StagesDiffer
<1> QED  BY <1>1 DEF SyncInv

LEMMA WrittenAtTheEnd == KeptInv /\ SyncInv => SyncNilMeansWritten
<1> SUFFICES ASSUME KeptInv, SyncInv, sync.stage = "done", sync.result = "nil",
                    NEW r \in Records, NEW o \in Outputs, outcome[r] = "ok", Reads(o)
             PROVE  Took(o, r) \/ \E b \in Buffer(o) : bw[b].err /\ bw[b].buf = <<>> /\ EarlierTook(b, o, r)
  BY DEF SyncNilMeansWritten
<1>1. TypeInv /\ Kept(r, o)
  BY DEF KeptInv, NilKept
<1>2. \A b \in BWs : Passed(b)
  BY StagesDiffer DEF Passed, BWs
<1>3. ASSUME NEW b \in Buffer(o) PROVE b \in BWs /\ InUse(b)
  BY <1>1, <1>3 DEF Buffer, InUse, Reads, BWs
<1>4. \A b \in Buffer(o) : bw[b].buf = <<>> /\ ToSet(bw[b].buf) = {}
  BY <1>2, <1>3, EmptyToSet DEF SyncInv
<1> QED  BY <1>1, <1>4 DEF Kept, Cared, Lost

\* SyncNilMeansWritten: after a Sync that returns nil without a panic every
\* record that ended without an error is on every output.
THEOREM SyncNilCorrect == Spec => []SyncNilMeansWritten
<1>1. KeptInv /\ SyncInv /\ [Next]_vars => (KeptInv /\ SyncInv)'
  BY KeptStep, SyncStep DEF KeptInv
<1>2. Init => KeptInv /\ SyncInv
  BY InitKept, InitSync
<1> QED  BY <1>1, <1>2, WrittenAtTheEnd, PTL DEF Spec

-----------------------------------------------------------------------------
(* Nothing fails by itself *)

\* What is closed is closed by Sync, which has awaited the workers by then.
Begun   == sync.stage \notin {"idle", "workers"}
Closing ==
    /\ \A b \in BWs : bw[b].closed => Begun
    /\ shut # {} => sync.stage \in {"network", "done"}
    /\ Begun /\ cfg.async => \A w \in Workers : pc[w] = "idle"

\* A goroutine that may find the outputs closed.
Late(c) == sync.stage # "idle" /\ ~(cfg.async /\ c \in Workers)

Tells == /\ \A c \in Goroutines : pc[c] # "idle" /\ err[c] => Late(c)
         /\ \A r \in Records : outcome[r] = "error" => Late(r[1])

FineInv ==
    faults = 0 =>
        /\ sync.result = "nil"
        /\ \A b \in BWs : ~bw[b].err
        /\ cfg.async /\ shut # {} => bw["main"].closed
        /\ Tells

\* Sync goes on, and never back.
LEMMA SyncGoesOn ==
    ASSUME TypeInv, NEW failed \in BOOLEAN, SyncGoes(failed)
    PROVE  /\ sync'.stage # "idle"
           /\ sync.stage # "idle" => sync'.stage # "workers"
           /\ sync.stage = "file" => sync'.stage \in {"network", "done"}
           /\ sync.stage = "network" => sync'.stage = "done"
           /\ sync.stage = "idle" => sync'.stage = "workers"
           /\ sync.stage # "done"
<1>1. PICK i, j \in 1 .. 7 :
          /\ i < j /\ Stages[i] = sync.stage
          /\ \A l \in i + 1 .. j - 1 : ~InUse(Stages[l])
          /\ sync'.stage = Stages[j]
  BY StagesDiffer DEF SyncGoes
<1>2. /\ Stages[1] = "idle" /\ Stages[2] = "workers" /\ Stages[3] = "main" /\ Stages[4] = "console"
      /\ Stages[5] = "file" /\ Stages[6] = "network" /\ Stages[7] = "done"
  BY DEF Stages
<1>3. InUse("workers")
  BY DEF InUse
<1>4. CASE i = 1
  <2>1. j = 2
    <3>1. SUFFICES ASSUME j # 2 PROVE FALSE
      OBVIOUS
    <3>2. 2 \in i + 1 .. j - 1
      BY <1>1, <1>4, <3>1
    <3> QED  BY <1>1, <1>2, <1>3, <3>2
  <2> QED  BY <1>1, <1>2, <1>4, <2>1
<1>5. CASE i # 1
  <2>1. i \in 2 .. 6 /\ j \in 3 .. 7
    BY <1>1, <1>5
  <2>2. sync.stage # "idle" /\ sync'.stage # "idle" /\ sync'.stage # "workers" /\ sync.stage # "done"
    BY <1>1, <1>2, <2>1, StagesDiffer
  <2>3. CASE i = 5
    BY <1>1, <1>2, <2>1, <2>2, <2>3
  <2>4. CASE i = 6
    BY <1>1, <1>2, <2>1, <2>2, <2>4
  <2>5. i # 5 => sync.stage # "file"
    BY <1>1, <1>2, StagesDiffer
  <2>6. i # 6 => sync.stage # "network"
    BY <1>1, <1>2, StagesDiffer
  <2> QED  BY <2>2, <2>3, <2>4, <2>5, <2>6
<1> QED  BY <1>4, <1>5

\* Only TimerFlush, WriteBatch and CloseBatch touch a batchWriter, and only
\* the last one closes one.
LEMMA FlushCloses ==
    ASSUME TypeInv, NEW b \in BWs, NEW chunk, NEW flag, Flush(b, chunk, flag), NEW a \in BWs, bw'[a].closed
    PROVE  bw[a].closed \/ flag
<1>1. bw \in [BWs -> BWType]
  BY DEF TypeInv, TypeOK, BWs, BWType
<1>2. CASE FlushOk(b, chunk, flag)
  BY <1>1, <1>2 DEF FlushOk
<1>3. CASE FlushFails(b, chunk, flag)
  BY <1>1, <1>3 DEF FlushFails
<1>4. CASE Halts(b, chunk)
  BY <1>1, <1>4 DEF Halts, BWType
<1> QED  BY <1>2, <1>3, <1>4 DEF Flush

LEMMA ClosingStep == TypeInv /\ Closing /\ [Next]_vars => Closing'
<1> SUFFICES ASSUME TypeInv, Closing, [Next]_vars PROVE Closing'
  OBVIOUS
<1>1. bw \in [BWs -> BWType] /\ pc \in [Goroutines -> PCs] /\ Workers \subseteq Goroutines
      /\ sync \in [stage : {"idle", "workers", "main", "console", "file", "network", "done"},
                   result : {"nil", "error", "panic"}]
  BY TypeParts DEF TypeInv, TypeOK, BWs, BWType, ChainType, Goroutines
<1>2. ASSUME NEW c \in Goroutines, UNCHANGED <<cfg, shut>>,
             \A d \in Goroutines : d # c => pc'[d] = pc[d],
             sync' = sync \/ (sync.stage = "idle" /\ sync'.stage = "workers"),
             \A b \in BWs : bw'[b].closed => bw[b].closed,
             pc[c] # "idle" \/ (cfg.async /\ c \in Workers => ~Begun)
      PROVE  Closing'
  <2>1. Begun' => Begun
    BY <1>2 DEF Begun
  <2>2. Begun => sync' = sync
    BY <1>2 DEF Begun
  <2>3. ASSUME Begun', cfg.async, NEW w \in Workers PROVE pc'[w] = "idle"
    <3>1. pc[w] = "idle" /\ Begun
      BY <2>1, <2>3 DEF Closing
    <3>2. w # c
      BY <1>2, <2>3, <3>1
    <3> QED  BY <1>1, <1>2, <3>1, <3>2
  <2>4. shut # {} => Begun
    BY DEF Closing, Begun
  <2> QED  BY <1>2, <2>1, <2>2, <2>3, <2>4 DEF Closing, Begun
<1>3. ASSUME UNCHANGED <<cfg, shut, pc, sync>>, \A b \in BWs : bw'[b].closed => bw[b].closed PROVE Closing'
  BY <1>3 DEF Closing, Begun
<1>4. ASSUME NEW c \in Goroutines, WriteBatch(c) PROVE \A b \in BWs : bw'[b].closed => bw[b].closed
  <2>1. PICK a \in BWs : \/ bw' = bw
                         \/ bw' = [bw EXCEPT ![a].buf = Append(bw[a].buf, Rec(c))]
                         \/ Flush(a, Append(bw[a].buf, Rec(c)), FALSE)
    BY <1>4, FlushMeans DEF WriteBatch, BWs
  <2>3. CASE bw' = [bw EXCEPT ![a].buf = Append(bw[a].buf, Rec(c))]
    BY <1>1, <2>3 DEF BWType
  <2> QED  BY <2>1, <2>3, FlushCloses
<1>5. ASSUME NEW c \in Goroutines, Begin(c) PROVE Closing'
  BY <1>1, <1>2, <1>5 DEF Begin, Goto, Begun
<1>6. ASSUME NEW c \in Goroutines, HookSyncs(c) PROVE Closing'
  BY <1>1, <1>2, <1>6 DEF HookSyncs
<1>7. ASSUME NEW c \in Goroutines, Stopped(c) \/ Before(c) \/ HookSyncReturns(c) \/ SerialisePanics(c) \/ After(c)
      PROVE  Closing'
  BY <1>1, <1>2, <1>7 DEF Stopped, Before, HookSyncReturns, SerialisePanics, After, Ends, Goto
<1>8. ASSUME NEW c \in Goroutines, WriteBatch(c) \/ WriteMember(c) PROVE Closing'
  <2>1. pc[c] # "idle" /\ UNCHANGED <<cfg, n, shut, sync>>
    BY <1>8 DEF WriteBatch, WriteMember, MayWrite, BWs
  <2>2. \A d \in Goroutines : d # c => pc'[d] = pc[d]
    <3>1. \/ UNCHANGED pc
          \/ \E failed \in BOOLEAN : Wrote(c, failed)
          \/ WritePanics(c)
          \/ Goto(c, "hung")
      BY <1>8 DEF WriteBatch, WriteMember
    <3> QED  BY <1>1, <3>1 DEF WritePanics, Wrote, Ends, Goto
  <2>3. \A b \in BWs : bw'[b].closed => bw[b].closed
    BY <1>4, <1>8 DEF WriteMember
  <2> QED  BY <1>2, <2>1, <2>2, <2>3
<1>9. ASSUME NEW b \in BWs, TimerFlush(b) PROVE Closing'
  <2>1. Flush(b, bw[b].buf, FALSE) /\ UNCHANGED <<cfg, shut, pc, sync>>
    BY <1>9, FlushMeans DEF TimerFlush, chainVars
  <2> QED  BY <1>3, <2>1, FlushCloses
<1>10. ASSUME SyncBegin \/ SyncWaited PROVE Closing'
  <2>1. UNCHANGED <<cfg, pc, bw, shut>> /\ SyncGoes(FALSE) /\ ~Begun
    BY <1>10 DEF SyncBegin, SyncWaited, Begun, chainVars
  <2>2. shut = {} /\ \A b \in BWs : ~bw[b].closed
    BY <2>1 DEF Closing, Begun
  <2>3. CASE SyncBegin
    <3>1. sync'.stage = "workers"
      BY <2>1, <2>3, SyncGoesOn DEF SyncBegin
    <3> QED  BY <2>1, <2>2, <3>1 DEF Closing, Begun
  <2>4. CASE SyncWaited
    BY <2>1, <2>2, <2>4 DEF SyncWaited, Closing, Begun
  <2> QED  BY <1>10, <2>3, <2>4
<1>14. ASSUME NEW c \in Goroutines, MemberStalls(c) PROVE Closing'
  BY <1>3, <1>14 DEF MemberStalls, chainVars
<1>11. ASSUME NEW b \in BWs, CloseBatch(b) PROVE Closing'
  <2>1. UNCHANGED <<cfg, pc, shut>> /\ sync.stage = b
    BY <1>11 DEF CloseBatch, chainVars
  <2>2. Begun /\ shut = {}
    BY <2>1 DEF Closing, Begun, BWs
  <2>3. (\E failed \in BOOLEAN : SyncGoes(failed)) \/ sync' = [stage |-> "done", result |-> "panic"]
        \/ sync' = sync
    BY <1>11 DEF CloseBatch
  <2>4. Begun'
    BY <2>1, <2>2, <2>3, SyncGoesOn DEF Begun, BWs
  <2> QED  BY <2>1, <2>2, <2>4 DEF Closing, Begun
<1>12. ASSUME CloseFile \/ CloseNetwork PROVE Closing'
  <2>1. UNCHANGED <<cfg, pc, bw>> /\ Begun /\ \E failed \in BOOLEAN : SyncGoes(failed)
    BY <1>12 DEF CloseFile, CloseNetwork, chainVars, Begun
  <2>2. sync'.stage \in {"network", "done"}
    BY <1>12, <2>1, SyncGoesOn DEF CloseFile, CloseNetwork
  <2> QED  BY <2>1, <2>2 DEF Closing, Begun
<1>13. CASE UNCHANGED vars
  BY <1>3, <1>13 DEF vars, chainVars
<1> QED
  BY <1>5, <1>6, <1>7, <1>8, <1>9, <1>10, <1>11, <1>12, <1>13, <1>14 DEF Next, Chain, Sync, Finished, BWs

\* Without a fault a flush succeeds: of the outputs only the file refuses a
\* Write, and Sync closes it after the batchWriter in front of it.
LEMMA FlushSucceeds ==
    ASSUME TypeInv, NEW b \in BWs, NEW chunk, NEW flag, faults' = 0,
           shut = {} \/ (InUse(b) /\ ~bw[b].closed /\ (cfg.async /\ shut # {} => bw["main"].closed))
    PROVE  ~FlushFails(b, chunk, flag) /\ ~Halts(b, chunk)
<1>1. ~MayFail /\ shut \subseteq {"file"}
  BY DEF MayFail, TypeInv, TypeOK
<1>2. ASSUME NEW i \in 1 .. Len(Below(b)) PROVE Below(b)[i] \notin shut
  <2>1. CASE b = "main"
    BY <2>1 DEF InUse
  <2>2. CASE b = "console"
    <3>1. Below(b)[i] = "console"
      BY <2>2 DEF Below
    <3> QED  BY <1>1, <3>1
  <2> QED  BY <2>1, <2>2 DEF BWs
<1>3. ~FlushFails(b, chunk, flag)
  BY <1>1, <1>2, Zenon DEF FlushFails
<1>4. ~Halts(b, chunk)
  BY <1>1, Zenon DEF Halts
<1> QED  BY <1>3, <1>4

LEMMA FlushOkEffect ==
    ASSUME TypeInv, NEW b \in BWs, NEW chunk, NEW flag, FlushOk(b, chunk, flag)
    PROVE  /\ \A a \in BWs : bw'[a].err = bw[a].err
           /\ faults' = faults
BY DEF FlushOk, TypeInv, TypeOK, BWs

LEMMA LateStays ==
    ASSUME TypeInv, [Next]_vars, NEW c, Late(c)
    PROVE  Late(c)'
<1>1. cfg' = cfg
  BY StepEffect DEF Grows
<1>2. ASSUME sync.stage # "idle" PROVE sync'.stage # "idle"
  <2>1. CASE (\E d \in Goroutines : Chain(d)) \/ (\E a \in BWs : TimerFlush(a)) \/ UNCHANGED vars
    <3>1. ASSUME NEW d \in Goroutines, Chain(d) PROVE sync' = sync
      <4>1. CASE WriteBatch(d)
        BY <4>1 DEF WriteBatch
      <4>2. CASE WriteMember(d) \/ MemberStalls(d)
        BY <4>2 DEF WriteMember, MemberStalls
      <4>3. CASE HookSyncs(d)
        BY <1>2, <4>3 DEF HookSyncs
      <4>4. CASE Begin(d) \/ Stopped(d) \/ Before(d) \/ HookSyncReturns(d) \/ SerialisePanics(d) \/ After(d)
        BY <4>4 DEF Begin, Stopped, Before, HookSyncReturns, SerialisePanics, After
      <4> QED  BY <3>1, <4>1, <4>2, <4>3, <4>4 DEF Chain
    <3>2. ASSUME NEW a \in BWs, TimerFlush(a) PROVE sync' = sync
      BY <3>2 DEF TimerFlush
    <3>3. UNCHANGED vars => sync' = sync
      BY DEF vars
    <3> QED  BY <1>2, <2>1, <3>1, <3>2, <3>3
  <2>2. CASE Sync
    <3>1. (\E failed \in BOOLEAN : SyncGoes(failed)) \/ sync' = [stage |-> "done", result |-> "panic"] \/ sync' = sync
      BY <2>2 DEF Sync, SyncBegin, SyncWaited, CloseBatch, CloseFile, CloseNetwork
    <3> QED  BY <1>2, <3>1, SyncGoesOn
  <2> QED  BY <2>1, <2>2 DEF Next, Finished, BWs
<1> QED  BY <1>1, <1>2 DEF Late

\* The ways a step of goroutine c can go.
LEMMA WroteTells ==
    ASSUME TypeInv, Tells, \A d \in Goroutines : Late(d) => Late(d)',
           NEW c \in Goroutines, NEW failed \in BOOLEAN, Wrote(c, failed), pc[c] # "idle", failed => Late(c),
           \A r \in Records : r[1] \in Goroutines
    PROVE  Tells'
<1>1. err' = [err EXCEPT ![c] = err[c] \/ failed] /\ outcome' = outcome /\ err \in [Goroutines -> BOOLEAN]
  BY DEF Wrote, TypeInv, TypeOK
<1>2. PICK stage \in {"console", "after"} : pc' = [pc EXCEPT ![c] = stage]
  BY DEF Wrote, Goto
<1>3. pc \in [Goroutines -> PCs]
  BY TypeParts DEF ChainType
<1>4. ASSUME NEW d \in Goroutines, pc'[d] # "idle", err'[d] PROVE Late(d)
  <2>1. CASE d = c
    BY <1>1, <1>4, <2>1 DEF Tells
  <2>2. CASE d # c
    BY <1>1, <1>2, <1>3, <1>4, <2>2 DEF Tells
  <2> QED  BY <2>1, <2>2
<1> QED  BY <1>1, <1>4 DEF Tells

LEMMA EndsTells ==
    ASSUME TypeInv, Tells, \A d \in Goroutines : Late(d) => Late(d)',
           NEW c \in Goroutines, NEW how, Ends(c, how), pc[c] # "idle", how = "error" => Late(c), UNCHANGED <<n, err>>,
           \A r \in Records : r[1] \in Goroutines
    PROVE  Tells'
<1>1. Rec(c) \in Records /\ Rec(c)[1] = c
  BY RecIsRecord DEF Rec
<1>2. outcome' = [outcome EXCEPT ![Rec(c)] = how] /\ pc' = [pc EXCEPT ![c] = "idle"] /\ err' = err
  BY DEF Ends, Goto
<1>3. pc \in [Goroutines -> PCs] /\ DOMAIN outcome = Records
  BY TypeParts DEF ChainType
<1>4. \A d \in Goroutines : pc'[d] # "idle" /\ err'[d] => Late(d)
  BY <1>2, <1>3 DEF Tells
<1>5. ASSUME NEW r \in Records, outcome'[r] = "error" PROVE Late(r[1])
  <2>1. CASE r = Rec(c)
    BY <1>1, <1>2, <1>3, <1>5, <2>1
  <2>2. CASE r # Rec(c)
    BY <1>2, <1>3, <1>5, <2>2 DEF Tells
  <2> QED  BY <2>1, <2>2
<1> QED  BY <1>4, <1>5 DEF Tells

\* Any other step: who is in the chain with an error was so before.
LEMMA StillTells ==
    ASSUME Tells, \A d \in Goroutines : Late(d) => Late(d)', outcome' = outcome,
           \A d \in Goroutines : pc'[d] # "idle" /\ err'[d] => pc[d] # "idle" /\ err[d],
           \A r \in Records : r[1] \in Goroutines
    PROVE  Tells'
BY DEF Tells

LEMMA ChainFine ==
    ASSUME TypeInv, Closing, FineInv, faults = 0, faults' = 0, NEW c \in Goroutines, Chain(c),
           \A d \in Goroutines : Late(d) => Late(d)'
    PROVE  Tells' /\ \A b \in BWs : ~bw'[b].err
<1>1. \A r \in Records : r[1] \in Goroutines
  BY DEF Records
<1>2. /\ Tells /\ ~MayFail /\ \A b \in BWs : ~bw[b].err
      /\ pc \in [Goroutines -> PCs] /\ err \in [Goroutines -> BOOLEAN]
  BY TypeParts DEF FineInv, MayFail, ChainType
<1>3. ASSUME pc[c] # "idle", Begun PROVE Late(c)
  BY <1>3 DEF Closing, Begun, Late
<1>4. CASE Begin(c)
  <2>1. Tells'
    BY <1>1, <1>2, <1>4, StillTells DEF Begin, Goto
  <2> QED  BY <1>2, <1>4, <2>1 DEF Begin
<1>5. CASE Stopped(c)
  BY <1>1, <1>2, <1>5, EndsTells DEF Stopped
<1>6. CASE Before(c) \/ HookSyncs(c) \/ HookSyncReturns(c)
  <2>1. UNCHANGED <<err, outcome, bw>> /\ \A d \in Goroutines : pc'[d] # "idle" => pc[d] # "idle"
    BY <1>2, <1>6 DEF Before, HookSyncs, HookSyncReturns, Goto
  <2> QED  BY <1>1, <1>2, <2>1, StillTells
<1>7. CASE SerialisePanics(c)
  BY <1>2, <1>7 DEF SerialisePanics
<1>8. CASE WriteBatch(c)
  <2>1. PICK b \in BWs :
          /\ pc[c] = b /\ InUse(b)
          /\ \/ (bw[b].closed \/ bw[b].err) /\ Wrote(c, TRUE) /\ bw' = bw
             \/ Wrote(c, FALSE) /\ bw' = [bw EXCEPT ![b].buf = Append(bw[b].buf, Rec(c))]
             \/ FlushOk(b, Append(bw[b].buf, Rec(c)), FALSE) /\ Wrote(c, FALSE)
             \/ ~bw[b].closed /\ FlushFails(b, Append(bw[b].buf, Rec(c)), FALSE)
             \/ ~bw[b].closed /\ Halts(b, Append(bw[b].buf, Rec(c)))
    BY <1>8, HaltsMeans DEF WriteBatch, BWs
  <2>2. pc[c] # "idle"
    BY <2>1 DEF BWs
  <2>3. CASE (bw[b].closed \/ bw[b].err) /\ Wrote(c, TRUE) /\ bw' = bw
    <3>1. Late(c)
      BY <1>2, <1>3, <2>2, <2>3 DEF Closing
    <3> QED  BY <1>1, <1>2, <2>2, <2>3, <3>1, WroteTells
  <2>4. CASE Wrote(c, FALSE) /\ bw' = [bw EXCEPT ![b].buf = Append(bw[b].buf, Rec(c))]
    <3>1. \A a \in BWs : ~bw'[a].err
      BY <1>2, <2>4 DEF TypeInv, TypeOK, BWs
    <3> QED  BY <1>1, <1>2, <2>2, <2>4, <3>1, WroteTells
  <2>5. CASE FlushOk(b, Append(bw[b].buf, Rec(c)), FALSE) /\ Wrote(c, FALSE)
    BY <1>1, <1>2, <2>2, <2>5, FlushOkEffect, WroteTells
  <2>6. ~bw[b].closed => ~FlushFails(b, Append(bw[b].buf, Rec(c)), FALSE) /\ ~Halts(b, Append(bw[b].buf, Rec(c)))
    BY <2>1, FlushSucceeds DEF FineInv
  <2> QED  BY <2>1, <2>3, <2>4, <2>5, <2>6
<1>9. CASE WriteMember(c)
  <2>1. /\ pc[c] = "main" /\ ~cfg.async /\ bw' = bw
        /\ \/ UNCHANGED <<pc, err, outcome>>
           \/ Wrote(c, FALSE)
           \/ shut # {} /\ Wrote(c, TRUE)
    BY <1>2, <1>9 DEF WriteMember, MayWrite
  <2>2. shut # {} => Late(c)
    BY <1>3, <2>1 DEF Closing, Begun
  <2>3. CASE UNCHANGED <<pc, err, outcome>>
    BY <1>1, <1>2, <2>1, <2>3, StillTells
  <2> QED  BY <1>1, <1>2, <2>1, <2>2, <2>3, WroteTells
<1>10. CASE After(c)
  <2>1. pc[c] = "after" /\ Ends(c, IF err[c] THEN "error" ELSE "ok") /\ UNCHANGED <<n, err, bw>>
    BY <1>10 DEF After
  <2>2. err[c] => Late(c)
    BY <1>2, <2>1 DEF Tells
  <2> QED  BY <1>1, <1>2, <2>1, <2>2, EndsTells
<1>11. CASE MemberStalls(c)
  BY <1>2, <1>11 DEF MemberStalls
<1> QED  BY <1>4, <1>5, <1>6, <1>7, <1>8, <1>9, <1>10, <1>11 DEF Chain

\* A step counts the faults it meets.
LEMMA FaultsCounted ==
    ASSUME TypeInv, [Next]_vars, faults' = 0
    PROVE  faults = 0
<1>1. faults \in Nat
  BY BoundAssumption DEF TypeInv, TypeOK
<1>2. ~MayFail
  BY <1>1 DEF MayFail
<1>3. ASSUME NEW b \in BWs, NEW chunk, NEW flag, Flush(b, chunk, flag) PROVE faults = 0
  <2>1. CASE FlushOk(b, chunk, flag)
    BY <2>1 DEF FlushOk
  <2>2. CASE FlushFails(b, chunk, flag)
    BY <1>2, <2>2, Zenon DEF FlushFails
  <2>3. CASE Halts(b, chunk)
    BY <1>2, <2>3, Zenon DEF Halts
  <2> QED  BY <1>3, <2>1, <2>2, <2>3 DEF Flush
<1>4. ASSUME NEW c \in Goroutines, Chain(c) PROVE faults = 0
  <2>1. CASE WriteBatch(c)
    BY <1>3, <2>1, FlushMeans DEF WriteBatch, BWs
  <2>2. CASE WriteMember(c) \/ MemberStalls(c)
    BY <1>2, <2>2 DEF WriteMember, MemberStalls
  <2>3. CASE Begin(c) \/ Stopped(c) \/ Before(c) \/ HookSyncs(c) \/ HookSyncReturns(c) \/ SerialisePanics(c) \/ After(c)
    BY <1>2, <2>3 DEF Begin, Stopped, Before, HookSyncs, HookSyncReturns, SerialisePanics, After
  <2> QED  BY <1>4, <2>1, <2>2, <2>3 DEF Chain
<1>5. ASSUME NEW b \in BWs, TimerFlush(b) PROVE faults = 0
  BY <1>3, <1>5, FlushMeans DEF TimerFlush
<1>6. ASSUME NEW b \in BWs, CloseBatch(b) PROVE faults = 0
  BY <1>3, <1>6, FlushMeans DEF CloseBatch
<1>7. ASSUME SyncBegin \/ SyncWaited \/ CloseFile \/ CloseNetwork PROVE faults = 0
  BY <1>2, <1>7 DEF SyncBegin, SyncWaited, CloseFile, CloseNetwork
<1> QED  BY <1>4, <1>5, <1>6, <1>7 DEF Next, Sync, Finished, BWs, vars

LEMMA ShutStays ==
    ASSUME (\E c \in Goroutines : Chain(c)) \/ (\E b \in BWs : TimerFlush(b))
    PROVE  shut' = shut
<1>1. ASSUME NEW c \in Goroutines, Chain(c) PROVE shut' = shut
  <2>1. CASE WriteBatch(c)
    BY <2>1 DEF WriteBatch
  <2>2. CASE WriteMember(c) \/ MemberStalls(c)
    BY <2>2 DEF WriteMember, MemberStalls
  <2>3. CASE Begin(c) \/ Stopped(c) \/ Before(c) \/ HookSyncs(c) \/ HookSyncReturns(c) \/ SerialisePanics(c) \/ After(c)
    BY <2>3 DEF Begin, Stopped, Before, HookSyncs, HookSyncReturns, SerialisePanics, After
  <2> QED  BY <1>1, <2>1, <2>2, <2>3 DEF Chain
<1>2. ASSUME NEW b \in BWs, TimerFlush(b) PROVE shut' = shut
  BY <1>2 DEF TimerFlush
<1> QED  BY <1>1, <1>2

LEMMA FineStep == TypeInv /\ Closing /\ SyncInv /\ FineInv /\ [Next]_vars => FineInv'
<1> SUFFICES ASSUME TypeInv, Closing, SyncInv, FineInv, [Next]_vars, faults' = 0
             PROVE  /\ sync'.result = "nil"
                    /\ \A b \in BWs : ~bw'[b].err
                    /\ cfg'.async /\ shut' # {} => bw'["main"].closed
                    /\ Tells'
  BY DEF FineInv
<1>1. /\ faults = 0 /\ ~MayFail /\ cfg' = cfg
      /\ \A d \in Goroutines : Late(d) => Late(d)'
      /\ \A r \in Records : r[1] \in Goroutines
  BY FaultsCounted, LateStays, StepEffect DEF MayFail, Grows, Records
<1>2. /\ sync.result = "nil" /\ (\A b \in BWs : ~bw[b].err) /\ Tells
      /\ cfg.async /\ shut # {} => bw["main"].closed
      /\ "main" \in BWs
  BY <1>1 DEF FineInv, BWs
<1>3. CASE (\E c \in Goroutines : Chain(c)) \/ (\E b \in BWs : TimerFlush(b))
  <2>1. sync'.result = "nil"
    BY <1>2, <1>3, SyncWaits
  <2>2. shut' = shut
    BY <1>3, ShutStays
  <2>3. cfg'.async /\ shut' # {} => bw'["main"].closed
    BY <1>1, <1>2, <1>3, <2>2, ClosedStays
  <2>4. ASSUME NEW b \in BWs, TimerFlush(b) PROVE Tells' /\ \A a \in BWs : ~bw'[a].err
    <3>1. ~FlushFails(b, bw[b].buf, FALSE) /\ ~FlushPanics(b, bw[b].buf, FALSE) /\ ~FlushHangs(b, bw[b].buf)
      BY <1>2, <2>4, FlushSucceeds, HaltsMeans DEF TimerFlush
    <3>2. FlushOk(b, bw[b].buf, FALSE) /\ UNCHANGED <<chainVars, outcome>>
      BY <2>4, <3>1 DEF TimerFlush
    <3> QED  BY <1>1, <1>2, <3>2, FlushOkEffect, StillTells DEF chainVars
  <2> QED  BY <1>1, <1>3, <2>1, <2>3, <2>4, ChainFine
<1>4. CASE SyncBegin \/ SyncWaited \/ CloseNetwork
  <2>1. UNCHANGED <<cfg, chainVars, bw, shut, outcome>> /\ SyncGoes(FALSE)
    BY <1>1, <1>4 DEF SyncBegin, SyncWaited, CloseNetwork
  <2> QED  BY <1>1, <1>2, <2>1, StillTells DEF chainVars, SyncGoes
<1>5. CASE CloseFile
  <2>1. UNCHANGED <<cfg, chainVars, bw, outcome>> /\ SyncGoes(FALSE) /\ sync.stage = "file"
    BY <1>1, <1>5 DEF CloseFile
  <2>2. Stages[3] = "main" /\ Stages[5] = "file"
    BY DEF Stages
  <2>3. Passed("main")
    BY <2>1, <2>2 DEF Passed
  <2>4. cfg.async => bw["main"].closed
    BY <1>2, <2>3 DEF SyncInv, InUse
  <2> QED  BY <1>1, <1>2, <2>1, <2>4, StillTells DEF chainVars, SyncGoes
<1>6. ASSUME NEW b \in BWs, CloseBatch(b)
      PROVE  /\ sync'.result = "nil"
             /\ \A a \in BWs : ~bw'[a].err
             /\ cfg'.async /\ shut' # {} => bw'["main"].closed
             /\ Tells'
  <2>1. UNCHANGED <<chainVars, outcome, shut>> /\ sync.stage = b
    BY <1>6 DEF CloseBatch
  <2>2. shut = {}
    BY <2>1 DEF Closing, BWs
  <2>3. Tells'
    BY <1>1, <1>2, <2>1, StillTells DEF chainVars
  <2>4. CASE bw' = [bw EXCEPT ![b].closed = TRUE] /\ (bw[b].buf = <<>> \/ bw[b].err) /\ SyncGoes(bw[b].buf # <<>>)
    <3>1. \A a \in BWs : ~bw'[a].err
      BY <1>2, <2>4 DEF TypeInv, TypeOK, BWs
    <3>2. bw[b].buf = <<>>
      BY <1>2, <2>4
    <3> QED  BY <1>2, <2>1, <2>2, <2>3, <2>4, <3>1, <3>2 DEF SyncGoes
  <2>5. CASE FlushFails(b, bw[b].buf, TRUE) \/ FlushPanics(b, bw[b].buf, FALSE) \/ FlushHangs(b, bw[b].buf)
    BY <1>1, <2>2, <2>5, FlushSucceeds, HaltsMeans
  <2>6. CASE FlushOk(b, bw[b].buf, TRUE) /\ SyncGoes(FALSE)
    <3>1. sync'.result = "nil"
      BY <1>2, <2>6 DEF SyncGoes
    <3>2. \A a \in BWs : ~bw'[a].err
      BY <1>2, <2>6, FlushOkEffect
    <3> QED  BY <2>1, <2>2, <2>3, <3>1, <3>2
  <2> QED  BY <1>6, <2>4, <2>5, <2>6 DEF CloseBatch
<1>7. CASE UNCHANGED vars
  BY <1>1, <1>2, <1>7, StillTells DEF vars, chainVars
<1> QED  BY <1>3, <1>4, <1>5, <1>6, <1>7 DEF Next, Sync, Finished, BWs

\* NothingFailsByItself: as long as no output fails and nothing panics, Sync
\* returns nil, and no record ends with an error but a late one.
THEOREM NothingFailsCorrect == Spec => []NothingFailsByItself
<1>1. Init => TypeInv /\ SyncInv /\ Closing /\ FineInv
  <2>1. Init => Closing /\ FineInv
    BY DEF Init, Closing, Begun, FineInv, Tells, BWs
  <2> QED  BY <2>1, InitType, InitSync
<1>2. TypeInv /\ SyncInv /\ Closing /\ FineInv /\ [Next]_vars => (TypeInv /\ SyncInv /\ Closing /\ FineInv)'
  BY StepEffect, SyncStep, ClosingStep, FineStep
<1>3. FineInv => NothingFailsByItself
  BY DEF FineInv, Tells, Late, NothingFailsByItself
<1> QED  BY <1>1, <1>2, <1>3, PTL DEF Spec

-----------------------------------------------------------------------------
(* The outputs agree *)

\* What the i-th output behind io.MultiWriter took.
Log(i) == taken[Members[i]]
Places == 1 .. Len(Members)
Queue  == bw["main"].buf

\* Records that any of them took, or that wait for it.
Seen == {r \in Records : r \in ToSet(Queue) \/ \E i \in Places : r \in ToSet(Log(i))}

\* A record is written by one call of its handler.
Fresh(c) == pc[c] \in {"before", "syncing"} \/ (pc[c] = "main" /\ k[c] = 1)
FreshInv ==
    /\ \A r \in Seen : r[2] <= n[r[1]]
    /\ \A c \in Goroutines : Fresh(c) => Rec(c) \notin Seen

\* A handler that writes to the outputs one by one has written to the ones before.
PlaceInv ==
    \A c \in Goroutines :
        /\ k[c] \in Places
        /\ k[c] # 1 => pc[c] = "main" /\ ~cfg.async
        /\ \A i \in 1 .. k[c] - 1 : Rec(c) \in ToSet(Log(i))

StageInv ==
    /\ sync.stage = "main" => cfg.async
    /\ sync.result = "panic" => sync.stage = "done"

SubsetInv == \A i, j \in Places : i < j => ToSet(Log(j)) \subseteq ToSet(Log(i))

Prefix(s, t) == Len(s) <= Len(t) /\ \A i \in 1 .. Len(s) : s[i] = t[i]

\* Behind the batchWriter: what a later output has begins what an earlier one
\* has, and they all have the same until the batchWriter fails.
Healthy == alive /\ ~bw["main"].err /\ ~bw["main"].locked
BatchInv ==
    cfg.async /\ sync.result # "panic" =>
        /\ \A i, j \in Places : i < j => Prefix(Log(j), Log(i))
        /\ \A i \in Places : Once(Log(i))
        /\ Healthy => /\ \A i, j \in Places : Log(i) = Log(j)
                      /\ \A i \in Places : Once(Log(i) \o Queue)

\* Under the mutex of slog.TextHandler: its record is the last one of the
\* outputs before, and new to the others.
Holds(c) ==
    /\ \A i \in 1 .. k[c] - 1 : Log(i) # <<>> /\ Log(i)[Len(Log(i))] = Rec(c)
    /\ \A j \in k[c] .. Len(Members) : Rec(c) \notin ToSet(Log(j))
TextInv ==
    ~cfg.async /\ cfg.format = "text" =>
        /\ \A i, j \in Places : i < j => Thins(Log(j), Log(i))
        /\ \A c \in Goroutines : k[c] # 1 => textMu = c
        /\ \A c \in Goroutines : textMu = c => pc[c] = "main" /\ Holds(c)

OrderInv == FreshInv /\ PlaceInv /\ StageInv /\ SubsetInv /\ BatchInv /\ TextInv

-----------------------------------------------------------------------------
(* Sequences without repetitions, and the beginnings of sequences *)

LEMMA OnceMeans ==
    ASSUME NEW S, NEW s \in Seq(S)
    PROVE  Once(s) <=> \A i, j \in 1 .. Len(s) : s[i] = s[j] => i = j
<1>1. DOMAIN s = 1 .. Len(s)
  OBVIOUS
<1> QED  BY <1>1 DEF Once, IsInjective

LEMMA InToSet ==
    ASSUME NEW S, NEW s \in Seq(S)
    PROVE  /\ \A i \in 1 .. Len(s) : s[i] \in ToSet(s)
           /\ \A x \in ToSet(s) : \E i \in 1 .. Len(s) : s[i] = x
           /\ ToSet(s) \subseteq S
<1>1. DOMAIN s = 1 .. Len(s)
  OBVIOUS
<1>2. \A i \in 1 .. Len(s) : s[i] \in S
  OBVIOUS
<1> QED  BY <1>1, <1>2 DEF ToSet

LEMMA AppendOnce ==
    ASSUME NEW S, NEW s \in Seq(S), NEW x \in S, Once(s), x \notin ToSet(s)
    PROVE  Once(Append(s, x))
<1>1. Append(s, x) \in Seq(S) /\ Len(Append(s, x)) = Len(s) + 1 /\ Append(s, x)[Len(s) + 1] = x /\ Len(s) \in Nat
      /\ \A i \in 1 .. Len(s) : Append(s, x)[i] = s[i]
  OBVIOUS
<1>2. \A i, j \in 1 .. Len(s) : s[i] = s[j] => i = j
  BY OnceMeans
<1>3. \A i \in 1 .. Len(s) : s[i] # x
  BY InToSet
<1> DEFINE t == Append(s, x)
<1>4. t \in Seq(S) /\ Len(t) = Len(s) + 1 /\ t[Len(s) + 1] = x /\ \A i \in 1 .. Len(s) : t[i] = s[i]
  BY <1>1
<1> HIDE DEF t
<1>5. \A i, j \in 1 .. Len(t) : t[i] = t[j] => i = j
  BY <1>1, <1>2, <1>3, <1>4
<1>6. Once(t)
  BY <1>4, <1>5, OnceMeans
<1> QED  BY <1>6 DEF t

LEMMA ConcatAppend ==
    ASSUME NEW S, NEW s \in Seq(S), NEW t \in Seq(S), NEW x \in S
    PROVE  s \o Append(t, x) = Append(s \o t, x)
OBVIOUS

LEMMA PrefixOnce ==
    ASSUME NEW S, NEW s \in Seq(S), NEW t \in Seq(S), Prefix(s, t), Once(t)
    PROVE  Once(s)
<1>1. Len(s) \in Nat /\ Len(t) \in Nat
  OBVIOUS
<1> QED  BY <1>1, OnceMeans DEF Prefix

LEMMA PrefixThins ==
    ASSUME NEW S, NEW s \in Seq(S), NEW t \in Seq(S), Prefix(s, t), Once(t)
    PROVE  Thins(s, t)
<1>1. Len(s) \in Nat /\ Len(t) \in Nat /\ Len(s) <= Len(t) /\ \A i \in 1 .. Len(s) : s[i] = t[i]
  BY DEF Prefix
<1>2. ToSet(s) \subseteq ToSet(t)
  <2>1. ASSUME NEW x \in ToSet(s) PROVE x \in ToSet(t)
    <3>1. PICK i \in 1 .. Len(s) : s[i] = x
      BY InToSet
    <3>2. i \in 1 .. Len(t) /\ t[i] = x
      BY <1>1, <3>1
    <3> QED  BY <3>2, InToSet
  <2> QED  BY <2>1
<1>3. \A i, j \in 1 .. Len(t) : t[i] = t[j] => i = j
  BY OnceMeans
<1>4. ASSUME NEW i \in 1 .. Len(s), NEW j \in 1 .. Len(s), NEW x \in 1 .. Len(t), NEW y \in 1 .. Len(t),
             s[i] = t[x], s[j] = t[y]
      PROVE  i < j <=> x < y
  <2>1. i \in 1 .. Len(t) /\ j \in 1 .. Len(t) /\ t[i] = t[x] /\ t[j] = t[y]
    BY <1>1, <1>4
  <2>2. i = x /\ j = y
    BY <1>3, <2>1
  <2> QED  BY <2>2
<1> QED  BY <1>2, <1>4 DEF Thins

\* A sequence followed by more of another one, or by less.
LEMMA PrefixConcat ==
    ASSUME NEW S, NEW s \in Seq(S), NEW c \in Seq(S), NEW m \in 0 .. Len(c)
    PROVE  /\ Prefix(s, s \o c) /\ Prefix(s \o c, s \o c) /\ Prefix(s, s \o SubSeq(c, 1, m)) /\ Prefix(s, s)
           /\ Prefix(s \o SubSeq(c, 1, m), s \o c)
<1> DEFINE d == SubSeq(c, 1, m)
<1>1. Len(s) \in Nat /\ Len(c) \in Nat /\ m \in Nat /\ m <= Len(c)
  OBVIOUS
<1>2. d \in Seq(S) /\ Len(d) = m /\ \A i \in 1 .. m : d[i] = c[i]
  BY <1>1
<1> HIDE DEF d
<1>3. Prefix(s, s \o c)
  BY <1>1 DEF Prefix
<1>4. Prefix(s, s \o d)
  BY <1>1, <1>2 DEF Prefix
<1>5. Prefix(s, s)
  BY <1>1 DEF Prefix
<1>6. s \o c \in Seq(S) /\ Len(s \o c) \in Nat
  OBVIOUS
<1>7. Prefix(s \o c, s \o c)
  BY <1>6 DEF Prefix
<1>8. Prefix(s \o d, s \o c)
  <2>1. Len(s \o d) = Len(s) + m /\ Len(s \o c) = Len(s) + Len(c)
    BY <1>1, <1>2
  <2>2. ASSUME NEW i \in 1 .. Len(s) + m PROVE (s \o d)[i] = (s \o c)[i]
    <3>1. CASE i <= Len(s)
      <4>1. (s \o d)[i] = s[i] /\ (s \o c)[i] = s[i]
        BY <1>1, <1>2, <3>1
      <4> QED  BY <4>1
    <3>2. CASE i > Len(s)
      <4>1. i - Len(s) \in 1 .. m /\ i - Len(s) \in 1 .. Len(c)
        BY <1>1, <3>2
      <4>2. (s \o d)[i] = d[i - Len(s)] /\ (s \o c)[i] = c[i - Len(s)]
        BY <1>1, <1>2, <3>2, <4>1
      <4> QED  BY <1>2, <4>1, <4>2
    <3>3. i \in Int /\ Len(s) \in Int
      BY <1>1
    <3> HIDE <1>1
    <3>4. i <= Len(s) \/ i > Len(s)
      BY <3>3
    <3> QED  BY <3>1, <3>2, <3>4, Zenon
  <2> QED  BY <1>1, <2>1, <2>2 DEF Prefix
<1> QED  BY <1>3, <1>4, <1>5, <1>7, <1>8 DEF d

\* A new record at the end of the longer sequence.
LEMMA ThinsLonger ==
    ASSUME NEW S, NEW s \in Seq(S), NEW t \in Seq(S), NEW r \in S, Thins(s, t), r \notin ToSet(t)
    PROVE  Thins(s, Append(t, r))
<1> DEFINE u == Append(t, r)
<1>1. Len(s) \in Nat /\ Len(t) \in Nat /\ u \in Seq(S) /\ Len(u) = Len(t) + 1 /\ u[Len(t) + 1] = r
      /\ \A i \in 1 .. Len(t) : u[i] = t[i]
  OBVIOUS
<1>2. Once(u) /\ ToSet(s) \subseteq ToSet(u)
  BY AppendOnce, AppendToSet DEF Thins
<1> HIDE DEF u
<1>3. ASSUME NEW i \in 1 .. Len(s), NEW x \in 1 .. Len(u), s[i] = u[x] PROVE x \in 1 .. Len(t) /\ u[x] = t[x]
  <2>1. s[i] # r
    BY InToSet DEF Thins
  <2>2. x # Len(t) + 1
    BY <1>1, <1>3, <2>1
  <2> QED  BY <1>1, <2>2
<1>4. \A i, j \in 1 .. Len(s), x, y \in 1 .. Len(u) : s[i] = u[x] /\ s[j] = u[y] => (i < j <=> x < y)
  BY <1>3 DEF Thins
<1>5. Thins(s, u)
  BY <1>2, <1>4 DEF Thins
<1> QED  BY <1>5 DEF u

\* The last record of the longer sequence at the end of the shorter one.
LEMMA ThinsShorter ==
    ASSUME NEW S, NEW s \in Seq(S), NEW t \in Seq(S), NEW r \in S, Thins(s, t),
           r \notin ToSet(s), t # <<>>, t[Len(t)] = r
    PROVE  Thins(Append(s, r), t)
<1> DEFINE u == Append(s, r)
<1>1. Len(s) \in Nat /\ Len(t) \in Nat \ {0} /\ u \in Seq(S) /\ Len(u) = Len(s) + 1 /\ u[Len(s) + 1] = r
      /\ \A i \in 1 .. Len(s) : u[i] = s[i]
  OBVIOUS
<1>2. ToSet(u) \subseteq ToSet(t)
  <2>1. r \in ToSet(t)
    BY <1>1, InToSet
  <2> QED  BY <2>1, AppendToSet DEF Thins
<1>3. \A x \in 1 .. Len(t) : t[x] = r <=> x = Len(t)
  BY <1>1, OnceMeans DEF Thins
<1>4. \A i \in 1 .. Len(s) : s[i] # r
  BY InToSet
<1> HIDE DEF u
<1>5. ASSUME NEW i \in 1 .. Len(u), NEW j \in 1 .. Len(u), NEW x \in 1 .. Len(t), NEW y \in 1 .. Len(t),
             u[i] = t[x], u[j] = t[y]
      PROVE  i < j <=> x < y
  <2>1. i = Len(u) <=> x = Len(t)
    BY <1>1, <1>3, <1>4, <1>5
  <2>2. j = Len(u) <=> y = Len(t)
    BY <1>1, <1>3, <1>4, <1>5
  <2>3. CASE i = Len(u) \/ j = Len(u)
    BY <1>1, <2>1, <2>2, <2>3
  <2>4. CASE i # Len(u) /\ j # Len(u)
    <3>1. i \in 1 .. Len(s) /\ j \in 1 .. Len(s) /\ u[i] = s[i] /\ u[j] = s[j]
      BY <1>1, <2>4
    <3> QED  BY <1>5, <3>1 DEF Thins
  <2> QED  BY <2>3, <2>4
<1>6. Thins(u, t)
  BY <1>2, <1>5 DEF Thins
<1> QED  BY <1>6 DEF u

-----------------------------------------------------------------------------
(* What a step does to the outputs behind io.MultiWriter *)

LEMMA PlacesType ==
    ASSUME TypeInv
    PROVE  /\ Len(Members) \in Nat /\ 1 \in Places
           /\ \A i \in Places : Members[i] \in Outputs /\ Members[i] # "console" /\ Log(i) \in Seq(Records)
           /\ \A i, j \in Places : Members[i] = Members[j] => i = j
           /\ Queue \in Seq(Records)
           /\ \A i \in Places : Members[i] \in ToSet(Members)
<1>1. Members \in Seq(Outputs) /\ Members # <<>> /\ Once(Members)
  BY MembersType, ConfigAssumption DEF TypeInv, TypeOK, Members, Once
<1>2. Len(Members) \in Nat /\ 1 \in Places
  BY <1>1 DEF Places
<1>3. \A i \in Places : Members[i] \in Outputs /\ Members[i] \in ToSet(Members)
  BY <1>1, InToSet DEF Places
<1>4. \A i \in Places : Members[i] # "console"
  BY <1>3, OnlyConsole
<1>5. \A i, j \in Places : Members[i] = Members[j] => i = j
  BY <1>1, OnceMeans DEF Places
<1>6. Queue \in Seq(Records) /\ \A o \in Outputs : taken[o] \in Seq(Records)
  BY DEF Queue, TypeInv, TypeOK
<1> QED  BY <1>2, <1>3, <1>4, <1>5, <1>6 DEF Log

\* The outputs before the i-th took chunk, the i-th m records of it.
ToPlaces(chunk, i, m) ==
    \A x \in Places : Log(x)' = Log(x) \o (IF x < i THEN chunk ELSE IF x = i THEN SubSeq(chunk, 1, m) ELSE <<>>)

LEMMA SpreadPlaces ==
    ASSUME TypeInv, cfg' = cfg, NEW chunk \in Seq(Records), NEW i \in 1 .. Len(Members) + 1, NEW m,
           Spread("main", chunk, i, m)
    PROVE  ToPlaces(chunk, i, m)
<1>1. Below("main") = Members
  BY DEF Below
<1>2. Members \in Seq(Outputs) /\ Len(Members) \in Nat
  BY PlacesType, MembersType DEF TypeInv
<1>3. \A x \in Places : Members[x] \in ToSet(SubSeq(Members, 1, i - 1)) <=> x < i
  <2> DEFINE s == SubSeq(Members, 1, i - 1)
  <2>1. s \in Seq(Outputs) /\ Len(s) = i - 1 /\ (\A y \in 1 .. i - 1 : s[y] = Members[y]) /\ i \in Nat /\ i <= Len(Members) + 1
    BY <1>2
  <2> HIDE DEF s
  <2>2. TAKE x \in Places
  <2>3. ASSUME x < i PROVE Members[x] \in ToSet(s)
    <3>1. x \in 1 .. Len(s) /\ s[x] = Members[x]
      BY <1>2, <2>1, <2>3 DEF Places
    <3> QED  BY <2>1, <3>1, InToSet
  <2>4. ASSUME Members[x] \in ToSet(s) PROVE x < i
    <3>1. PICK y \in 1 .. Len(s) : s[y] = Members[x]
      BY <2>1, <2>4, InToSet
    <3>2. y \in Places /\ Members[y] = Members[x] /\ y < i
      BY <1>2, <2>1, <3>1 DEF Places
    <3> QED  BY <3>2, PlacesType
  <2> QED  BY <2>3, <2>4 DEF s
<1>4. \A x \in Places : i <= Len(Members) /\ Members[x] = Members[i] <=> x = i
  BY <1>2, PlacesType DEF Places
<1>5. \A x \in Places : Log(x)' = taken'[Members[x]] /\ Members[x] \in Outputs
  BY PlacesType DEF Log, Members
<1>6. \A x \in Places : taken'[Members[x]] =
          taken[Members[x]] \o IF Members[x] \in ToSet(SubSeq(Members, 1, i - 1)) THEN chunk
                               ELSE IF i <= Len(Members) /\ Members[x] = Members[i] THEN SubSeq(chunk, 1, m)
                               ELSE <<>>
  BY <1>1, <1>5, Zenon DEF Spread
<1> QED  BY <1>3, <1>4, <1>5, <1>6, Zenon DEF ToPlaces, Log

LEMMA ConcatEmpty == ASSUME NEW S, NEW s \in Seq(S) PROVE s \o <<>> = s
OBVIOUS

\* The batchWriter of the console writes to the console.
LEMMA SpreadElsewhere ==
    ASSUME TypeInv, cfg' = cfg, NEW chunk, NEW i \in 1 .. 2, NEW m,
           Spread("console", chunk, i, m)
    PROVE  \A x \in Places : Log(x)' = Log(x)
<1>1. Below("console") = <<"console">> /\ Len(Below("console")) = 1
  BY DEF Below
<1>2. ToSet(SubSeq(Below("console"), 1, i - 1)) \subseteq {"console"}
  <2>1. <<"console">> \in Seq({"console"}) /\ i - 1 \in 0 .. Len(<<"console">>)
    OBVIOUS
  <2>2. SubSeq(<<"console">>, 1, i - 1) \in Seq({"console"})
    BY <2>1, PartOfSeq
  <2> QED  BY <1>1, <2>2, InToSet, Zenon
<1>3. i <= Len(Below("console")) => Below("console")[i] = "console"
  BY <1>1
<1>4. ASSUME NEW x \in Places PROVE Log(x)' = Log(x)
  <2>1. Log(x)' = taken'[Members[x]] /\ Members[x] \in Outputs /\ Members[x] # "console" /\ taken[Members[x]] \in Seq(Records)
    BY PlacesType DEF Log, Members
  <2>2. taken'[Members[x]] = taken[Members[x]] \o <<>>
    BY <1>2, <1>3, <2>1, Zenon DEF Spread
  <2> QED  BY <2>1, <2>2, ConcatEmpty DEF Log
<1> QED  BY <1>4

\* A flush of chunk: the outputs take it, and unless the batchWriter fails, or
\* something panics, it is empty after that.
Written(chunk) ==
    \E i \in 1 .. Len(Members) + 1, m \in 0 .. Len(chunk) :
        /\ ToPlaces(chunk, i, m)
        /\ ToSet(Queue') \subseteq ToSet(chunk)
        /\ Healthy' /\ sync'.result # "panic" => i = Len(Members) + 1 /\ Queue' = <<>>

LEMMA RestIsPart ==
    ASSUME NEW S, NEW s \in Seq(S), NEW m \in 0 .. Len(s)
    PROVE  ToSet(SubSeq(s, m + 1, Len(s))) \subseteq ToSet(s)
<1> DEFINE t == SubSeq(s, m + 1, Len(s))
<1>1. Len(s) \in Nat /\ m \in Nat /\ m <= Len(s)
  OBVIOUS
<1>2. t \in Seq(S) /\ Len(t) = Len(s) - m /\ \A i \in 1 .. Len(s) - m : t[i] = s[m + i]
  BY <1>1, PartOfSeq
<1> HIDE DEF t
<1>3. ASSUME NEW x \in ToSet(t) PROVE x \in ToSet(s)
  <2>1. PICK i \in 1 .. Len(t) : t[i] = x
    BY <1>2, InToSet
  <2>2. m + i \in 1 .. Len(s) /\ s[m + i] = x
    BY <1>1, <1>2, <2>1
  <2> QED  BY <2>2, InToSet
<1> QED  BY <1>3 DEF t

LEMMA FlushPlaces ==
    ASSUME TypeInv, cfg' = cfg, NEW chunk \in Seq(Records), NEW flag,
           \/ FlushOk("main", chunk, flag)
           \/ FlushFails("main", chunk, flag)
           \/ FlushPanics("main", chunk, TRUE)
           \/ FlushPanics("main", chunk, FALSE) /\ (alive' = FALSE \/ sync'.result = "panic")
           \/ FlushHangs("main", chunk)
    PROVE  Written(chunk)
<1>1. Below("main") = Members /\ Len(Members) \in Nat /\ Len(chunk) \in Nat
  BY PlacesType DEF Below
<1>2. bw \in [BWs -> BWType] /\ "main" \in BWs
  BY DEF TypeInv, TypeOK, BWs, BWType
<1>3. CASE FlushOk("main", chunk, flag)
  <2>1. Len(Members) + 1 \in 1 .. Len(Members) + 1 /\ 0 \in 0 .. Len(chunk)
    BY <1>1
  <2>2. Spread("main", chunk, Len(Members) + 1, 0) /\ Queue' = <<>>
    BY <1>1, <1>2, <1>3 DEF FlushOk, Queue, BWType
  <2>3. ToPlaces(chunk, Len(Members) + 1, 0)
    BY <2>1, <2>2, SpreadPlaces
  <2>4. ToSet(Queue') \subseteq ToSet(chunk)
    BY <2>2, EmptyToSet
  <2> QED  BY <2>1, <2>2, <2>3, <2>4, Zenon DEF Written
<1>4. CASE FlushFails("main", chunk, flag)
  <2>1. PICK i \in 1 .. Len(Members), m \in 0 .. Len(chunk) :
            /\ Spread("main", chunk, i, m)
            /\ bw' = [bw EXCEPT !["main"].buf = SubSeq(chunk, m + 1, Len(chunk)), !["main"].err = TRUE, !["main"].closed = flag]
    BY <1>1, <1>4 DEF FlushFails
  <2>2. i \in 1 .. Len(Members) + 1 /\ m \in 0 .. Len(chunk)
    BY <1>1
  <2>3. ToPlaces(chunk, i, m)
    BY <2>1, <2>2, SpreadPlaces
  <2>4. bw'["main"].buf = SubSeq(chunk, m + 1, Len(chunk)) /\ bw'["main"].err
    BY <1>2, <2>1 DEF BWType
  <2>5. ToSet(Queue') \subseteq ToSet(chunk)
    BY <2>2, <2>4, RestIsPart DEF Queue
  <2>6. ~Healthy'
    BY <2>4 DEF Healthy
  <2> QED  BY <2>2, <2>3, <2>5, <2>6, Zenon DEF Written
<1>5. ASSUME NEW outputs, NEW locked, FlushHalts("main", chunk, outputs, locked),
             locked = TRUE \/ alive' = FALSE \/ sync'.result = "panic"
      PROVE  Written(chunk)
  <2>1. PICK i \in 1 .. Len(Members), m \in 0 .. Len(chunk) :
            /\ Spread("main", chunk, i, m)
            /\ bw' = [bw EXCEPT !["main"].buf = chunk, !["main"].locked = locked]
    BY <1>1, <1>5 DEF FlushHalts
  <2>2. i \in 1 .. Len(Members) + 1
    BY <1>1
  <2>3. ToPlaces(chunk, i, m)
    BY <2>1, <2>2, SpreadPlaces
  <2>4. Queue' = chunk /\ bw'["main"].locked = locked
    BY <1>2, <2>1 DEF BWType, Queue
  <2>5. ~(Healthy' /\ sync'.result # "panic")
    BY <1>5, <2>4 DEF Healthy
  <2> QED  BY <2>2, <2>3, <2>4, <2>5, Zenon DEF Written
<1>6. CASE FlushPanics("main", chunk, TRUE)
  BY <1>5, <1>6 DEF FlushPanics
<1>7. CASE FlushPanics("main", chunk, FALSE) /\ (alive' = FALSE \/ sync'.result = "panic")
  BY <1>5, <1>7 DEF FlushPanics
<1>8. CASE FlushHangs("main", chunk)
  BY <1>5, <1>8 DEF FlushHangs
<1> QED  BY <1>3, <1>4, <1>6, <1>7, <1>8

\* Nothing happens behind io.MultiWriter.
Quiet == /\ \A x \in Places : Log(x)' = Log(x)
         /\ Queue' = Queue /\ (Healthy' => Healthy)

LEMMA UnchangedQuiet ==
    ASSUME UNCHANGED <<cfg, taken, bw>>, alive' => alive
    PROVE  Quiet
BY DEF Quiet, Log, Members, Places, Queue, Healthy

LEMMA ConsoleQuiet ==
    ASSUME TypeInv, cfg' = cfg, NEW chunk, NEW flag, Flush("console", chunk, flag), alive' => alive
    PROVE  Quiet
<1>1. Below("console") = <<"console">> /\ Len(Below("console")) = 1
  BY DEF Below
<1>2. \E i \in 1 .. 2 : \E m : Spread("console", chunk, i, m)
  <2>1. CASE FlushOk("console", chunk, flag)
    <3> DEFINE l == Len(Below("console"))
    <3>1. l = 1
      BY <1>1
    <3> HIDE DEF l
    <3>2. l + 1 = 2
      BY <3>1
    <3>3. Spread("console", chunk, l + 1, 0)
      BY <2>1, Zenon DEF FlushOk, l
    <3>4. 2 \in 1 .. 2
      OBVIOUS
    <3> QED  BY <3>2, <3>3, <3>4, Zenon
  <2>2. CASE FlushFails("console", chunk, flag)
    BY <1>1, <2>2 DEF FlushFails
  <2>3. CASE Halts("console", chunk)
    <3> DEFINE l == Len(Below("console"))
    <3>1. l = 1
      BY <1>1
    <3> HIDE DEF l
    <3>2. \E i \in 1 .. l : \E m : Spread("console", chunk, i, m)
      BY <2>3, Zenon DEF Halts, l
    <3> QED  BY <3>1, <3>2
  <2> QED  BY <2>1, <2>2, <2>3 DEF Flush
<1>3. \A x \in Places : Log(x)' = Log(x)
  BY <1>2, SpreadElsewhere
<1>4. bw'["main"] = bw["main"]
  BY FlushTouches DEF BWs
<1> QED  BY <1>3, <1>4 DEF Quiet, Queue, Healthy

-----------------------------------------------------------------------------
(* What a step is to the outputs and the goroutines *)

\* Goroutine c is the only one to move, if any does.
Only(c) == \A d \in Goroutines : d # c => pc'[d] = pc[d] /\ k'[d] = k[d] /\ n'[d] = n[d]

\* Goroutine c enters a Write that does not return,
MyTurn(c) == /\ ~cfg.async /\ pc[c] = "main"
             /\ cfg.format = "text" => textMu = c \/ (k[c] = 1 /\ textMu = Nobody)
Waits(c) == MyTurn(c) /\ (cfg.format = "text" => textMu' = c)

\* ... the timers and Sync: a flush of what is in the queue, or nothing.
Aside == /\ UNCHANGED <<pc, k, n>>
         /\ textMu' = textMu \/ \E c \in Goroutines : Waits(c)
         /\ Quiet \/ (cfg.async /\ Healthy /\ Written(Queue))

\* Goroutine c goes on without a record for the outputs,
Passes(c) == /\ Only(c) /\ textMu' = textMu /\ Quiet
             /\ k[c] = 1 /\ k'[c] = 1 /\ (pc[c] = "main" => cfg.async)
             /\ \/ n'[c] = n[c] /\ (Fresh(c)' => Fresh(c))
                \/ n'[c] = n[c] + 1

\* ... or hands it to the batchWriter.
Hands(c) == /\ Only(c) /\ textMu' = textMu /\ n' = n
            /\ cfg.async /\ Healthy /\ Fresh(c)
            /\ k'[c] = 1 /\ ~Fresh(c)'
            /\ \/ (\A x \in Places : Log(x)' = Log(x)) /\ Queue' = Append(Queue, Rec(c))
               \/ Written(Append(Queue, Rec(c)))

\* Without a batchWriter: goroutine c has its turn,
Turn(c) == /\ Only(c) /\ textMu' = TextMuNext(c) /\ n' = n /\ Queue' = Queue /\ Healthy' = Healthy
           /\ MyTurn(c)

\* ... in which an output fails,
Fails(c) == /\ Turn(c) /\ \A x \in Places : Log(x)' = Log(x)
            /\ k'[c] = 1 /\ pc'[c] \notin {"before", "syncing", "main"}

\* ... or takes the record.
Writes(c) == /\ Turn(c) /\ \A x \in Places : Log(x)' = IF x = k[c] THEN Append(Log(x), Rec(c)) ELSE Log(x)
             /\ \/ pc'[c] = "main" /\ k'[c] = k[c] + 1 /\ k[c] < Len(Members)
                \/ pc'[c] \notin {"before", "syncing", "main"} /\ k'[c] = 1

Moved(c) == Passes(c) \/ Hands(c) \/ Fails(c) \/ Writes(c)

LEMMA GotoOnly ==
    ASSUME TypeInv, NEW c \in Goroutines, NEW stage, Goto(c, stage), n' = n
    PROVE  Only(c) /\ pc'[c] = stage /\ k'[c] = 1
BY DEF TypeInv, TypeOK, Goto, Only

LEMMA WroteOnly ==
    ASSUME TypeInv, NEW c \in Goroutines, NEW failed, Wrote(c, failed), n' = n
    PROVE  Only(c) /\ pc'[c] \in {"console", "after"} /\ k'[c] = 1
BY GotoOnly DEF Wrote

LEMMA WritePanicsOnly ==
    ASSUME TypeInv, NEW c \in Goroutines, WritePanics(c), n' = n
    PROVE  Only(c) /\ pc'[c] \in {"console", "after", "idle"} /\ k'[c] = 1
BY GotoOnly, WroteOnly DEF WritePanics, Ends

\* batchWriter.Write.
LEMMA WriteBatchMoved ==
    ASSUME TypeInv, PlaceInv, alive, NEW c \in Goroutines, WriteBatch(c)
    PROVE  Passes(c) \/ Hands(c)
<1>1. PICK b \in BWs :
        /\ pc[c] = b /\ InUse(b) /\ ~bw[b].locked /\ UNCHANGED <<cfg, n, textMu, shut, sync, alive>>
        /\ \/ Wrote(c, TRUE) /\ UNCHANGED <<bw, taken>>
           \/ /\ ~bw[b].err /\ Wrote(c, FALSE)
              /\ bw' = [bw EXCEPT ![b].buf = Append(bw[b].buf, Rec(c))]
              /\ UNCHANGED taken
           \/ /\ ~bw[b].err
              /\ \/ FlushOk(b, Append(bw[b].buf, Rec(c)), FALSE) /\ Wrote(c, FALSE)
                 \/ FlushFails(b, Append(bw[b].buf, Rec(c)), FALSE) /\ Wrote(c, TRUE)
                 \/ FlushPanics(b, Append(bw[b].buf, Rec(c)), TRUE) /\ WritePanics(c)
                 \/ FlushHangs(b, Append(bw[b].buf, Rec(c))) /\ Goto(c, "hung")
  BY DEF WriteBatch, BWs
<1>2. Only(c) /\ pc'[c] \in {"console", "after", "idle", "hung"} /\ k'[c] = 1
  BY <1>1, WroteOnly, WritePanicsOnly, GotoOnly
<1>3. ~Fresh(c)'
  BY <1>2 DEF Fresh
<1>4. bw \in [BWs -> BWType] /\ c \in Goroutines
  BY DEF TypeInv, TypeOK, BWs, BWType
<1>5. CASE UNCHANGED <<bw, taken>> \/ b = "console"
  <2>1. k[c] = 1
    <3>1. CASE b = "console"
      BY <1>1, <3>1 DEF PlaceInv
    <3>2. CASE b = "main"
      BY <1>1, <3>2 DEF PlaceInv, InUse
    <3> QED  BY <3>1, <3>2 DEF BWs
  <2>2. Quiet
    <3>1. CASE UNCHANGED <<bw, taken>>
      BY <1>1, <3>1, UnchangedQuiet
    <3>2. CASE /\ b = "console"
               /\ bw' = [bw EXCEPT ![b].buf = Append(bw[b].buf, Rec(c))]
               /\ UNCHANGED taken
      <4>1. bw'["main"] = bw["main"]
        BY <1>4, <3>2 DEF BWs
      <4> QED  BY <1>1, <3>2, <4>1 DEF Quiet, Log, Members, Places, Queue, Healthy
    <3>3. CASE b = "console" /\ \E flag : Flush(b, Append(bw[b].buf, Rec(c)), flag)
      BY <1>1, <3>3, ConsoleQuiet
    <3> QED  BY <1>1, <1>5, <3>1, <3>2, <3>3, FlushMeans
  <2>3. pc[c] = "main" => cfg.async
    BY <1>1 DEF InUse
  <2> QED  BY <1>1, <1>2, <1>3, <2>1, <2>2, <2>3 DEF Passes
<1>6. CASE ~UNCHANGED <<bw, taken>> /\ b = "main"
  <2>1. cfg.async /\ Healthy /\ Fresh(c)
    BY <1>1, <1>6 DEF PlaceInv, InUse, Healthy, Fresh
  <2>2. Append(Queue, Rec(c)) \in Seq(Records) /\ Queue = bw["main"].buf
    <3>1. Rec(c) \in Records
      BY <1>1, <1>6, RecIsRecord
    <3> QED  BY <3>1, PlacesType DEF Queue
  <2>3. CASE bw' = [bw EXCEPT ![b].buf = Append(bw[b].buf, Rec(c))] /\ UNCHANGED taken
    <3>1. Queue' = Append(Queue, Rec(c)) /\ bw'["main"].err = bw["main"].err /\ bw'["main"].locked = bw["main"].locked
      BY <1>4, <1>6, <2>3 DEF Queue, BWType, BWs
    <3>2. \A x \in Places : Log(x)' = Log(x)
      BY <1>1, <2>3 DEF Log, Members, Places
    <3>3. Healthy' => Healthy
      BY <1>1, <3>1 DEF Healthy
    <3> QED  BY <1>1, <1>2, <1>3, <2>1, <3>1, <3>2, <3>3 DEF Hands
  <2>4. CASE \/ FlushOk("main", Append(Queue, Rec(c)), FALSE)
             \/ FlushFails("main", Append(Queue, Rec(c)), FALSE)
             \/ FlushPanics("main", Append(Queue, Rec(c)), TRUE)
             \/ FlushHangs("main", Append(Queue, Rec(c)))
    <3>1. Written(Append(Queue, Rec(c)))
      BY <1>1, <2>2, <2>4, FlushPlaces
    <3> QED  BY <1>1, <1>2, <1>3, <2>1, <3>1 DEF Hands
  <2> QED  BY <1>1, <1>6, <2>2, <2>3, <2>4
<1> QED  BY <1>5, <1>6 DEF BWs

\* Write of the next member.
LEMMA WriteMemberMoved ==
    ASSUME TypeInv, PlaceInv, alive, NEW c \in Goroutines, WriteMember(c)
    PROVE  Fails(c) \/ Writes(c)
<1> DEFINE o == Members[k[c]]
<1>1. /\ MyTurn(c) /\ UNCHANGED <<cfg, n, bw, shut, sync, alive>>
      /\ \/ /\ taken' = [taken EXCEPT ![o] = Append(@, Rec(c))]
            /\ \/ k[c] < Len(Members) /\ k' = [k EXCEPT ![c] = @ + 1] /\ UNCHANGED pc
               \/ Wrote(c, FALSE) \/ Wrote(c, TRUE) \/ WritePanics(c)
         \/ taken' = taken /\ (Wrote(c, TRUE) \/ WritePanics(c))
      /\ textMu' = TextMuNext(c)
  BY DEF WriteMember, MayWrite, MyTurn
<1>2. k[c] \in Places /\ o \in Outputs /\ taken \in [Outputs -> Seq(Records)] /\ k \in [Goroutines -> Nat \ {0}]
  BY PlacesType DEF TypeInv, TypeOK, PlaceInv
<1>3. Queue' = Queue /\ Healthy' = Healthy
  BY <1>1 DEF Queue, Healthy
<1>4. \A x \in Places : Members[x] \in Outputs /\ (Members[x] = o <=> x = k[c]) /\ Log(x)' = taken'[Members[x]]
  BY <1>1, <1>2, PlacesType DEF Log, Members
<1> HIDE DEF o
<1>5. CASE taken' = [taken EXCEPT ![o] = Append(@, Rec(c))] /\ k[c] < Len(Members) /\ k' = [k EXCEPT ![c] = @ + 1] /\ UNCHANGED pc
  <2>1. \A x \in Places : Log(x)' = IF x = k[c] THEN Append(Log(x), Rec(c)) ELSE Log(x)
    BY <1>2, <1>4, <1>5 DEF Log
  <2>2. Only(c) /\ pc'[c] = "main" /\ k'[c] = k[c] + 1
    BY <1>1, <1>2, <1>5 DEF Only, MyTurn
  <2> QED  BY <1>1, <1>3, <1>5, <2>1, <2>2 DEF Writes, Turn
<1>6. CASE taken' = [taken EXCEPT ![o] = Append(@, Rec(c))] /\ (Wrote(c, FALSE) \/ Wrote(c, TRUE) \/ WritePanics(c))
  <2>1. \A x \in Places : Log(x)' = IF x = k[c] THEN Append(Log(x), Rec(c)) ELSE Log(x)
    BY <1>2, <1>4, <1>6 DEF Log
  <2>2. Only(c) /\ pc'[c] \in {"console", "after", "idle"} /\ k'[c] = 1
    BY <1>1, <1>6, WroteOnly, WritePanicsOnly
  <2> QED  BY <1>1, <1>3, <2>1, <2>2 DEF Writes, Turn
<1>7. CASE taken' = taken /\ (Wrote(c, TRUE) \/ WritePanics(c))
  <2>1. \A x \in Places : Log(x)' = Log(x)
    BY <1>4, <1>7 DEF Log
  <2>2. Only(c) /\ pc'[c] \in {"console", "after", "idle"} /\ k'[c] = 1
    BY <1>1, <1>7, WroteOnly, WritePanicsOnly
  <2> QED  BY <1>1, <1>3, <2>1, <2>2 DEF Fails, Turn
<1> QED  BY <1>1, <1>5, <1>6, <1>7

LEMMA ChainMoved ==
    ASSUME TypeInv, PlaceInv, alive, NEW c \in Goroutines, Chain(c)
    PROVE  Moved(c) \/ Aside
<1>1. CASE WriteBatch(c)
  BY <1>1, WriteBatchMoved DEF Moved
<1>2. CASE WriteMember(c)
  BY <1>2, WriteMemberMoved DEF Moved
<1>3. ASSUME UNCHANGED <<cfg, textMu, taken, bw, alive>>, pc[c] # "main", Only(c), k'[c] = 1,
             n'[c] = n[c] + 1 \/ (n'[c] = n[c] /\ (Fresh(c)' => Fresh(c)))
      PROVE  Moved(c)
  BY <1>3, UnchangedQuiet DEF Moved, Passes, PlaceInv
<1>4. CASE Begin(c)
  <2>1. n' = [n EXCEPT ![c] = n[c] + 1] /\ Goto(c, "before") /\ pc[c] = "idle" /\ UNCHANGED <<cfg, textMu, taken, bw, alive>>
    BY <1>4 DEF Begin
  <2>2. Only(c) /\ k'[c] = 1 /\ n'[c] = n[c] + 1
    BY <2>1 DEF Only, Goto, TypeInv, TypeOK
  <2> QED  BY <1>3, <2>1, <2>2
<1>5. CASE Stopped(c) \/ SerialisePanics(c) \/ After(c)
  <2>1. Goto(c, "idle") /\ n' = n /\ UNCHANGED <<cfg, textMu, taken, bw, alive>> /\ pc[c] # "main"
    BY <1>5 DEF Stopped, SerialisePanics, After, Ends
  <2>2. Only(c) /\ k'[c] = 1 /\ pc'[c] = "idle"
    BY <2>1, GotoOnly
  <2> QED  BY <1>3, <2>1, <2>2 DEF Fresh
<1>6. CASE Before(c) \/ HookSyncReturns(c)
  <2>1. /\ n' = n /\ UNCHANGED <<cfg, textMu, taken, bw, alive>>
        /\ \/ Goto(c, "main") /\ pc[c] \in {"before", "syncing"}
           \/ Goto(c, "after") /\ pc[c] = "resyncing"
    BY <1>6 DEF Before, HookSyncReturns
  <2>2. Only(c) /\ k'[c] = 1 /\ (pc'[c] = "after" \/ pc[c] \in {"before", "syncing"})
    BY <2>1, GotoOnly
  <2> QED  BY <1>3, <2>1, <2>2 DEF Fresh
<1>7. CASE HookSyncs(c)
  <2>1. /\ pc' = [pc EXCEPT ![c] = IF pc[c] = "before" THEN "syncing" ELSE "resyncing"]
        /\ UNCHANGED <<k, n, cfg, textMu, taken, bw, alive>> /\ pc[c] \in {"before", "after"}
    BY <1>7 DEF HookSyncs
  <2>2. Only(c) /\ k'[c] = 1 /\ pc'[c] = IF pc[c] = "before" THEN "syncing" ELSE "resyncing"
    BY <2>1 DEF Only, TypeInv, TypeOK, PlaceInv
  <2> QED  BY <1>3, <2>1, <2>2 DEF Fresh
<1>8. CASE MemberStalls(c)
  <2>1. MyTurn(c) /\ UNCHANGED <<pc, k, n, cfg, taken, bw, alive>> /\ (cfg.format = "text" => textMu' = c)
    BY <1>8 DEF MemberStalls, MayWrite, MyTurn, chainVars
  <2> QED  BY <2>1, UnchangedQuiet DEF Aside, Waits
<1> QED  BY <1>1, <1>2, <1>4, <1>5, <1>6, <1>7, <1>8 DEF Chain

LEMMA TimerAside ==
    ASSUME TypeInv, alive, NEW b \in BWs, TimerFlush(b)
    PROVE  Aside
<1>1. /\ InUse(b) /\ ~bw[b].locked /\ ~bw[b].err /\ UNCHANGED <<cfg, pc, k, n, textMu, sync>>
      /\ \/ (FlushOk(b, bw[b].buf, FALSE) \/ FlushFails(b, bw[b].buf, FALSE)) /\ UNCHANGED alive
         \/ FlushPanics(b, bw[b].buf, FALSE) /\ alive' = FALSE
         \/ FlushHangs(b, bw[b].buf) /\ UNCHANGED alive
  BY DEF TimerFlush, chainVars
<1>2. CASE b = "main"
  <2>1. cfg.async /\ Healthy /\ Queue \in Seq(Records) /\ Queue = bw[b].buf
    BY <1>1, <1>2, PlacesType DEF InUse, Healthy, Queue
  <2>2. Written(Queue)
    BY <1>1, <1>2, <2>1, FlushPlaces
  <2> QED  BY <1>1, <2>1, <2>2 DEF Aside
<1>3. CASE b = "console"
  <2>1. Flush("console", bw[b].buf, FALSE)
    BY <1>1, <1>3, FlushMeans
  <2> QED  BY <1>1, <2>1, ConsoleQuiet DEF Aside
<1> QED  BY <1>2, <1>3 DEF BWs

LEMMA SyncAside ==
    ASSUME TypeInv, StageInv, alive, Sync
    PROVE  Aside
<1>1. CASE SyncBegin \/ SyncWaited \/ CloseFile \/ CloseNetwork
  BY <1>1, UnchangedQuiet DEF SyncBegin, SyncWaited, CloseFile, CloseNetwork, chainVars, Aside
<1>2. ASSUME NEW b \in BWs, CloseBatch(b) PROVE Aside
  <2>1. sync.stage = b /\ ~bw[b].locked /\ UNCHANGED <<cfg, pc, k, n, textMu, alive>>
    BY <1>2 DEF CloseBatch, chainVars
  <2>2. bw \in [BWs -> BWType]
    BY DEF TypeInv, TypeOK, BWs, BWType
  <2>3. CASE bw' = [bw EXCEPT ![b].closed = TRUE] /\ UNCHANGED taken
    <3>1. Queue' = Queue /\ bw'["main"].err = bw["main"].err /\ bw'["main"].locked = bw["main"].locked
      BY <2>2, <2>3 DEF Queue, BWs, BWType
    <3> QED  BY <2>1, <2>3, <3>1 DEF Aside, Quiet, Log, Places, Members, Healthy
  <2>4. CASE /\ ~bw[b].err
             /\ \/ FlushOk(b, bw[b].buf, TRUE) \/ FlushFails(b, bw[b].buf, TRUE)
                \/ FlushPanics(b, bw[b].buf, FALSE) /\ sync'.result = "panic"
                \/ FlushHangs(b, bw[b].buf)
    <3>1. CASE b = "main"
      <4>1. cfg.async /\ Healthy /\ Queue \in Seq(Records) /\ Queue = bw[b].buf
        BY <2>1, <2>4, <3>1, PlacesType DEF StageInv, Healthy, Queue
      <4>2. Written(Queue)
        BY <2>1, <2>4, <3>1, <4>1, FlushPlaces
      <4> QED  BY <2>1, <4>1, <4>2 DEF Aside
    <3>2. CASE b = "console"
      <4>1. Flush("console", bw[b].buf, TRUE)
        BY <2>4, <3>2, FlushMeans
      <4> QED  BY <2>1, <4>1, ConsoleQuiet DEF Aside
    <3> QED  BY <3>1, <3>2 DEF BWs
  <2>5. sync' = [stage |-> "done", result |-> "panic"] => sync'.result = "panic"
    OBVIOUS
  <2> QED  BY <1>2, <2>3, <2>4, <2>5, Zenon DEF CloseBatch
<1> QED  BY <1>1, <1>2 DEF Sync, BWs

\* The stage of Sync, and what it says of a panic.
LEMMA StageStep ==
    ASSUME TypeInv, StageInv, [Next]_vars
    PROVE  StageInv' /\ cfg' = cfg /\ (sync.result = "panic" => sync'.result = "panic")
<1>1. cfg' = cfg
  BY StepEffect DEF Grows
<1>2. ASSUME NEW failed \in BOOLEAN, SyncGoes(failed) PROVE StageInv' /\ sync.result # "panic"
  <2>1. sync.result # "panic"
    BY <1>2, SyncGoesOn DEF StageInv
  <2>2. InUse(sync'.stage) /\ sync'.result # "panic"
    BY <1>2, <2>1 DEF SyncGoes
  <2> QED  BY <1>1, <2>1, <2>2 DEF StageInv, InUse
<1>3. CASE (\E c \in Goroutines : Chain(c)) \/ (\E b \in BWs : TimerFlush(b))
  <2>1. \/ sync' = sync
        \/ sync.stage = "idle" /\ sync' = [sync EXCEPT !.stage = "workers"]
    <3>1. ASSUME NEW c \in Goroutines, Chain(c)
          PROVE  \/ sync' = sync
                 \/ sync.stage = "idle" /\ sync' = [sync EXCEPT !.stage = "workers"]
      <4>1. CASE WriteBatch(c)
        BY <4>1 DEF WriteBatch
      <4>2. CASE WriteMember(c) \/ MemberStalls(c)
        BY <4>2 DEF WriteMember, MemberStalls
      <4>3. CASE HookSyncs(c)
        BY <4>3 DEF HookSyncs
      <4>4. CASE Begin(c) \/ Stopped(c) \/ Before(c) \/ HookSyncReturns(c) \/ SerialisePanics(c) \/ After(c)
        BY <4>4 DEF Begin, Stopped, Before, HookSyncReturns, SerialisePanics, After
      <4> QED  BY <3>1, <4>1, <4>2, <4>3, <4>4 DEF Chain
    <3>2. ASSUME NEW b \in BWs, TimerFlush(b) PROVE sync' = sync
      BY <3>2 DEF TimerFlush
    <3> QED  BY <1>3, <3>1, <3>2
  <2> QED  BY <1>1, <2>1 DEF StageInv, TypeInv, TypeOK
<1>4. CASE Sync
  <2>1. \/ \E failed \in BOOLEAN : SyncGoes(failed)
        \/ sync.stage \in BWs /\ sync' = [stage |-> "done", result |-> "panic"]
        \/ sync' = sync
    BY <1>4 DEF Sync, SyncBegin, SyncWaited, CloseBatch, CloseFile, CloseNetwork, BWs
  <2> QED  BY <1>1, <1>2, <2>1 DEF StageInv
<1>5. CASE UNCHANGED vars
  BY <1>5 DEF vars, StageInv
<1> QED  BY <1>3, <1>4, <1>5 DEF Next, Finished, BWs

LEMMA StepMoves ==
    ASSUME TypeInv, PlaceInv, StageInv, [Next]_vars
    PROVE  Aside \/ \E c \in Goroutines : Moved(c)
<1>1. CASE UNCHANGED vars
  BY <1>1, UnchangedQuiet DEF vars, chainVars, Aside
<1>2. CASE alive /\ \E c \in Goroutines : Chain(c)
  BY <1>2, ChainMoved
<1>3. CASE alive /\ ((\E b \in BWs : TimerFlush(b)) \/ Sync)
  BY <1>3, TimerAside, SyncAside
<1> QED  BY <1>1, <1>2, <1>3 DEF Next, Finished, BWs

-----------------------------------------------------------------------------
(* The outputs go on to agree *)

LEMMA PlacesStay ==
    ASSUME cfg' = cfg
    PROVE  Members' = Members /\ Places' = Places
BY DEF Members, Places

\* A flush takes some of chunk to every output, the more the earlier the output.
LEMMA WrittenSets ==
    ASSUME TypeInv, NEW chunk \in Seq(Records), Written(chunk)
    PROVE  /\ \A x \in Places : /\ ToSet(Log(x)) \subseteq ToSet(Log(x)')
                                /\ ToSet(Log(x)') \subseteq ToSet(Log(x)) \cup ToSet(chunk)
           /\ SubsetInv => \A x, y \in Places : x < y => ToSet(Log(y)') \subseteq ToSet(Log(x)')
<1>1. PICK i \in 1 .. Len(Members) + 1, m \in 0 .. Len(chunk) : ToPlaces(chunk, i, m)
  BY DEF Written
<1>2. /\ Len(Members) \in Nat /\ \A x \in Places : Log(x) \in Seq(Records)
  BY PlacesType
<1> DEFINE part == SubSeq(chunk, 1, m)
<1>3. part \in Seq(Records) /\ ToSet(part) \subseteq ToSet(chunk)
  <2>1. Len(chunk) \in Nat /\ part \in Seq(Records)
    BY PartOfSeq
  <2>2. Len(part) = m /\ \A y \in 1 .. m : part[y] = chunk[y]
    OBVIOUS
  <2> HIDE DEF part
  <2>3. ASSUME NEW r \in ToSet(part) PROVE r \in ToSet(chunk)
    <3>1. PICK y \in 1 .. Len(part) : part[y] = r
      BY <2>1, InToSet
    <3>2. y \in 1 .. Len(chunk) /\ chunk[y] = r
      BY <2>1, <2>2, <3>1
    <3> QED  BY <3>2, InToSet
  <2> QED  BY <2>1, <2>3
<1>4. \A x \in Places : /\ x < i => Log(x)' = Log(x) \o chunk
                        /\ x = i => Log(x)' = Log(x) \o part
                        /\ x > i => Log(x)' = Log(x) \o <<>>
  <2>1. TAKE x \in Places
  <2>2. x \in Int /\ i \in Int
    BY <1>2 DEF Places
  <2>3. Log(x)' = Log(x) \o (IF x < i THEN chunk ELSE IF x = i THEN part ELSE <<>>)
    BY <1>1 DEF ToPlaces
  <2>4. (x = i => ~(x < i)) /\ (x > i => ~(x < i) /\ x # i)
    BY <2>2
  <2> HIDE DEF part
  <2> QED  BY <2>3, <2>4, Zenon
<1> HIDE DEF part
<1>5. \A x \in Places : /\ x < i => ToSet(Log(x)') = ToSet(Log(x)) \cup ToSet(chunk)
                        /\ x = i => ToSet(Log(x)') = ToSet(Log(x)) \cup ToSet(part)
                        /\ x > i => ToSet(Log(x)') = ToSet(Log(x))
  <2>1. \A x \in Places : /\ ToSet(Log(x) \o chunk) = ToSet(Log(x)) \cup ToSet(chunk)
                          /\ ToSet(Log(x) \o part) = ToSet(Log(x)) \cup ToSet(part)
                          /\ Log(x) \o <<>> = Log(x)
    BY <1>2, <1>3, ConcatToSet, ConcatEmpty
  <2>2. TAKE x \in Places
  <2>3. x < i => ToSet(Log(x)') = ToSet(Log(x)) \cup ToSet(chunk)
    BY <1>4, <2>1
  <2>4. x = i => ToSet(Log(x)') = ToSet(Log(x)) \cup ToSet(part)
    BY <1>4, <2>1
  <2>5. x > i => ToSet(Log(x)') = ToSet(Log(x))
    BY <1>4, <2>1
  <2> QED  BY <2>3, <2>4, <2>5
<1>6. i \in Int /\ Places \subseteq Int
  BY <1>2 DEF Places
<1>7. \A x, y \in Places : x < y => \/ y < i /\ x < i
                                    \/ y = i /\ x < i
                                    \/ y > i
  BY <1>6
<1>8. \A x \in Places : x < i \/ x = i \/ x > i
  BY <1>6
<1>9. \A x \in Places : /\ ToSet(Log(x)) \subseteq ToSet(Log(x)')
                        /\ ToSet(Log(x)') \subseteq ToSet(Log(x)) \cup ToSet(chunk)
  BY <1>3, <1>5, <1>8
<1>10. ASSUME SubsetInv, NEW x \in Places, NEW y \in Places, x < y PROVE ToSet(Log(y)') \subseteq ToSet(Log(x)')
  <2>1. ToSet(Log(y)) \subseteq ToSet(Log(x))
    BY <1>10 DEF SubsetInv
  <2> QED  BY <1>3, <1>5, <1>7, <1>9, <1>10, <2>1
<1> QED  BY <1>9, <1>10

LEMMA LogsGrow ==
    ASSUME TypeInv, PlaceInv, cfg' = cfg,
           Quiet \/ Written(Queue) \/ \E c \in Goroutines : Moved(c) /\ Rec(c) \in Records
    PROVE  \A x \in Places : ToSet(Log(x)) \subseteq ToSet(Log(x)')
<1>1. \A x \in Places : Log(x) \in Seq(Records)
  BY PlacesType
<1>2. CASE Quiet
  BY <1>2 DEF Quiet
<1>3. CASE Written(Queue)
  BY <1>3, WrittenSets, PlacesType
<1>4. ASSUME NEW c \in Goroutines, Moved(c), Rec(c) \in Records PROVE \A x \in Places : ToSet(Log(x)) \subseteq ToSet(Log(x)')
  <2>1. Append(Queue, Rec(c)) \in Seq(Records)
    BY <1>4, PlacesType
  <2>2. CASE Written(Append(Queue, Rec(c)))
    BY <2>1, <2>2, WrittenSets
  <2>3. \A x \in Places : ToSet(Append(Log(x), Rec(c))) = ToSet(Log(x)) \cup {Rec(c)}
    BY <1>1, <1>4, AppendToSet
  <2>4. CASE Writes(c)
    BY <2>3, <2>4 DEF Writes
  <2> QED  BY <1>4, <2>2, <2>4 DEF Moved, Passes, Hands, Fails, Quiet
<1> QED  BY <1>2, <1>3, <1>4

LEMMA MovedRecord ==
    ASSUME TypeInv, PlaceInv, NEW c \in Goroutines, Moved(c)
    PROVE  Passes(c) \/ (n' = n /\ Only(c) /\ ~Fresh(c)' /\ Rec(c) \in Records)
<1>1. k[c] \in Nat /\ (pc[c] # "idle" => Rec(c) \in Records)
  BY RecIsRecord DEF TypeInv, TypeOK, PlaceInv
<1>2. CASE Hands(c)
  BY <1>1, <1>2 DEF Hands, Fresh
<1>3. CASE Fails(c)
  BY <1>1, <1>3 DEF Fails, Turn, MyTurn, Fresh
<1>4. CASE Writes(c)
  <2>1. k[c] # 0
    BY DEF TypeInv, TypeOK
  <2>2. k[c] + 1 # 1
    BY <1>1, <2>1
  <2> QED  BY <1>1, <1>4, <2>2 DEF Writes, Turn, MyTurn, Fresh
<1> QED  BY <1>2, <1>3, <1>4 DEF Moved

\* Records seen after a step: those seen before, and the one of the goroutine
\* that moves.
LEMMA SeenStep ==
    ASSUME TypeInv, PlaceInv, cfg' = cfg
    PROVE  /\ Aside => Seen' \subseteq Seen
           /\ \A c \in Goroutines : Passes(c) => Seen' \subseteq Seen
           /\ \A c \in Goroutines : Moved(c) /\ ~Passes(c) => Seen' \subseteq Seen \cup {Rec(c)}
<1>1. \A r \in Seen' : r \in Records /\ (r \in ToSet(Queue') \/ \E i \in Places : r \in ToSet(Log(i)'))
  BY PlacesStay DEF Seen
<1>2. \A r \in Records : r \in ToSet(Queue) \/ (\E i \in Places : r \in ToSet(Log(i))) => r \in Seen
  BY DEF Seen
<1>3. Quiet => Seen' \subseteq Seen
  BY <1>1, <1>2 DEF Quiet
<1>4. Queue \in Seq(Records) /\ \A x \in Places : Log(x) \in Seq(Records)
  BY PlacesType
<1>5. CASE Written(Queue)
  <2>1. ToSet(Queue') \subseteq ToSet(Queue)
    BY <1>5 DEF Written
  <2>2. \A x \in Places : ToSet(Log(x)') \subseteq ToSet(Log(x)) \cup ToSet(Queue)
    BY <1>4, <1>5, WrittenSets
  <2>3. Seen' \subseteq Seen
    BY <1>1, <1>2, <2>1, <2>2
  <2> QED  BY <2>3
<1>6. Aside => Seen' \subseteq Seen
  BY <1>3, <1>5 DEF Aside
<1>7. \A c \in Goroutines : Passes(c) => Seen' \subseteq Seen
  BY <1>3 DEF Passes
<1>8. ASSUME NEW c \in Goroutines, Moved(c), ~Passes(c) PROVE Seen' \subseteq Seen \cup {Rec(c)}
  <2>1. Rec(c) \in Records
    BY <1>8, MovedRecord
  <2>2. /\ Append(Queue, Rec(c)) \in Seq(Records) /\ ToSet(Append(Queue, Rec(c))) = ToSet(Queue) \cup {Rec(c)}
        /\ \A x \in Places : ToSet(Append(Log(x), Rec(c))) = ToSet(Log(x)) \cup {Rec(c)}
    BY <1>4, <2>1, AppendToSet
  <2>3. /\ ToSet(Queue') \subseteq ToSet(Queue) \cup {Rec(c)}
        /\ \A x \in Places : ToSet(Log(x)') \subseteq ToSet(Log(x)) \cup ToSet(Queue) \cup {Rec(c)}
    <3>1. CASE Written(Append(Queue, Rec(c)))
      <4>1. ToSet(Queue') \subseteq ToSet(Append(Queue, Rec(c)))
        BY <3>1 DEF Written
      <4>2. \A x \in Places : ToSet(Log(x)') \subseteq ToSet(Log(x)) \cup ToSet(Append(Queue, Rec(c)))
        BY <2>2, <3>1, WrittenSets
      <4> QED  BY <2>2, <4>1, <4>2
    <3>2. CASE (\A x \in Places : Log(x)' = Log(x)) /\ (Queue' = Append(Queue, Rec(c)) \/ Queue' = Queue)
      BY <2>2, <3>2
    <3>3. CASE Writes(c)
      BY <2>2, <3>3 DEF Writes, Turn, MyTurn
    <3> QED  BY <1>8, <3>1, <3>2, <3>3 DEF Moved, Hands, Fails, Turn, MyTurn
  <2> QED  BY <1>1, <1>2, <2>3
<1> QED  BY <1>6, <1>7, <1>8

\* A record is new until its goroutine writes it.
LEMMA FreshStep ==
    ASSUME TypeInv, PlaceInv, FreshInv, cfg' = cfg, Aside \/ \E c \in Goroutines : Moved(c)
    PROVE  FreshInv'
<1>1. n \in [Goroutines -> Nat] /\ \A r \in Records : r[1] \in Goroutines /\ r[2] \in Nat
  BY BoundAssumption DEF TypeInv, TypeOK, Records
<1>2. CASE Aside
  <2>1. Seen' \subseteq Seen /\ UNCHANGED <<pc, k, n>>
    BY <1>2, SeenStep DEF Aside
  <2> QED  BY <2>1 DEF FreshInv, Fresh, Rec
<1>3. ASSUME NEW c \in Goroutines, Passes(c) PROVE FreshInv'
  <2>1. Seen' \subseteq Seen /\ Seen \subseteq Records /\ Only(c)
    BY <1>3, SeenStep DEF Passes, Seen
  <2>2. \A d \in Goroutines : n'[d] \in Nat /\ n'[d] >= n[d]
    BY <1>1, <1>3, <2>1 DEF Passes, Only
  <2>3. \A r \in Seen : r[2] <= n[r[1]]
    BY DEF FreshInv
  <2>4. ASSUME NEW r \in Seen' PROVE r[2] <= n'[r[1]]
    <3>1. r \in Seen /\ r[1] \in Goroutines /\ r[2] \in Nat
      BY <1>1, <2>1, <2>4
    <3>2. r[2] <= n[r[1]] /\ n[r[1]] <= n'[r[1]] /\ n[r[1]] \in Nat /\ n'[r[1]] \in Nat
      BY <1>1, <2>2, <2>3, <3>1
    <3> QED  BY <3>1, <3>2
  <2>5. ASSUME NEW d \in Goroutines, Fresh(d)', Rec(d)' \in Seen' PROVE FALSE
    <3>1. CASE Fresh(d) /\ n'[d] = n[d]
      BY <2>1, <2>5, <3>1 DEF FreshInv, Rec
    <3>2. CASE n'[d] = n[d] + 1
      <4>1. Rec(d)' = <<d, n[d] + 1>>
        BY <3>2 DEF Rec
      <4>2. <<d, n[d] + 1>> \in Seen
        BY <2>1, <2>5, <4>1
      <4>3. n[d] + 1 <= n[d]
        BY <2>3, <4>2
      <4> QED  BY <1>1, <4>3
    <3>3. d # c => Fresh(d) /\ n'[d] = n[d]
      BY <2>1, <2>5 DEF Only, Fresh
    <3> QED  BY <1>3, <2>5, <3>1, <3>2, <3>3 DEF Passes
  <2> QED  BY <2>4, <2>5, Zenon DEF FreshInv
<1>4. ASSUME NEW c \in Goroutines, Moved(c), ~Passes(c) PROVE FreshInv'
  <2>1. Seen' \subseteq Seen \cup {Rec(c)} /\ n' = n /\ Only(c) /\ ~Fresh(c)'
    BY <1>4, SeenStep, MovedRecord
  <2>2. Rec(c)[1] = c /\ Rec(c)[2] = n[c] /\ \A d \in Goroutines : Rec(d)' = Rec(d) /\ (Rec(d) = Rec(c) => d = c)
    BY <2>1 DEF Rec
  <2>3. \A r \in Seen' : r[2] <= n'[r[1]]
    BY <1>1, <2>1, <2>2 DEF FreshInv
  <2>4. ASSUME NEW d \in Goroutines, Fresh(d)' PROVE Rec(d)' \notin Seen'
    <3>1. d # c
      BY <2>1, <2>4
    <3>2. Fresh(d)
      BY <2>1, <2>4, <3>1 DEF Only, Fresh
    <3> QED  BY <2>1, <2>2, <3>1, <3>2 DEF FreshInv
  <2> QED  BY <2>3, <2>4, Zenon DEF FreshInv
<1> QED  BY <1>2, <1>3, <1>4

LEMMA PlaceStep ==
    ASSUME TypeInv, PlaceInv, cfg' = cfg, Aside \/ \E c \in Goroutines : Moved(c)
    PROVE  PlaceInv'
<1>1. \A x \in Places : ToSet(Log(x)) \subseteq ToSet(Log(x)')
  BY MovedRecord, LogsGrow DEF Aside, Passes
<1>2. Places' = Places /\ Len(Members) \in Nat /\ 1 \in Places /\ Places = 1 .. Len(Members) /\ Members' = Members
      /\ \A x \in Places : Log(x) \in Seq(Records)
  BY PlacesType, PlacesStay DEF Places
<1>3. ASSUME NEW d \in Goroutines, pc'[d] = pc[d], k'[d] = k[d], n'[d] = n[d]
      PROVE  /\ k'[d] \in Places
             /\ k'[d] # 1 => pc'[d] = "main" /\ ~cfg.async
             /\ \A i \in 1 .. k'[d] - 1 : Rec(d)' \in ToSet(Log(i)')
  <2>1. \A i \in 1 .. k[d] - 1 : i \in Places
    BY <1>2 DEF PlaceInv
  <2> QED  BY <1>1, <1>3, <2>1 DEF PlaceInv, Rec
<1>4. CASE Aside
  BY <1>2, <1>3, <1>4 DEF Aside, PlaceInv
<1>5. ASSUME NEW c \in Goroutines, Moved(c) PROVE PlaceInv'
  <2>1. Only(c)
    BY <1>5 DEF Moved, Passes, Hands, Fails, Writes, Turn
  <2>2. CASE k'[c] = 1
    BY <1>2, <1>3, <2>1, <2>2, cfg' = cfg DEF Only, PlaceInv
  <2>3. CASE Writes(c) /\ pc'[c] = "main" /\ k'[c] = k[c] + 1 /\ k[c] < Len(Members)
    <3>1. k[c] \in Places /\ k'[c] \in Places /\ ~cfg.async /\ Rec(c)' = Rec(c) /\ Rec(c) \in Records
      BY <1>2, <2>3, RecIsRecord DEF PlaceInv, Writes, Turn, MyTurn, Rec
    <3>2. ASSUME NEW i \in 1 .. k'[c] - 1 PROVE Rec(c) \in ToSet(Log(i)')
      <4>1. CASE i = k[c]
        <5>1. Log(i)' = Append(Log(i), Rec(c)) /\ Log(i) \in Seq(Records)
          BY <1>2, <2>3, <3>1, <4>1 DEF Writes
        <5> QED  BY <3>1, <5>1, AppendToSet
      <4>2. CASE i # k[c]
        <5>1. i \in 1 .. k[c] - 1 /\ i \in Places
          BY <1>2, <2>3, <3>1, <3>2, <4>2
        <5> QED  BY <1>1, <5>1 DEF PlaceInv
      <4> QED  BY <4>1, <4>2
    <3> QED  BY <1>2, <1>3, <2>1, <2>3, <3>1, <3>2, cfg' = cfg DEF Only, PlaceInv
  <2> QED  BY <1>5, <2>2, <2>3 DEF Moved, Passes, Hands, Fails, Writes
<1> QED  BY <1>4, <1>5

LEMMA SubsetStep ==
    ASSUME TypeInv, PlaceInv, SubsetInv, cfg' = cfg, Aside \/ \E c \in Goroutines : Moved(c)
    PROVE  SubsetInv'
<1>1. Places' = Places /\ Queue \in Seq(Records) /\ \A x \in Places : Log(x) \in Seq(Records)
  BY PlacesType, PlacesStay
<1>2. SUFFICES ASSUME NEW x \in Places, NEW y \in Places, x < y PROVE ToSet(Log(y)') \subseteq ToSet(Log(x)')
  BY <1>1 DEF SubsetInv
<1>3. ToSet(Log(y)) \subseteq ToSet(Log(x))
  BY <1>2 DEF SubsetInv
<1>4. CASE Log(y)' = Log(y) /\ Log(x)' = Log(x)
  BY <1>3, <1>4
<1>5. CASE Written(Queue)
  BY <1>1, <1>2, <1>5, WrittenSets
<1>6. ASSUME NEW c \in Goroutines, Moved(c), Rec(c) \in Records PROVE ToSet(Log(y)') \subseteq ToSet(Log(x)')
  <2>1. CASE Written(Append(Queue, Rec(c)))
    <3>1. Append(Queue, Rec(c)) \in Seq(Records)
      BY <1>1, <1>6
    <3> QED  BY <1>2, <2>1, <3>1, WrittenSets
  <2>2. CASE Writes(c)
    <3>1. ToSet(Append(Log(x), Rec(c))) = ToSet(Log(x)) \cup {Rec(c)} /\ ToSet(Append(Log(y), Rec(c))) = ToSet(Log(y)) \cup {Rec(c)}
      BY <1>1, <1>6, AppendToSet
    <3>2. CASE y = k[c]
      <4>1. Log(y)' = Append(Log(y), Rec(c)) /\ Log(x)' = Log(x)
        BY <1>1, <1>2, <2>2, <3>2 DEF Writes, Places
      <4>2. x \in 1 .. k[c] - 1
        BY <1>1, <1>2, <3>2, PlacesType DEF Places
      <4>3. Rec(c) \in ToSet(Log(x))
        BY <4>2 DEF PlaceInv
      <4> QED  BY <1>3, <3>1, <4>1, <4>3
    <3>3. CASE y # k[c]
      <4>1. Log(y)' = Log(y) /\ (Log(x)' = Log(x) \/ Log(x)' = Append(Log(x), Rec(c)))
        BY <2>2, <3>3 DEF Writes
      <4> QED  BY <1>3, <3>1, <4>1
    <3> QED  BY <3>2, <3>3
  <2> QED  BY <1>4, <1>6, <2>1, <2>2 DEF Moved, Passes, Hands, Fails, Quiet
<1>7. CASE Quiet
  BY <1>4, <1>7 DEF Quiet
<1>8. ASSUME NEW c \in Goroutines, Moved(c), ~Passes(c) PROVE Rec(c) \in Records
  BY <1>8, MovedRecord
<1>9. ASSUME NEW c \in Goroutines, Passes(c) PROVE ToSet(Log(y)') \subseteq ToSet(Log(x)')
  BY <1>7, <1>9 DEF Passes
<1> QED  BY <1>5, <1>6, <1>7, <1>8, <1>9 DEF Aside

\* A flush of records the outputs do not have keeps them in order.
LEMMA WrittenOrder ==
    ASSUME TypeInv, cfg' = cfg, NEW chunk \in Seq(Records), Written(chunk),
           \A x, y \in Places : Log(x) = Log(y),
           \A x \in Places : Once(Log(x) \o chunk)
    PROVE  /\ \A x, y \in Places : x < y => Prefix(Log(y)', Log(x)')
           /\ \A x \in Places : Once(Log(x)')
           /\ Healthy' /\ sync'.result # "panic" =>
                  /\ \A x, y \in Places : Log(x)' = Log(y)'
                  /\ \A x \in Places : Once(Log(x)' \o Queue')
<1>1. PICK i \in 1 .. Len(Members) + 1, m \in 0 .. Len(chunk) :
          /\ ToPlaces(chunk, i, m)
          /\ Healthy' /\ sync'.result # "panic" => i = Len(Members) + 1 /\ Queue' = <<>>
  BY DEF Written
<1> DEFINE t == Log(1)
           part == SubSeq(chunk, 1, m)
<1>2. 1 \in Places /\ t \in Seq(Records) /\ (\A x \in Places : Log(x) = t) /\ Once(t \o chunk) /\ Len(Members) \in Nat
  BY PlacesType
<1>3. part \in Seq(Records)
  <2>1. Len(chunk) \in Nat
    OBVIOUS
  <2> QED  BY <2>1, PartOfSeq
<1>4. \A x \in Places : Log(x)' = t \o (IF x < i THEN chunk ELSE IF x = i THEN part ELSE <<>>)
  BY <1>1, <1>2, Zenon DEF ToPlaces
<1>5. Prefix(t, t \o chunk) /\ Prefix(t \o chunk, t \o chunk) /\ Prefix(t, t \o part) /\ Prefix(t, t) /\ Prefix(t \o part, t \o chunk)
      /\ t \o <<>> = t
  BY <1>2, PrefixConcat, ConcatEmpty
<1>6. \A x, y \in Places : x < y => \/ x < i /\ y < i
                                    \/ x < i /\ y = i /\ ~(y < i)
                                    \/ x < i /\ y # i /\ ~(y < i)
                                    \/ x = i /\ ~(x < i) /\ y # i /\ ~(y < i)
                                    \/ x # i /\ ~(x < i) /\ y # i /\ ~(y < i)
  BY <1>2 DEF Places
<1> HIDE DEF t, part
<1>7. \A x, y \in Places : x < y => Prefix(Log(y)', Log(x)')
  <2> SUFFICES ASSUME NEW x \in Places, NEW y \in Places, x < y PROVE Prefix(Log(y)', Log(x)')
    OBVIOUS
  <2> DEFINE share(z) == IF z < i THEN chunk ELSE IF z = i THEN part ELSE <<>>
  <2>1. Prefix(t \o share(y), t \o share(x))
    BY <1>5, <1>6, Zenon
  <2> QED  BY <1>4, <2>1
<1>8. \A x \in Places : Once(Log(x)')
  <2>1. t \o chunk \in Seq(Records) /\ t \o part \in Seq(Records) /\ t \in Seq(Records)
    BY <1>2, <1>3
  <2>2. Once(t \o chunk) /\ Once(t \o part) /\ Once(t)
    BY <1>2, <1>5, <2>1, PrefixOnce
  <2>3. TAKE x \in Places
  <2>4. Once(t \o (IF x < i THEN chunk ELSE IF x = i THEN part ELSE <<>>))
    BY <1>5, <2>2, Zenon
  <2> QED  BY <1>4, <2>4
<1>9. ASSUME Healthy', sync'.result # "panic"
      PROVE  (\A x, y \in Places : Log(x)' = Log(y)') /\ \A x \in Places : Once(Log(x)' \o Queue')
  <2>1. i = Len(Members) + 1 /\ Queue' = <<>>
    BY <1>1, <1>9
  <2>2. \A x \in Places : x < i
    BY <1>2, <2>1 DEF Places
  <2>3. \A x \in Places : Log(x)' = t \o chunk
    BY <1>4, <2>2, Zenon
  <2>4. (t \o chunk) \o <<>> = t \o chunk
    <3>1. t \o chunk \in Seq(Records)
      BY <1>2
    <3> QED  BY <3>1, ConcatEmpty
  <2> QED  BY <1>2, <2>1, <2>3, <2>4
<1> QED  BY <1>7, <1>8, <1>9

LEMMA BatchStep ==
    ASSUME TypeInv, TypeInv', PlaceInv, FreshInv, BatchInv, cfg' = cfg, sync.result = "panic" => sync'.result = "panic",
           Aside \/ \E c \in Goroutines : Moved(c)
    PROVE  BatchInv'
<1>1. Places' = Places /\ Queue \in Seq(Records) /\ \A x \in Places : Log(x) \in Seq(Records)
  BY PlacesType, PlacesStay
<1>2. SUFFICES ASSUME cfg.async, sync'.result # "panic"
               PROVE  /\ \A x, y \in Places : x < y => Prefix(Log(y)', Log(x)')
                      /\ \A x \in Places : Once(Log(x)')
                      /\ Healthy' => /\ \A x, y \in Places : Log(x)' = Log(y)'
                                     /\ \A x \in Places : Once(Log(x)' \o Queue')
  BY <1>1, Zenon DEF BatchInv
<1>3. /\ \A x, y \in Places : x < y => Prefix(Log(y), Log(x))
      /\ \A x \in Places : Once(Log(x))
      /\ Healthy => /\ \A x, y \in Places : Log(x) = Log(y)
                    /\ \A x \in Places : Once(Log(x) \o Queue)
  BY <1>2, Zenon DEF BatchInv
<1>4. CASE Quiet
  BY <1>3, <1>4 DEF Quiet
<1>5. CASE Healthy /\ Written(Queue)
  BY <1>1, <1>2, <1>3, <1>5, WrittenOrder
<1>6. ASSUME NEW c \in Goroutines, Hands(c)
      PROVE  /\ \A x, y \in Places : x < y => Prefix(Log(y)', Log(x)')
             /\ \A x \in Places : Once(Log(x)')
             /\ Healthy' => /\ \A x, y \in Places : Log(x)' = Log(y)'
                            /\ \A x \in Places : Once(Log(x)' \o Queue')
  <2> DEFINE chunk == Append(Queue, Rec(c))
  <2>1. Rec(c) \in Records /\ Rec(c) \notin Seen /\ Healthy
    BY <1>6, RecIsRecord DEF Hands, Fresh, FreshInv
  <2>2. chunk \in Seq(Records)
    BY <1>1, <2>1
  <2>3. ASSUME NEW x \in Places PROVE Once(Log(x) \o chunk)
    <3>1. Rec(c) \notin ToSet(Log(x)) \cup ToSet(Queue)
      BY <2>1 DEF Seen
    <3>2. ToSet(Log(x) \o Queue) = ToSet(Log(x)) \cup ToSet(Queue) /\ Log(x) \o Queue \in Seq(Records)
      BY <1>1, ConcatToSet
    <3>3. Once(Append(Log(x) \o Queue, Rec(c)))
      BY <1>3, <2>1, <3>1, <3>2, AppendOnce
    <3>4. Log(x) \o chunk = Append(Log(x) \o Queue, Rec(c))
      BY <1>1, <2>1, ConcatAppend
    <3> QED  BY <3>3, <3>4
  <2> HIDE DEF chunk
  <2>4. CASE Written(chunk)
    BY <1>2, <1>3, <2>1, <2>2, <2>3, <2>4, WrittenOrder
  <2>5. CASE (\A x \in Places : Log(x)' = Log(x)) /\ Queue' = chunk
    BY <1>3, <2>1, <2>3, <2>5
  <2> QED  BY <1>6, <2>4, <2>5 DEF Hands, chunk
<1>7. \A c \in Goroutines : ~Fails(c) /\ ~Writes(c)
  BY <1>2 DEF Fails, Writes, Turn, MyTurn
<1> QED  BY <1>4, <1>5, <1>6, <1>7 DEF Aside, Moved, Passes

LEMMA TextStep ==
    ASSUME TypeInv, TypeInv', PlaceInv, FreshInv, SubsetInv, TextInv, cfg' = cfg, Aside \/ \E c \in Goroutines : Moved(c)
    PROVE  TextInv'
<1>1. /\ Places' = Places /\ Places = 1 .. Len(Members) /\ Len(Members) \in Nat /\ Members' = Members
      /\ \A x \in Places : Log(x) \in Seq(Records)
      /\ Nobody \notin Goroutines /\ k \in [Goroutines -> Nat \ {0}]
  BY PlacesType, PlacesStay, GoroutineAssumption DEF Places, TypeInv, TypeOK
<1>2. SUFFICES ASSUME ~cfg.async, cfg.format = "text"
               PROVE  /\ \A i, j \in Places : i < j => Thins(Log(j)', Log(i)')
                      /\ \A c \in Goroutines : k'[c] # 1 => textMu' = c
                      /\ \A c \in Goroutines : textMu' = c => pc'[c] = "main" /\ Holds(c)'
  BY <1>1, Zenon DEF TextInv
<1>3. /\ \A i, j \in Places : i < j => Thins(Log(j), Log(i))
      /\ \A c \in Goroutines : k[c] # 1 => textMu = c
      /\ \A c \in Goroutines : textMu = c => pc[c] = "main" /\ Holds(c)
  BY <1>2, Zenon DEF TextInv
<1>4. \A c \in Goroutines : k[c] \in Places
  BY DEF PlaceInv
<1>5. ASSUME NEW d \in Goroutines, pc'[d] = pc[d], k'[d] = k[d], n'[d] = n[d],
             \A x \in Places : Log(x)' = Log(x), Holds(d)
      PROVE  Holds(d)'
  <2>1. \A i \in 1 .. k[d] - 1 : i \in Places
    BY <1>1, <1>4
  <2>2. \A i \in k[d] .. Len(Members) : i \in Places
    BY <1>1, <1>4
  <2> QED  BY <1>1, <1>5, <2>1, <2>2 DEF Holds, Rec
<1>6. CASE Aside
  <2>1. UNCHANGED <<pc, k, n>> /\ \A x \in Places : Log(x)' = Log(x)
    BY <1>2, <1>6 DEF Aside, Quiet
  <2>2. CASE textMu' = textMu
    BY <1>3, <1>5, <2>1, <2>2
  <2>3. ASSUME NEW c \in Goroutines, Waits(c)
        PROVE  /\ textMu' = c /\ pc[c] = "main" /\ Holds(c)
               /\ \A d \in Goroutines : k[d] # 1 => d = c
    <3>1. textMu' = c /\ pc[c] = "main" /\ (textMu = c \/ (k[c] = 1 /\ textMu = Nobody))
      BY <1>2, <2>3 DEF Waits, MyTurn
    <3>2. CASE textMu = c
      BY <1>3, <3>1, <3>2
    <3>3. CASE k[c] = 1 /\ textMu = Nobody
      <4>1. Rec(c) \notin Seen /\ Rec(c) \in Records
        BY <3>1, <3>3, RecIsRecord DEF FreshInv, Fresh
      <4>2. \A x \in Places : Rec(c) \notin ToSet(Log(x))
        BY <4>1 DEF Seen
      <4>3. Holds(c)
        BY <1>1, <3>3, <4>2 DEF Holds
      <4> QED  BY <1>1, <1>3, <3>1, <3>3, <4>3
    <3> QED  BY <3>1, <3>2, <3>3
  <2>4. ASSUME NEW c \in Goroutines, Waits(c)
        PROVE  /\ \A i, j \in Places : i < j => Thins(Log(j)', Log(i)')
               /\ \A d \in Goroutines : k'[d] # 1 => textMu' = d
               /\ \A d \in Goroutines : textMu' = d => pc'[d] = "main" /\ Holds(d)'
    BY <1>3, <1>5, <2>1, <2>3, <2>4
  <2> QED  BY <1>6, <2>2, <2>4 DEF Aside
<1>7. ASSUME NEW c \in Goroutines, Passes(c)
      PROVE  /\ \A i, j \in Places : i < j => Thins(Log(j)', Log(i)')
             /\ \A d \in Goroutines : k'[d] # 1 => textMu' = d
             /\ \A d \in Goroutines : textMu' = d => pc'[d] = "main" /\ Holds(d)'
  <2>1. /\ Only(c) /\ textMu' = textMu /\ k[c] = 1 /\ k'[c] = 1 /\ \A x \in Places : Log(x)' = Log(x)
        /\ pc[c] # "main"
    BY <1>2, <1>7 DEF Passes, Quiet
  <2>2. textMu # c
    BY <1>3, <2>1
  <2> QED  BY <1>3, <1>5, <2>1, <2>2 DEF Only
<1>8. \A c \in Goroutines : ~Hands(c)
  BY <1>2 DEF Hands
<1>9. ASSUME NEW c \in Goroutines, Turn(c)
      PROVE  /\ Only(c) /\ textMu' = (IF pc'[c] = "main" THEN c ELSE Nobody)
             /\ \A d \in Goroutines : d # c => textMu # d /\ k[d] = 1 /\ k'[d] = 1 /\ textMu' # d
  BY <1>1, <1>2, <1>3, <1>9 DEF Turn, MyTurn, TextMuNext, Only
<1>10. ASSUME NEW c \in Goroutines, Fails(c)
       PROVE  /\ \A i, j \in Places : i < j => Thins(Log(j)', Log(i)')
              /\ \A d \in Goroutines : k'[d] # 1 => textMu' = d
              /\ \A d \in Goroutines : textMu' = d => pc'[d] = "main" /\ Holds(d)'
  <2>1. k'[c] = 1 /\ pc'[c] # "main" /\ Turn(c) /\ \A x \in Places : Log(x)' = Log(x)
    BY <1>10 DEF Fails
  <2> QED  BY <1>1, <1>3, <1>9, <2>1
<1>11. ASSUME NEW c \in Goroutines, Writes(c)
       PROVE  /\ \A i, j \in Places : i < j => Thins(Log(j)', Log(i)')
              /\ \A d \in Goroutines : k'[d] # 1 => textMu' = d
              /\ \A d \in Goroutines : textMu' = d => pc'[d] = "main" /\ Holds(d)'
  <2> DEFINE r == Rec(c)
             at == k[c]
  <2>1. Turn(c) /\ at \in Places /\ r \in Records /\ \A x \in Places : Log(x)' = IF x = at THEN Append(Log(x), r) ELSE Log(x)
    BY <1>4, <1>11, RecIsRecord DEF Writes, Turn, MyTurn
  <2>2. /\ \A j \in at .. Len(Members) : r \notin ToSet(Log(j))
        /\ \A i \in 1 .. at - 1 : Log(i) # <<>> /\ Log(i)[Len(Log(i))] = r
    <3>1. CASE k[c] = 1
      <4>1. r \notin Seen /\ r \in Records
        BY <2>1, <3>1 DEF FreshInv, Fresh, Turn, MyTurn
      <4>2. \A j \in Places : r \notin ToSet(Log(j))
        BY <4>1 DEF Seen
      <4> QED  BY <1>1, <3>1, <4>2
    <3>2. CASE k[c] # 1
      BY <1>3, <3>2 DEF Holds
    <3> QED  BY <3>1, <3>2
  <2> HIDE DEF r, at
  <2>3. at \in Int /\ Places \subseteq Int
    BY <1>1, <2>1
  <2>4. ASSUME NEW i \in Places, NEW j \in Places, i < j PROVE Thins(Log(j)', Log(i)')
    <3>1. Thins(Log(j), Log(i)) /\ Log(i) \in Seq(Records) /\ Log(j) \in Seq(Records)
      BY <1>1, <1>3, <2>4
    <3>2. CASE i = at
      <4>1. Log(i)' = Append(Log(i), r) /\ Log(j)' = Log(j)
        BY <2>1, <2>3, <2>4, <3>2
      <4>2. r \notin ToSet(Log(i))
        BY <1>1, <2>2, <3>2
      <4>3. Thins(Log(j), Append(Log(i), r))
        BY <2>1, <3>1, <4>2, ThinsLonger
      <4> QED  BY <4>1, <4>3
    <3>3. CASE j = at
      <4>1. Log(j)' = Append(Log(j), r) /\ Log(i)' = Log(i)
        BY <2>1, <2>3, <2>4, <3>3
      <4>2. r \notin ToSet(Log(j)) /\ Log(i) # <<>> /\ Log(i)[Len(Log(i))] = r
        BY <1>1, <2>2, <2>3, <2>4, <3>3
      <4>3. Thins(Append(Log(j), r), Log(i))
        BY <2>1, <3>1, <4>2, ThinsShorter
      <4> QED  BY <4>1, <4>3
    <3>4. CASE i # at /\ j # at
      BY <2>1, <3>1, <3>4
    <3> QED  BY <3>2, <3>3, <3>4
  <2>5. CASE pc'[c] # "main" /\ k'[c] = 1
    BY <1>1, <1>9, <2>1, <2>4, <2>5
  <2>6. CASE pc'[c] = "main" /\ k'[c] = at + 1 /\ at < Len(Members)
    <3>1. Rec(c)' = r
      BY <2>1 DEF Turn, Rec, r
    <3>3. ASSUME NEW i \in 1 .. k'[c] - 1 PROVE Log(i)' # <<>> /\ Log(i)'[Len(Log(i)')] = r
      <4>1. i \in Places /\ (i = at \/ i \in 1 .. at - 1)
        BY <1>1, <2>1, <2>6, <3>3
      <4>2. CASE i = at
        <5>1. Log(i)' = Append(Log(i), r) /\ Log(i) \in Seq(Records)
          BY <1>1, <2>1, <4>1, <4>2
        <5> QED  BY <2>1, <5>1
      <4>3. CASE i # at
        <5>1. Log(i)' = Log(i)
          BY <2>1, <4>1, <4>3
        <5> QED  BY <2>2, <4>1, <4>3, <5>1
      <4> QED  BY <4>2, <4>3
    <3>4. ASSUME NEW j \in k'[c] .. Len(Members) PROVE r \notin ToSet(Log(j)')
      <4>1. j \in Places /\ j # at /\ j \in at .. Len(Members)
        BY <1>1, <2>1, <2>6, <3>4
      <4>2. Log(j)' = Log(j)
        BY <2>1, <4>1
      <4> QED  BY <2>2, <4>1, <4>2
    <3>5. Holds(c)'
      BY <1>1, <3>1, <3>3, <3>4 DEF Holds
    <3> QED  BY <1>1, <1>9, <2>1, <2>4, <2>6, <3>5
  <2> QED  BY <1>11, <2>5, <2>6 DEF Writes, at
<1> QED  BY <1>6, <1>7, <1>8, <1>10, <1>11 DEF Moved

LEMMA OrderInit == Init => OrderInv
<1> SUFFICES ASSUME Init PROVE OrderInv
  OBVIOUS
<1>1. TypeInv
  BY InitType
<1>2. /\ Places = 1 .. Len(Members) /\ Len(Members) \in Nat /\ 1 \in Places
      /\ \A x \in Places : Members[x] \in Outputs
  BY <1>1, PlacesType DEF Places
<1>3. Queue = <<>> /\ \A x \in Places : Log(x) = <<>>
  <2>1. bw["main"] = [buf |-> <<>>, err |-> FALSE, closed |-> FALSE, locked |-> FALSE]
    BY DEF Init
  <2>2. Queue = <<>>
    BY <2>1 DEF Queue
  <2> QED  BY <1>2, <2>2, Zenon DEF Init, Log
<1>4. Seen = {}
  BY <1>3, EmptyToSet DEF Seen
<1>5. \A c \in Goroutines : pc[c] = "idle" /\ k[c] = 1 /\ textMu # c
  BY GoroutineAssumption DEF Init
<1>6. <<>> \in Seq(Records) /\ Len(<<>>) = 0 /\ <<>> \o <<>> = <<>>
  <2>1. <<>> \in Seq(Records)
    OBVIOUS
  <2>2. \A s \in Seq(Records) : s = <<>> => Len(s) = 0
    OBVIOUS
  <2> QED  BY <2>1, <2>2, ConcatEmpty
<1>7. Once(<<>>)
  <2>1. \A s \in Seq(Records) : Len(s) = 0 => \A i, j \in 1 .. Len(s) : s[i] = s[j] => i = j
    OBVIOUS
  <2>2. \A s \in Seq(Records) : Len(s) = 0 => Once(s)
    BY <2>1, OnceMeans
  <2> QED  BY <1>6, <2>2, Zenon
<1>8. Prefix(<<>>, <<>>)
  BY <1>6 DEF Prefix
<1>9. Thins(<<>>, <<>>)
  BY <1>6, <1>7, <1>8, PrefixThins
<1>10. FreshInv /\ PlaceInv
  BY <1>2, <1>4, <1>5 DEF FreshInv, PlaceInv, Fresh
<1>11. StageInv /\ SubsetInv
  BY <1>3 DEF Init, StageInv, SubsetInv
<1>12. BatchInv /\ TextInv
  BY <1>3, <1>5, <1>6, <1>7, <1>8, <1>9 DEF BatchInv, TextInv
<1> QED  BY <1>10, <1>11, <1>12 DEF OrderInv

LEMMA OrderNext == TypeInv /\ OrderInv /\ [Next]_vars => OrderInv'
<1> SUFFICES ASSUME TypeInv, OrderInv, [Next]_vars PROVE OrderInv'
  OBVIOUS
<1>1. TypeInv' /\ FreshInv /\ PlaceInv /\ StageInv /\ SubsetInv /\ BatchInv /\ TextInv
  BY StepEffect DEF OrderInv
<1>2. StageInv' /\ cfg' = cfg /\ (sync.result = "panic" => sync'.result = "panic")
  BY <1>1, StageStep
<1>3. Aside \/ \E c \in Goroutines : Moved(c)
  BY <1>1, StepMoves
<1>4. FreshInv' /\ PlaceInv'
  BY <1>1, <1>2, <1>3, FreshStep, PlaceStep
<1>5. SubsetInv'
  BY <1>1, <1>2, <1>3, SubsetStep
<1>6. BatchInv'
  BY <1>1, <1>2, <1>3, BatchStep
<1>7. TextInv'
  BY <1>1, <1>2, <1>3, TextStep
<1> QED  BY <1>2, <1>4, <1>5, <1>6, <1>7 DEF OrderInv

LEMMA InOrder == TypeInv /\ OrderInv => OutputsAgree
<1> SUFFICES ASSUME TypeInv, OrderInv, NEW i \in 1 .. Len(Members), NEW j \in 1 .. Len(Members), i < j
             PROVE  /\ ToSet(Log(j)) \subseteq ToSet(Log(i))
                    /\ (cfg.async \/ cfg.format = "text") /\ sync.result # "panic" => Thins(Log(j), Log(i))
  BY DEF OutputsAgree, Log
<1>1. i \in Places /\ j \in Places /\ Log(i) \in Seq(Records) /\ Log(j) \in Seq(Records)
  BY PlacesType DEF Places
<1>2. ToSet(Log(j)) \subseteq ToSet(Log(i))
  BY <1>1 DEF OrderInv, SubsetInv
<1>3. ASSUME cfg.async, sync.result # "panic" PROVE Thins(Log(j), Log(i))
  <2>1. Prefix(Log(j), Log(i)) /\ Once(Log(i))
    BY <1>1, <1>3 DEF OrderInv, BatchInv
  <2> QED  BY <1>1, <2>1, PrefixThins
<1>4. ASSUME ~cfg.async, cfg.format = "text" PROVE Thins(Log(j), Log(i))
  BY <1>1, <1>4 DEF OrderInv, TextInv
<1> QED  BY <1>2, <1>3, <1>4

\* OutputsAgree: a later output behind io.MultiWriter has no record that an
\* earlier one lacks, and where writes are serialised it has them in the order
\* of the earlier one (logger.go:400, 907).
THEOREM OutputsAgreeCorrect == Spec => []OutputsAgree
<1>1. Init => TypeInv /\ OrderInv
  BY InitType, OrderInit
<1>2. TypeInv /\ OrderInv /\ [Next]_vars => (TypeInv /\ OrderInv)'
  BY StepEffect, OrderNext
<1> QED  BY <1>1, <1>2, InOrder, PTL DEF Spec

=============================================================================
