--------------------------- MODULE FileWriterProofs ---------------------------
(***************************************************************************)
(* Proofs about FileWriter, for every configuration, size of Writes,       *)
(* directory and number of Writes, failures, restarts and ticks: its       *)
(* types, that the size it keeps is the file's and bounds it, that nothing *)
(* is overwritten, that the oldest go first, and how many backups remain.  *)
(*                                                                         *)
(* The directory changes in five ways: it stays, the active file is        *)
(* opened, renamed or appended to, or cleanup removes files.  The first    *)
(* section says what each does; the others show that each keeps their      *)
(* invariant.                                                              *)
(***************************************************************************)
EXTENDS FileWriter, TLAPS, FiniteSetTheorems, SequenceTheorems

LEMMA Bounds == MaxWrites \in Nat /\ MaxClock \in Nat /\ MaxFaults \in Nat /\ MaxRestarts \in Nat
  BY BoundAssumption

LEMMA OpenedIs ==
    ASSUME TypeOK
    PROVE  /\ DOMAIN Opened = DOMAIN files \cup {Base} /\ Base \in Names
           /\ \A f \in DOMAIN files : Opened[f] = files[f]
           /\ ~Exists(Base) => Opened[Base] = Empty
           /\ Empty \in File /\ \A f \in DOMAIN Opened : Opened[f] \in File
<1>1. Empty \in File
  BY DEF Empty, File, Content, TypeOK
<1>2. CASE Exists(Base)
  BY <1>1, <1>2 DEF Opened, Exists, Names, TypeOK
<1>3. CASE ~Exists(Base)
  BY <1>1, <1>3 DEF Opened, Exists, Names, TypeOK
<1> QED  BY <1>1, <1>2, <1>3

LEMMA RenamedIs ==
    ASSUME TypeOK, Exists(Base), NEW name \in Backups, FirstFree(name)
    PROVE  /\ DOMAIN Renamed(name) = (DOMAIN files \ {Base}) \cup {name}
           /\ name \notin DOMAIN files /\ name # Base /\ name \notin Foreign /\ name \in Names
           /\ Renamed(name)[name] = files[Base]
           /\ \A f \in DOMAIN files \ {Base} : Renamed(name)[f] = files[f]
  BY NamesAssumption DEF Renamed, FirstFree, Exists, Names

LEMMA WithoutIs ==
    ASSUME TypeOK, NEW fs
    PROVE  /\ DOMAIN Without(fs) = DOMAIN files \ fs
           /\ \A f \in DOMAIN files \ fs : Without(fs)[f] = files[f]
  BY DEF Without, Restrict

\* What a Write puts into the active file.
Appended(k) == [files EXCEPT ![Base].data = @ \o [i \in 1 .. k |-> writes], ![Base].mtime = clock]

LEMMA AppendedIs ==
    ASSUME TypeOK, Exists(Base), writes \in 1 .. MaxWrites, NEW k \in Nat \ {0}
    PROVE  /\ DOMAIN Appended(k) = DOMAIN files
           /\ \A f \in DOMAIN files \ {Base} : Appended(k)[f] = files[f]
           /\ Appended(k)[Base] = [data |-> files[Base].data \o [i \in 1 .. k |-> writes], mtime |-> clock]
           /\ [i \in 1 .. k |-> writes] \in Content /\ Len([i \in 1 .. k |-> writes]) = k
           /\ Len(Appended(k)[Base].data) = Len(files[Base].data) + k
           /\ Appended(k)[Base] \in File
<1> DEFINE added == [i \in 1 .. k |-> writes]
<1>1. added \in Seq(1 .. MaxWrites) /\ Len(added) = k
  OBVIOUS
<1>2. files[Base] \in File /\ clock \in 0 .. MaxClock
  BY DEF TypeOK, Exists
<1> HIDE DEF added
<1>3. files[Base].data \o added \in Seq(1 .. MaxWrites)
  BY <1>1, <1>2 DEF File, Content
<1>4. Appended(k) = [files EXCEPT ![Base].data = @ \o added, ![Base].mtime = clock]
  BY DEF Appended, added
<1>5. Appended(k)[Base] = [data |-> files[Base].data \o added, mtime |-> clock]
  BY <1>2, <1>4 DEF File, Exists
<1>6. DOMAIN Appended(k) = DOMAIN files /\ \A f \in DOMAIN files \ {Base} : Appended(k)[f] = files[f]
  BY <1>4
<1>7. Appended(k)[Base] \in File
  BY <1>2, <1>3, <1>5 DEF File, Content
<1>8. Len(Appended(k)[Base].data) = Len(files[Base].data) + k
  <2>1. files[Base].data \in Seq(1 .. MaxWrites)
    BY <1>2 DEF File, Content
  <2>2. Len(files[Base].data \o added) = Len(files[Base].data) + k
    BY <1>1, <2>1, ConcatProperties
  <2> QED  BY <1>5, <2>2
<1> QED  BY <1>1, <1>5, <1>6, <1>7, <1>8 DEF Content, added

-----------------------------------------------------------------------------
(* What cleanup removes *)

LEMMA NamesFinite == \A S \in SUBSET Names : IsFiniteSet(S) /\ Cardinality(S) \in Nat
<1>1. IsFiniteSet(0 .. MaxClock) /\ IsFiniteSet(0 .. MaxWrites)
  BY Bounds, FS_Interval
<1>2. IsFiniteSet(Backups)
  BY <1>1, FS_Product DEF Backups
<1>3. IsFiniteSet({Base} \cup Backups)
  BY <1>2, FS_Singleton, FS_Union
<1>4. IsFiniteSet(Names)
  BY <1>3, NamesAssumption, FS_Union DEF Names
<1> QED  BY <1>4, FS_Subset, FS_CardinalityType

LEMMA MatchesFinite == ASSUME TypeOK PROVE IsFiniteSet(Matches)
  BY NamesFinite DEF Matches, TypeOK

\* If a backup is beyond MaxBackups, so is each that was modified before it.
LEMMA ExcessIsOldest ==
    ASSUME TypeOK, NEW seen \in SUBSET Matches, NEW e \in Excess(seen), NEW f \in seen,
           files[f].mtime < files[e].mtime
    PROVE  f \in Excess(seen)
<1> DEFINE After(x) == {g \in seen : SortedBefore(x, g)}
<1>1. cfg.MaxBackups # 0 /\ e \in seen /\ Cardinality(After(e)) >= cfg.MaxBackups
  BY DEF Excess
<1>2. \A g \in seen : files[g].mtime \in Int
  BY DEF TypeOK, File, Matches
<1>3. After(e) \subseteq After(f)
  BY <1>1, <1>2 DEF SortedBefore
<1>4. IsFiniteSet(After(e)) /\ IsFiniteSet(After(f))
  <2>1. After(e) \in SUBSET Matches /\ After(f) \in SUBSET Matches
    OBVIOUS
  <2> QED  BY <2>1, MatchesFinite, FS_Subset
<1>5. Cardinality(After(e)) <= Cardinality(After(f))
  BY <1>3, <1>4, FS_Subset
<1>6. Cardinality(After(e)) \in Nat /\ Cardinality(After(f)) \in Nat /\ cfg.MaxBackups \in Nat
  BY <1>4, FS_CardinalityType, ConfigAssumption DEF TypeOK
<1>7. Cardinality(After(f)) >= cfg.MaxBackups
  BY <1>1, <1>5, <1>6
<1> QED  BY <1>1, <1>7 DEF Excess

\* By number or by age, the doomed are the oldest of the files seen.
LEMMA DoomedIsOldest ==
    ASSUME TypeOK, NEW unseen \in SUBSET Matches
    PROVE  /\ Doomed(unseen) \subseteq Matches \ unseen
           /\ \A e \in Doomed(unseen), f \in Matches \ (unseen \cup Doomed(unseen)) : files[e].mtime <= files[f].mtime
<1> DEFINE seen == Matches \ unseen
<1>1. seen \in SUBSET Matches /\ Doomed(unseen) = Excess(seen) \cup TooOld(seen)
  BY DEF Doomed
<1>2. Excess(seen) \subseteq seen /\ TooOld(seen) \subseteq seen
  BY DEF Excess, TooOld
<1>3. \A f \in seen : files[f].mtime \in Nat
  BY Bounds DEF TypeOK, File, Matches
<1>4. ASSUME NEW e \in Doomed(unseen), NEW f \in seen \ Doomed(unseen) PROVE files[e].mtime <= files[f].mtime
  <2> HIDE DEF seen
  <2>1. CASE e \in Excess(seen)
    <3>1. ~(files[f].mtime < files[e].mtime)
      BY <1>1, <1>4, <2>1, ExcessIsOldest
    <3> QED  BY <1>1, <1>2, <1>3, <1>4, <3>1
  <2>2. CASE e \in TooOld(seen)
    <3>1. f \in seen /\ f \notin TooOld(seen)
      BY <1>1, <1>4
    <3>2. clock \in Nat /\ cfg.MaxAge \in Nat
      BY Bounds, ConfigAssumption DEF TypeOK
    <3> QED  BY <1>2, <1>3, <2>2, <3>1, <3>2 DEF TooOld
  <2> QED  BY <1>1, <1>4, <2>1, <2>2
<1> QED  BY <1>1, <1>2, <1>4

\* What a cleanup removes is no younger than what it leaves, but for the files
\* it failed at.
Removes(gone, left) ==
    /\ Remove(gone, left)
    /\ gone \subseteq Matches /\ left \subseteq Matches
    /\ \A f \in gone, g \in Matches \ (gone \cup left) : files[f].mtime <= files[g].mtime

LEMMA RemovalsAre ==
    ASSUME TypeOK, RemoveAll \/ RemoveSome
    PROVE  \E gone, left : Removes(gone, left)
<1>1. ASSUME NEW unseen \in SUBSET Matches, NEW kept \in SUBSET Doomed(unseen), Remove(Doomed(unseen) \ kept, unseen \cup kept)
      PROVE  \E gone, left : Removes(gone, left)
  <2>1. Removes(Doomed(unseen) \ kept, unseen \cup kept)
    BY <1>1, DoomedIsOldest DEF Removes
  <2> QED  BY <2>1
<1>2. ASSUME NEW unseen \in SUBSET Matches, NEW f \in Doomed(unseen), NEW kept \in SUBSET Before(f, unseen),
             Remove(Before(f, unseen) \ kept, unseen \cup kept)
      PROVE  \E gone, left : Removes(gone, left)
  <2>1. Before(f, unseen) \subseteq Doomed(unseen) /\ Doomed(unseen) \subseteq Matches
    BY DoomedIsOldest DEF Before
  <2>2. ASSUME NEW e \in Before(f, unseen), NEW g \in Matches \ (unseen \cup Before(f, unseen))
        PROVE  files[e].mtime <= files[g].mtime
    <3>1. CASE g \notin Doomed(unseen)
      BY <2>1, <2>2, <3>1, DoomedIsOldest
    <3>2. CASE g \in Doomed(unseen)
      <4>1. SortedBefore(e, f) /\ ~SortedBefore(g, f)
        BY <2>2, <3>2 DEF Before
      <4>2. files[e].mtime \in Nat /\ files[f].mtime \in Nat /\ files[g].mtime \in Nat
        BY <2>1, <2>2, Bounds DEF TypeOK, File, Matches
      <4> QED  BY <4>1, <4>2 DEF SortedBefore
    <3> QED  BY <3>1, <3>2
  <2>3. Removes(Before(f, unseen) \ kept, unseen \cup kept)
    BY <1>2, <2>1, <2>2 DEF Removes
  <2> QED  BY <2>3
<1> QED  BY <1>1, <1>2 DEF RemoveAll, RemoveSome

LEMMA RemovesType ==
    ASSUME TypeOK, NEW gone, NEW left, Removes(gone, left)
    PROVE  /\ DOMAIN files' = DOMAIN files \ gone /\ \A f \in DOMAIN files' : files'[f] = files[f]
           /\ Base \in DOMAIN files => Base \in DOMAIN files'
           /\ gone \subseteq DOMAIN files /\ expired' = expired \cup {files[f] : f \in gone}
           /\ expired' \subseteq File /\ spared' \subseteq Matches'
           /\ faults' \in 0 .. MaxFaults /\ faults <= faults'
<1>1. /\ files' = Without(gone) /\ expired' = expired \cup {files[f] : f \in gone}
      /\ spared' = (spared \cup left) \ gone
  BY DEF Removes, Remove
<1>2. gone \subseteq DOMAIN files \ {Base} /\ left \subseteq DOMAIN files
  BY DEF Removes, Matches
<1>3. DOMAIN files' = DOMAIN files \ gone /\ \A f \in DOMAIN files \ gone : files'[f] = files[f]
  BY <1>1, WithoutIs
<1>4. expired' \subseteq File /\ spared' \subseteq Matches'
  <2>1. expired \subseteq File /\ \A f \in gone : files[f] \in File
    BY <1>2 DEF TypeOK
  <2>2. spared \subseteq DOMAIN files \ {Base}
    BY DEF TypeOK, Matches
  <2>3. left \subseteq DOMAIN files \ {Base}
    BY DEF Removes, Matches
  <2>4. Matches' = DOMAIN files' \ {Base}
    BY DEF Matches
  <2> QED  BY <1>1, <1>3, <2>1, <2>2, <2>3, <2>4
<1>5. faults' \in 0 .. MaxFaults /\ faults <= faults'
  <2>1. left \in SUBSET Names
    BY <1>2 DEF TypeOK
  <2>2. Cardinality(left) \in Nat
    BY <2>1, NamesFinite
  <2> QED  BY <2>2, Bounds DEF Removes, Remove, TypeOK
<1> QED  BY <1>1, <1>2, <1>3, <1>4, <1>5

\* In short, for what does not depend on which files go.
LEMMA RemovalType ==
    ASSUME TypeOK, RemoveAll \/ RemoveSome
    PROVE  /\ DOMAIN files' \subseteq DOMAIN files /\ \A f \in DOMAIN files' : files'[f] = files[f]
           /\ Base \in DOMAIN files => Base \in DOMAIN files'
           /\ expired' \subseteq File /\ spared' \subseteq Matches'
           /\ faults' \in 0 .. MaxFaults /\ faults <= faults'
<1>1. PICK gone, left : Removes(gone, left)
  BY RemovalsAre
<1> QED  BY <1>1, RemovesType

-----------------------------------------------------------------------------
(* Types *)

\* A Write is under way that has not written yet.
Pending == pc = "write" \/ (pc \notin {"idle", "dead"} /\ then = "write")

TypeInv == TypeOK /\ (Pending => writes \in 1 .. MaxWrites) /\ (closed => pc \in {"idle", "dead"})

LEMMA TypeInit == Init => TypeInv
<1> SUFFICES ASSUME Init PROVE TypeInv
  OBVIOUS
<1>1. DOMAIN files \subseteq Names /\ \A f \in DOMAIN files : files[f] = [data |-> <<>>, mtime |-> 0]
  BY DEF Init, Names
<1>2. [data |-> <<>>, mtime |-> 0] \in File
  BY Bounds DEF File, Content
<1>3. Exists(Base)
  BY DEF Init, Exists
<1>4. \A f \in DOMAIN files : files[f] \in File
  BY <1>1, <1>2
<1>5. acked \in [1 .. MaxWrites -> Nat] /\ 0 \in 0 .. MaxClock /\ 0 \in 0 .. MaxWrites
      /\ 0 \in 0 .. MaxFaults /\ 0 \in 0 .. MaxRestarts
  BY Bounds DEF Init
<1>6. cfg \in Configs /\ file = "open" /\ currentSize = 0 /\ createdAt = 0 /\ closed = FALSE /\ tick = FALSE
      /\ pc = "idle" /\ then = "return" /\ writes = 0 /\ clock = 0 /\ faults = 0 /\ restarts = 0 /\ expired = {} /\ spared = {}
  BY DEF Init
<1>7. TypeOK
  BY <1>1, <1>3, <1>4, <1>5, <1>6 DEF TypeOK
<1> QED  BY <1>6, <1>7 DEF TypeInv, Pending

\* The ways in which files change, with the type of what else they touch.
LEMMA OpenType ==
    ASSUME TypeOK, openFile
    PROVE  /\ DOMAIN files' \subseteq Names /\ \A f \in DOMAIN files' : files'[f] \in File
           /\ Base \in DOMAIN files' /\ file' = "open" /\ Matches' = Matches
           /\ currentSize' = Len(files'[Base].data) /\ currentSize' \in Nat /\ createdAt' \in 0 .. MaxClock
<1>1. files' = Opened /\ Base \in DOMAIN files' /\ files'[Base] \in File /\ DOMAIN files' \subseteq Names
  BY OpenedIs DEF openFile, TypeOK
<1> QED  BY <1>1, OpenedIs DEF openFile, File, Content, Matches

LEMMA OpenFailsType ==
    ASSUME TypeOK, OpenFails
    PROVE  /\ DOMAIN files' \subseteq Names /\ \A f \in DOMAIN files' : files'[f] \in File
           /\ DOMAIN files \subseteq DOMAIN files' /\ faults' \in 0 .. MaxFaults /\ Matches \subseteq DOMAIN files'
           /\ UNCHANGED <<file, currentSize, createdAt>>
<1>1. files' = files \/ files' = Opened
  BY DEF OpenFails
<1>2. faults' \in 0 .. MaxFaults
  BY Bounds DEF OpenFails, MayFail, TypeOK
<1>3. /\ DOMAIN files' \subseteq Names /\ DOMAIN files \subseteq DOMAIN files'
      /\ \A f \in DOMAIN files' : files'[f] \in File
  <2>1. CASE files' = files
    BY <2>1 DEF TypeOK
  <2>2. CASE files' = Opened
    BY <2>2, OpenedIs DEF TypeOK
  <2> QED  BY <1>1, <2>1, <2>2
<1> QED  BY <1>2, <1>3 DEF OpenFails, Matches

LEMMA WriteType ==
    ASSUME TypeInv, WriteData
    PROVE  /\ DOMAIN files' = DOMAIN files /\ \A f \in DOMAIN files' : files'[f] \in File
           /\ acked' \in [1 .. MaxWrites -> Nat] /\ currentSize' \in Nat /\ faults' \in 0 .. MaxFaults
           /\ writes \in 1 .. MaxWrites
<1>1. writes \in 1 .. MaxWrites
  BY DEF WriteData, TypeInv, Pending
<1>2. ASSUME MayFail \/ Works PROVE faults' \in 0 .. MaxFaults
  BY <1>2, Bounds DEF MayFail, Works, TypeInv, TypeOK
<1>3. CASE UNCHANGED <<files, acked, currentSize>>
  BY <1>1, <1>2, <1>3 DEF WriteData, TypeInv, TypeOK
<1>4. ASSUME NEW n \in Lens, NEW k \in 1 .. n, file = "open", MayFail \/ Works, files' = Appended(k),
             acked' = [acked EXCEPT ![writes] = k], currentSize' = currentSize + k
      PROVE  /\ DOMAIN files' = DOMAIN files /\ \A f \in DOMAIN files' : files'[f] \in File
             /\ acked' \in [1 .. MaxWrites -> Nat] /\ currentSize' \in Nat /\ faults' \in 0 .. MaxFaults
  <2>1. k \in Nat \ {0} /\ TypeOK /\ Exists(Base)
    BY <1>4 DEF TypeInv, TypeOK
  <2>2. DOMAIN files' = DOMAIN files /\ \A f \in DOMAIN files' : files'[f] \in File
    BY <1>1, <1>4, <2>1, AppendedIs DEF TypeOK
  <2>3. acked' \in [1 .. MaxWrites -> Nat] /\ currentSize' \in Nat
    BY <1>1, <1>4, <2>1 DEF TypeOK
  <2> QED  BY <1>2, <1>4, <2>2, <2>3
<1> QED  BY <1>1, <1>3, <1>4 DEF WriteData, Appended

\* A rotation goes on with a Write only on behalf of one.
LEMMA AfterType == ASSUME NEW f PROVE AfterRotate(f) = "idle" \/ (AfterRotate(f) = "write" /\ then = "write" /\ f = "open")
  BY DEF AfterRotate

LEMMA TypeStep == TypeInv /\ [Next]_vars => TypeInv'
<1> SUFFICES ASSUME TypeInv, [Next]_vars PROVE TypeInv'
  OBVIOUS
<1> USE DEF TypeInv
\* What a step within a rotation leaves to show.
<1>1. ASSUME pc \notin {"idle", "write", "dead"}, UNCHANGED <<cfg, closed, tick, then, writes, clock, restarts, acked, expired>>, spared' = spared,
             pc' \in {"idle", "open", "reopen", "cleanup"} \/ (pc' = "write" /\ then = "write"),
             DOMAIN files' \subseteq Names, \A f \in DOMAIN files' : files'[f] \in File,
             Matches \subseteq DOMAIN files',
             currentSize' \in Nat, createdAt' \in 0 .. MaxClock, faults' \in 0 .. MaxFaults,
             file' \in {"open", "nil", "closed"}, file' = "open" => Base \in DOMAIN files'
      PROVE  TypeInv'
  BY <1>1 DEF TypeOK, Pending, Exists, Matches
<1>2. CASE Rename
  <2>1. faults' \in 0 .. MaxFaults
    BY <1>2, Bounds DEF Rename, MayFail, Works, TypeOK
  <2>2. CASE files' = files
    BY <1>1, <1>2, <2>1, <2>2 DEF Rename, TypeOK, Matches
  <2>3. ASSUME Exists(Base), NEW name \in Backups, FirstFree(name), files' = Renamed(name), pc' = "open" PROVE TypeInv'
    <3>0. /\ DOMAIN files' = (DOMAIN files \ {Base}) \cup {name} /\ name \in Names
          /\ files'[name] = files[Base] /\ \A f \in DOMAIN files \ {Base} : files'[f] = files[f]
      BY <2>3, RenamedIs
    <3>1. DOMAIN files' \subseteq Names /\ \A f \in DOMAIN files' : files'[f] \in File
      BY <2>3, <3>0 DEF TypeOK, Exists
    <3>2. Matches \subseteq DOMAIN files'
      BY <3>0 DEF Matches
    <3> QED  BY <1>1, <1>2, <2>1, <2>3, <3>1, <3>2 DEF Rename, TypeOK
  <2> QED  BY <1>2, <2>2, <2>3 DEF Rename
<1>3. CASE Open \/ Reopen
  <2>1. CASE openFile /\ Works
    <3>1. pc' \in {"idle", "cleanup"} \/ (pc' = "write" /\ then = "write")
      BY <1>3, <2>1, AfterType DEF Open, Reopen, openFile, OpenFails
    <3>2. faults' \in 0 .. MaxFaults
      BY <2>1 DEF Works, TypeOK
    <3>3. Matches \subseteq DOMAIN files'
      BY <2>1, OpenType DEF Matches
    <3> QED  BY <1>1, <1>3, <2>1, <3>1, <3>2, <3>3, OpenType DEF Open, Reopen
  <2>2. CASE OpenFails
    <3>1. pc' \in {"idle", "cleanup"} \/ (pc' = "write" /\ then = "write")
      BY <1>3, <2>2, AfterType DEF Open, Reopen
    <3>2. file' = "open" => Base \in DOMAIN files'
      BY <2>2, OpenFailsType DEF TypeOK, Exists
    <3> QED  BY <1>1, <1>3, <2>2, <3>1, <3>2, OpenFailsType DEF Open, Reopen, TypeOK
  <2> QED  BY <1>3, <2>1, <2>2 DEF Open, Reopen
<1>4. CASE Cleanup
  <2>1. pc' = "idle" \/ (pc' = "write" /\ then = "write")
    BY <1>4, AfterType DEF Cleanup
  <2>2. /\ DOMAIN files' \subseteq DOMAIN files /\ \A f \in DOMAIN files' : files'[f] = files[f]
        /\ Base \in DOMAIN files => Base \in DOMAIN files'
        /\ expired' \subseteq File
        /\ spared' \subseteq Matches' /\ faults' \in 0 .. MaxFaults
    BY <1>4, RemovalType DEF Cleanup
  <2>3. pc = "cleanup" /\ UNCHANGED <<cfg, file, currentSize, createdAt, closed>>
        /\ UNCHANGED <<tick, then, writes, clock, restarts, acked>>
    BY <1>4 DEF Cleanup, fwVars
  <2>4. DOMAIN files' \subseteq Names /\ \A f \in DOMAIN files' : files'[f] \in File
    BY <2>2 DEF TypeOK
  <2>5. ~closed /\ (then = "write" => writes \in 1 .. MaxWrites)
    BY <2>3 DEF Pending
  <2>6. TypeOK'
    BY <2>1, <2>2, <2>3, <2>4 DEF TypeOK, Exists
  <2> QED  BY <2>1, <2>3, <2>5, <2>6 DEF Pending
<1>5. CASE WriteBegin
  <2>1. writes' \in 1 .. MaxWrites
    BY <1>5, Bounds DEF WriteBegin, TypeOK
  <2>2. pc' \in {"idle", "rename", "write"} /\ then' \in {"write", "return"} /\ (closed => pc' = "idle")
    BY <1>5 DEF WriteBegin, TypeOK
  <2>3. UNCHANGED <<files, fwVars, tick, clock, faults, restarts, acked, expired, spared>>
    BY <1>5 DEF WriteBegin
  <2> QED  BY <2>1, <2>2, <2>3 DEF fwVars, TypeOK, Exists, Matches
<1>6. CASE WriteData
  <2>1. pc' \in {"rename", "idle"} /\ then' = "return" /\ ~closed
        /\ UNCHANGED <<cfg, file, createdAt, closed, tick, writes, clock, restarts, expired, spared>>
    BY <1>6 DEF WriteData
  <2> QED  BY <1>6, <2>1, WriteType DEF TypeOK, Pending, Exists, Matches
<1>7. CASE Background
  <2>1. tick' = FALSE /\ pc' \in {"idle", "rename"} /\ then' \in {"write", "return"} /\ (pc' = "rename" => then' = "return" /\ ~closed)
        /\ UNCHANGED <<files, fwVars, writes, clock, faults, restarts, acked, expired, spared>>
    BY <1>7 DEF Background, TypeOK
  <2> QED  BY <2>1 DEF fwVars, TypeOK, Pending, Exists, Matches
<1>8. CASE Close
  BY <1>8 DEF Close, TypeOK, Pending, Exists, Matches
<1>9. CASE CloseEnds
  <2>1. /\ DOMAIN files' \subseteq DOMAIN files /\ \A f \in DOMAIN files' : files'[f] = files[f]
        /\ expired' \subseteq File /\ spared' \subseteq Matches' /\ faults' \in 0 .. MaxFaults
    BY <1>9, RemovalType DEF CloseEnds
  <2> QED  BY <1>9, <2>1 DEF CloseEnds, TypeOK, Pending, Exists
<1>10. CASE Restart
  <2>1. restarts' \in 0 .. MaxRestarts
    BY <1>10, Bounds DEF Restart, TypeOK
  <2> QED  BY <1>10, <2>1, OpenType DEF Restart, TypeOK, Pending, Exists
<1>11. CASE Clock
  <2>1. clock' \in 0 .. MaxClock /\ tick' \in BOOLEAN
    BY <1>11, Bounds DEF Clock, TypeOK
  <2> QED  BY <1>11, <2>1 DEF Clock, fwVars, TypeOK, Pending, Exists, Matches
<1>12. CASE UNCHANGED vars
  BY <1>12 DEF vars, fwVars, TypeOK, Pending, Exists, Matches
<1>13. CASE CleanupDies
  <2>1. /\ DOMAIN files' \subseteq DOMAIN files /\ \A f \in DOMAIN files' : files'[f] = files[f]
        /\ Base \in DOMAIN files => Base \in DOMAIN files'
        /\ expired' \subseteq File /\ spared' \subseteq Matches' /\ faults' \in 0 .. MaxFaults
    BY <1>13, RemovalType DEF CleanupDies
  <2>2. pc' = "dead" /\ UNCHANGED <<fwVars, tick, then, writes, clock, restarts, acked>>
    BY <1>13 DEF CleanupDies
  <2> QED  BY <2>1, <2>2 DEF fwVars, TypeOK, Pending, Exists
<1> QED
  BY <1>2, <1>3, <1>4, <1>5, <1>6, <1>7, <1>8, <1>9, <1>10, <1>11, <1>12, <1>13 DEF Next, Finished

\* TypeOK: every variable keeps its type.
THEOREM TypeCorrect == Spec => []TypeOK
  BY TypeInit, TypeStep, PTL DEF Spec, TypeInv

-----------------------------------------------------------------------------
(* The size the writer keeps *)

LEMMA SizeStep == TypeInv /\ SizeTracked /\ [Next]_vars => SizeTracked'
<1> SUFFICES ASSUME TypeInv, SizeTracked, [Next]_vars, file' = "open" PROVE currentSize' = Len(files'[Base].data)
  BY DEF SizeTracked
<1> USE DEF TypeInv
<1>1. ASSUME openFile PROVE currentSize' = Len(files'[Base].data)
  BY <1>1 DEF openFile
<1>2. ASSUME file' = file, currentSize' = currentSize, Base \in DOMAIN files' => files'[Base] = files[Base],
             Base \in DOMAIN files => Base \in DOMAIN files'
      PROVE  currentSize' = Len(files'[Base].data)
  BY <1>2 DEF SizeTracked, TypeOK, Exists
<1>3. CASE Rename
  BY <1>3 DEF Rename
<1>4. CASE Open \/ Reopen
  <2>1. CASE OpenFails
    <3>1. file' = file /\ currentSize' = currentSize /\ (files' = files \/ files' = Opened)
      BY <2>1 DEF OpenFails
    <3>2. Base \in DOMAIN files
      BY <3>1 DEF TypeOK, Exists
    <3>3. files'[Base] = files[Base] /\ Base \in DOMAIN files'
      BY <3>1, <3>2, OpenedIs
    <3> QED  BY <1>2, <3>1, <3>3
  <2> QED  BY <1>1, <1>4, <2>1 DEF Open, Reopen
<1>5. CASE Cleanup \/ CleanupDies
  BY <1>2, <1>5, RemovalType DEF Cleanup, CleanupDies, fwVars
<1>6. CASE WriteData
  <2>1. file = "open" /\ Exists(Base) /\ writes \in 1 .. MaxWrites
    BY <1>6 DEF WriteData, TypeOK, Pending
  <2>2. CASE UNCHANGED <<files, acked, currentSize>>
    BY <1>2, <1>6, <2>2 DEF WriteData
  <2>3. ASSUME NEW n \in Lens, NEW k \in 1 .. n, files' = Appended(k), currentSize' = currentSize + k
        PROVE  currentSize' = Len(files'[Base].data)
    <3>1. k \in Nat \ {0}
      BY <2>3, LensAssumption
    <3> QED  BY <2>1, <2>3, <3>1, AppendedIs DEF SizeTracked
  <2> QED  BY <1>6, <2>2, <2>3 DEF WriteData, Appended
<1>7. CASE CloseEnds
  BY <1>7 DEF CloseEnds
<1>8. CASE Restart
  BY <1>1, <1>8 DEF Restart
<1>9. CASE WriteBegin \/ Background \/ Close \/ Clock \/ UNCHANGED vars
  BY <1>2, <1>9 DEF WriteBegin, Background, Close, Clock, vars, fwVars
<1> QED  BY <1>3, <1>4, <1>5, <1>6, <1>7, <1>8, <1>9 DEF Next, Finished

\* SizeTracked: through rotations, failures and restarts, what decides on the
\* next rotation is the size of the file.
THEOREM SizeIsTracked == Spec => []SizeTracked
<1>1. Init => SizeTracked
  BY DEF Init, SizeTracked
<1> QED  BY <1>1, TypeInit, TypeStep, SizeStep, PTL DEF Spec

-----------------------------------------------------------------------------
(* Nothing is overwritten *)

\* Writes that have put nothing into the file yet.
Unwritten == {w \in 1 .. MaxWrites : w > writes \/ (w = writes /\ Pending)}

NotYet == \A w \in Unwritten : acked[w] = 0 /\ \A f \in DOMAIN files : Holds(files[f], w) = {}

Kept == \A w \in 1 .. MaxWrites : acked[w] > 0 => \E fl \in Present \cup expired : Cardinality(Holds(fl, w)) = acked[w]

Apart == \A w \in 1 .. MaxWrites : \A f, g \in DOMAIN files \ Foreign :
             f # g /\ Holds(files[f], w) # {} => Holds(files[g], w) = {}

OverInv == NotYet /\ Kept /\ Apart

\* No step goes back to before a Write, and the one that writes is past it.
LEMMA UnwrittenStep ==
    ASSUME TypeInv, [Next]_vars
    PROVE  Unwritten' \subseteq Unwritten /\ (WriteData => writes \in Unwritten /\ writes \notin Unwritten')
<1> USE DEF TypeInv
<1>0. writes \in 0 .. MaxWrites /\ MaxWrites \in Nat
  BY Bounds DEF TypeOK
<1>1. ASSUME writes' = writes, Pending' => Pending PROVE Unwritten' \subseteq Unwritten
  BY <1>1 DEF Unwritten
<1>2. CASE WriteBegin
  <2>1. writes' = writes + 1
    BY <1>2 DEF WriteBegin
  <2>2. \A w \in 1 .. MaxWrites : w > writes' \/ w = writes' => w > writes
    BY <1>0, <2>1
  <2>3. Unwritten' \subseteq Unwritten
    BY <2>2 DEF Unwritten
  <2> QED  BY <1>2, <2>3 DEF WriteBegin, WriteData
<1>3. CASE WriteData
  <2>1. Pending /\ ~Pending' /\ writes' = writes
    BY <1>3 DEF WriteData, Pending
  <2>2. writes \in Unwritten
    BY <2>1 DEF Unwritten
  <2>3. writes \notin Unwritten'
    BY <1>0, <2>1 DEF Unwritten
  <2> QED  BY <1>1, <2>1, <2>2, <2>3
<1>4. CASE Open \/ Reopen \/ Cleanup
  <2>1. ~WriteData /\ pc \notin {"idle", "dead"} /\ writes' = writes /\ then' = then
    BY <1>4 DEF Open, Reopen, Cleanup, WriteData
  <2>2. pc' \in {"idle", "cleanup"} \/ (pc' = "write" /\ then = "write")
    BY <1>4, AfterType DEF Open, Reopen, Cleanup
  <2> QED  BY <1>1, <2>1, <2>2 DEF Pending
<1>5. CASE Rename \/ Background \/ Close \/ CloseEnds \/ CleanupDies \/ Restart \/ Clock \/ UNCHANGED vars
  <2>1. writes' = writes /\ (Pending' => Pending)
    BY <1>5 DEF Rename, Background, Close, CloseEnds, CleanupDies, Restart, Clock, vars, fwVars, Pending
  <2>2. Unwritten' \subseteq Unwritten
    BY <1>1, <2>1
  <2>3. CASE WriteData
    BY <1>2, <1>3, <2>3
  <2> QED  BY <2>2, <2>3
<1> QED  BY <1>2, <1>3, <1>4, <1>5 DEF Next, Finished

\* Steps that move records about, but add none and lose none.
LEMMA OpenedKeeps ==
    ASSUME TypeOK, OverInv, Unwritten' \subseteq Unwritten, files' \in {files, Opened}, UNCHANGED <<acked, expired>>
    PROVE  OverInv'
<1>1. /\ DOMAIN files \subseteq DOMAIN files' /\ \A f \in DOMAIN files : files'[f] = files[f]
      /\ \A f \in DOMAIN files' : f \in DOMAIN files \/ files'[f].data = <<>>
  BY OpenedIs DEF Exists, Empty
<1>2. \A f \in DOMAIN files', w \in 1 .. MaxWrites :
          Holds(files'[f], w) = {} \/ (f \in DOMAIN files /\ files'[f] = files[f])
  BY <1>1 DEF Holds
<1>3. NotYet'
  BY <1>2 DEF OverInv, NotYet, Unwritten
<1>4. Present \subseteq Present'
  BY <1>1 DEF Present
<1>5. Kept'
  BY <1>4 DEF OverInv, Kept
<1>6. Apart'
  BY <1>2 DEF OverInv, Apart
<1> QED  BY <1>3, <1>5, <1>6 DEF OverInv

LEMMA RenamedKeeps ==
    ASSUME TypeOK, OverInv, Unwritten' \subseteq Unwritten, Exists(Base), NEW name \in Backups, FirstFree(name),
           files' = Renamed(name), UNCHANGED <<acked, expired>>
    PROVE  OverInv'
<1>1. /\ DOMAIN files' = (DOMAIN files \ {Base}) \cup {name} /\ name \notin DOMAIN files /\ name \notin Foreign
      /\ files'[name] = files[Base] /\ \A f \in DOMAIN files \ {Base} : files'[f] = files[f]
      /\ Base \in DOMAIN files /\ Base \notin Foreign
  BY RenamedIs, NamesAssumption DEF Exists
<1>2. NotYet'
  BY <1>1 DEF OverInv, NotYet
<1>3. Present \subseteq Present'
  <2> SUFFICES ASSUME NEW f \in DOMAIN files \ Foreign PROVE files[f] \in Present'
    BY DEF Present
  <2>1. CASE f = Base
    BY <1>1, <2>1 DEF Present
  <2>2. CASE f # Base
    BY <1>1, <2>2 DEF Present
  <2> QED  BY <2>1, <2>2
<1>4. Kept'
  BY <1>3 DEF OverInv, Kept
<1>5. Apart'
  BY <1>1 DEF OverInv, Apart
<1> QED  BY <1>2, <1>4, <1>5 DEF OverInv

LEMMA RemoveKeeps ==
    ASSUME TypeOK, OverInv, Unwritten' \subseteq Unwritten, RemoveAll \/ RemoveSome, acked' = acked
    PROVE  OverInv'
<1>1. PICK gone, left : Removes(gone, left)
  BY RemovalsAre
<1>2. /\ DOMAIN files' = DOMAIN files \ gone /\ \A f \in DOMAIN files \ gone : files'[f] = files[f]
      /\ expired' = expired \cup {files[f] : f \in gone}
  BY <1>1, RemovesType
<1>3. NotYet'
  BY <1>2 DEF OverInv, NotYet
<1>4. Present \cup expired \subseteq Present' \cup expired'
  BY <1>2 DEF Present
<1>5. Kept'
  BY <1>4 DEF OverInv, Kept
<1>6. Apart'
  BY <1>2 DEF OverInv, Apart
<1> QED  BY <1>3, <1>5, <1>6 DEF OverInv

\* A Write adds its own bytes to the end of the active file, and no others.
LEMMA HoldsAppended ==
    ASSUME TypeOK, Exists(Base), writes \in 1 .. MaxWrites, NEW k \in Nat \ {0}, files' = Appended(k)
    PROVE  /\ \A w \in 1 .. MaxWrites : w # writes => Holds(files'[Base], w) = Holds(files[Base], w)
           /\ Holds(files[Base], writes) = {} =>
                  Holds(files'[Base], writes) # {} /\ Cardinality(Holds(files'[Base], writes)) = k
<1> DEFINE s == files[Base].data
           t == [i \in 1 .. k |-> writes]
<1>1. s \in Seq(1 .. MaxWrites)
  BY DEF TypeOK, Exists, File, Content
<1>2. t \in Seq(1 .. MaxWrites) /\ Len(t) = k /\ \A i \in 1 .. k : t[i] = writes
  BY AppendedIs DEF Content
<1> DEFINE c == s \o t
<1>3. files'[Base].data = c
  <2>1. Appended(k)[Base] = [data |-> c, mtime |-> clock]
    BY AppendedIs
  <2> HIDE DEF c
  <2> QED  BY <2>1
<1> HIDE DEF s, t
<1>4. /\ Len(c) = Len(s) + k /\ Len(s) \in Nat
      /\ \A i \in 1 .. Len(s) + k : c[i] = IF i <= Len(s) THEN s[i] ELSE t[i - Len(s)]
  <2>1. /\ Len(s \o t) = Len(s) + Len(t)
        /\ \A i \in 1 .. Len(s) + Len(t) : (s \o t)[i] = IF i <= Len(s) THEN s[i] ELSE t[i - Len(s)]
    BY <1>1, <1>2, ConcatProperties
  <2>2. Len(s) \in Nat
    BY <1>1
  <2> QED  BY <1>2, <2>1, <2>2
<1> HIDE DEF c
<1>5. ASSUME NEW i \in 1 .. Len(s) + k PROVE c[i] = IF i <= Len(s) THEN s[i] ELSE writes
  <2>1. CASE i <= Len(s)
    BY <1>4, <2>1
  <2>2. CASE ~(i <= Len(s))
    <3>1. i - Len(s) \in 1 .. k
      BY <1>4, <2>2
    <3> QED  BY <1>2, <1>4, <2>2, <3>1
  <2> QED  BY <2>1, <2>2
<1>6. \A w : Holds(files'[Base], w) = {i \in 1 .. Len(s) + k : c[i] = w}
  BY <1>3, <1>4 DEF Holds
<1>7. \A w : Holds(files[Base], w) = {i \in 1 .. Len(s) : s[i] = w}
  BY DEF Holds, s
<1>8. ASSUME NEW w \in 1 .. MaxWrites, w # writes PROVE Holds(files'[Base], w) = Holds(files[Base], w)
  <2>1. \A i : i \in 1 .. Len(s) + k /\ c[i] = w <=> i \in 1 .. Len(s) /\ s[i] = w
    BY <1>4, <1>5, <1>8
  <2> QED  BY <1>6, <1>7, <2>1
<1>9. ASSUME Holds(files[Base], writes) = {} PROVE Holds(files'[Base], writes) = Len(s) + 1 .. Len(s) + k
  <2>1. \A i \in 1 .. Len(s) : s[i] # writes
    BY <1>7, <1>9
  <2>2. \A i : i \in 1 .. Len(s) + k /\ c[i] = writes <=> i \in Len(s) + 1 .. Len(s) + k
    BY <1>4, <1>5, <2>1
  <2> QED  BY <1>6, <2>2
<1>10. Cardinality(Len(s) + 1 .. Len(s) + k) = k /\ Len(s) + 1 \in Len(s) + 1 .. Len(s) + k
  <2>1. Len(s) + 1 \in Int /\ Len(s) + k \in Int /\ Len(s) + 1 <= Len(s) + k
    BY <1>4
  <2>2. Cardinality(Len(s) + 1 .. Len(s) + k) = (Len(s) + k) - (Len(s) + 1) + 1
    BY <2>1, FS_Interval
  <2> QED  BY <1>4, <2>2
<1> QED  BY <1>8, <1>9, <1>10

LEMMA WriteKeeps == ASSUME TypeInv, OverInv, WriteData, [Next]_vars PROVE OverInv'
<1>1. /\ Unwritten' \subseteq Unwritten /\ writes \in Unwritten /\ writes \notin Unwritten'
      /\ writes \in 1 .. MaxWrites /\ expired' = expired
  BY UnwrittenStep, WriteType DEF WriteData
<1>2. acked[writes] = 0 /\ \A f \in DOMAIN files : Holds(files[f], writes) = {}
  BY <1>1 DEF OverInv, NotYet
<1>3. CASE UNCHANGED <<files, acked, currentSize>>
  BY <1>1, <1>3 DEF OverInv, NotYet, Kept, Apart, Present
<1>4. ASSUME NEW n \in Lens, NEW k \in 1 .. n, file = "open", files' = Appended(k), acked' = [acked EXCEPT ![writes] = k]
      PROVE  OverInv'
  <2>1. k \in Nat \ {0} /\ TypeOK /\ Exists(Base) /\ Base \notin Foreign
    BY <1>4, LensAssumption, NamesAssumption DEF TypeInv, TypeOK
  <2>2. DOMAIN files' = DOMAIN files /\ Base \in DOMAIN files /\ \A f \in DOMAIN files \ {Base} : files'[f] = files[f]
    BY <1>1, <1>4, <2>1, AppendedIs DEF Exists
  <2>3. /\ \A w \in 1 .. MaxWrites : w # writes => Holds(files'[Base], w) = Holds(files[Base], w)
        /\ Holds(files'[Base], writes) # {} /\ Cardinality(Holds(files'[Base], writes)) = k
    BY <1>1, <1>2, <1>4, <2>1, <2>2, HoldsAppended
  <2>4. acked'[writes] = k /\ \A w \in 1 .. MaxWrites : w # writes => acked'[w] = acked[w]
    BY <1>1, <1>4, <2>1 DEF TypeOK
  <2>5. \A w \in 1 .. MaxWrites, f \in DOMAIN files : w # writes => Holds(files'[f], w) = Holds(files[f], w)
    BY <2>2, <2>3
  <2>6. \A w \in Unwritten' : w \in Unwritten /\ w \in 1 .. MaxWrites /\ w # writes
    BY <1>1 DEF Unwritten
  <2>7. NotYet'
    BY <2>2, <2>4, <2>5, <2>6 DEF OverInv, NotYet
  <2>8. ASSUME NEW w \in 1 .. MaxWrites, acked'[w] > 0
        PROVE  \E fl \in Present' \cup expired' : Cardinality(Holds(fl, w)) = acked'[w]
    <3>1. CASE w = writes
      <4>1. files'[Base] \in Present'
        BY <2>1, <2>2 DEF Present
      <4> QED  BY <2>3, <2>4, <3>1, <4>1
    <3>2. CASE w # writes
      <4>1. PICK fl \in Present \cup expired : Cardinality(Holds(fl, w)) = acked[w]
        BY <2>4, <2>8, <3>2 DEF OverInv, Kept
      <4>2. CASE fl \in expired
        BY <1>1, <2>4, <3>2, <4>1, <4>2
      <4>3. ASSUME NEW f \in DOMAIN files \ Foreign, fl = files[f] PROVE files'[f] \in Present' /\ Holds(files'[f], w) = Holds(fl, w)
        BY <2>2, <2>5, <3>2, <4>3 DEF Present
      <4> QED  BY <2>4, <3>2, <4>1, <4>2, <4>3 DEF Present
    <3> QED  BY <3>1, <3>2
  <2>9. Kept'
    BY <2>8 DEF Kept, Holds
  <2>10. \A f \in DOMAIN files \ {Base} : Holds(files'[f], writes) = {}
    BY <1>2, <2>2
  <2>11. Apart'
    <3> SUFFICES ASSUME NEW w \in 1 .. MaxWrites, NEW f \in DOMAIN files \ Foreign, NEW g \in DOMAIN files \ Foreign,
                        f # g, Holds(files'[f], w) # {}
                 PROVE  Holds(files'[g], w) = {}
      BY <2>2 DEF Apart, Holds
    <3>1. CASE w = writes
      BY <2>10, <3>1
    <3>2. CASE w # writes
      BY <2>5, <3>2 DEF OverInv, Apart
    <3> QED  BY <3>1, <3>2
  <2> QED  BY <2>7, <2>9, <2>11 DEF OverInv
<1> QED  BY <1>3, <1>4 DEF WriteData, Appended

LEMMA OverStep == TypeInv /\ OverInv /\ [Next]_vars => OverInv'
<1> SUFFICES ASSUME TypeInv, OverInv, [Next]_vars PROVE OverInv'
  OBVIOUS
<1>1. TypeOK /\ Unwritten' \subseteq Unwritten
  BY UnwrittenStep DEF TypeInv
<1>2. CASE Rename
  BY <1>1, <1>2, OpenedKeeps, RenamedKeeps DEF Rename
<1>3. CASE Open \/ Reopen \/ Restart
  BY <1>1, <1>3, OpenedKeeps DEF Open, Reopen, Restart, openFile, OpenFails
<1>4. CASE Cleanup \/ CloseEnds \/ CleanupDies
  BY <1>1, <1>4, RemoveKeeps DEF Cleanup, CloseEnds, CleanupDies
<1>5. CASE WriteBegin \/ Background \/ Close \/ Clock \/ UNCHANGED vars
  BY <1>1, <1>5, OpenedKeeps DEF WriteBegin, Background, Close, Clock, vars
<1> QED  BY <1>2, <1>3, <1>4, <1>5, WriteKeeps DEF Next, Finished

\* NothingOverwritten: through rotations within one time stamp, failures at
\* any step and restarts, what was written is in one file, unless it expired.
THEOREM NothingIsOverwritten == Spec => []NothingOverwritten
<1>1. Init => OverInv
  <2> SUFFICES ASSUME Init PROVE OverInv
    OBVIOUS
  <2>1. \A f \in DOMAIN files, w \in 1 .. MaxWrites : Holds(files[f], w) = {}
    BY DEF Init, Holds
  <2>2. \A w \in 1 .. MaxWrites : acked[w] = 0
    BY DEF Init
  <2>3. NotYet /\ Apart
    BY <2>1, <2>2 DEF NotYet, Apart, Unwritten
  <2>4. Kept
    BY <2>2 DEF Kept
  <2> QED  BY <2>3, <2>4 DEF OverInv
<1>2. OverInv => NothingOverwritten
  BY DEF OverInv, Kept, Apart, NothingOverwritten
<1> QED  BY <1>1, <1>2, TypeInit, TypeStep, OverStep, PTL DEF Spec

-----------------------------------------------------------------------------
(* The size of a file *)

\* s is beyond max_size by less than k Writes of some length.
Beyond(s, k) == \E n \in Lens : s < cfg.MaxSize + n * k

LEMMA BeyondMore ==
    ASSUME NEW s \in Nat, NEW k \in Nat, TypeOK
    PROVE  /\ s < cfg.MaxSize => Beyond(s, k)
           /\ Beyond(s, k) => Beyond(s, k + 1)
           /\ \A m \in Lens, j \in Nat : Beyond(s, k) /\ j <= m => Beyond(s + j, k + 1)
           /\ \A l \in Nat : Beyond(s, k) /\ k <= l => Beyond(s, l)
<1>1. cfg.MaxSize \in Nat /\ Lens \subseteq Nat \ {0} /\ Lens # {}
  BY ConfigAssumption, LensAssumption DEF TypeOK
<1>2. ASSUME NEW n \in Nat PROVE n * k \in Nat /\ n * (k + 1) = n * k + n
  OBVIOUS
<1>3. ASSUME NEW n \in Nat, NEW m \in Nat, n <= m PROVE n * k <= m * k
  <2>1. m - n \in Nat /\ m = n + (m - n)
    BY <1>3
  <2>2. (m - n) * k \in Nat
    BY <2>1
  <2>3. m * k = n * k + (m - n) * k
    BY <2>1
  <2> QED  BY <1>2, <2>2, <2>3
<1>4. ASSUME s < cfg.MaxSize PROVE Beyond(s, k)
  <2>1. PICK n \in Lens : TRUE
    BY <1>1
  <2>2. n * k \in Nat
    BY <1>1, <1>2
  <2>3. s < cfg.MaxSize + n * k
    BY <1>1, <1>4, <2>2
  <2> QED  BY <2>3 DEF Beyond
<1>5. Beyond(s, k) => Beyond(s, k + 1)
  BY <1>1, <1>2 DEF Beyond
<1>6. ASSUME NEW m \in Lens, NEW j \in Nat, Beyond(s, k), j <= m PROVE Beyond(s + j, k + 1)
  <2>1. PICK n \in Lens : s < cfg.MaxSize + n * k
    BY <1>6 DEF Beyond
  <2>2. n \in Nat /\ m \in Nat
    BY <1>1
  <2>3. CASE n <= m
    <3>1. n * k <= m * k /\ n * k \in Nat /\ m * k \in Nat /\ m * (k + 1) = m * k + m
      BY <1>2, <1>3, <2>2, <2>3
    <3>2. s + j < cfg.MaxSize + m * (k + 1)
      BY <1>1, <1>6, <2>1, <2>2, <3>1
    <3> QED  BY <3>2 DEF Beyond
  <2>4. CASE ~(n <= m)
    <3>1. n * k \in Nat /\ n * (k + 1) = n * k + n /\ m < n
      BY <1>2, <2>2, <2>4
    <3>2. s + j < cfg.MaxSize + n * (k + 1)
      BY <1>1, <1>6, <2>1, <2>2, <3>1
    <3> QED  BY <3>2 DEF Beyond
  <2> QED  BY <2>3, <2>4
<1>7. ASSUME NEW l \in Nat, Beyond(s, k), k <= l PROVE Beyond(s, l)
  <2>1. PICK n \in Lens : s < cfg.MaxSize + n * k
    BY <1>7 DEF Beyond
  <2>2. n \in Nat
    BY <1>1
  <2>3. n * (l - k) \in Nat /\ n * k \in Nat /\ n * l = n * k + n * (l - k)
    BY <1>7, <2>2
  <2>4. s < cfg.MaxSize + n * l
    BY <1>1, <2>1, <2>2, <2>3
  <2> QED  BY <2>4 DEF Beyond
<1> QED  BY <1>4, <1>5, <1>6, <1>7

\* A file is beyond by one Write more than there were failures, and by one
\* less while a Write is about to add to it.
BoundInv ==
    cfg.MaxSize > 0 =>
        /\ \A fl \in Present : Beyond(Len(fl.data), faults + 1)
        /\ (pc = "reopen" \/ (pc = "write" /\ file = "open")) /\ Exists(Base) => Beyond(Len(files[Base].data), faults)
        /\ pc = "open" => ~Exists(Base)
        /\ pc = "cleanup" => file = "open" /\ Exists(Base) /\ Len(files[Base].data) < cfg.MaxSize

\* Files that are there already, and empty ones.
LEMMA BoundFiles ==
    ASSUME TypeOK, TypeOK', BoundInv, cfg.MaxSize > 0, cfg' = cfg, faults <= faults',
           \A fl \in Present' : fl \in Present \/ fl.data = <<>>
    PROVE  \A fl \in Present' : Beyond(Len(fl.data), faults + 1)' /\ Beyond(Len(fl.data), faults' + 1)
<1> SUFFICES ASSUME NEW fl \in Present' PROVE Beyond(Len(fl.data), faults' + 1)
  BY DEF Beyond
<1>1. faults \in Nat /\ faults' \in Nat /\ faults + 1 \in Nat /\ faults' + 1 \in Nat /\ faults + 1 <= faults' + 1
  <2>1. faults \in Nat /\ faults' \in Nat
    BY Bounds DEF TypeOK
  <2>2. faults <= faults'
    OBVIOUS
  <2>3. \A m, n \in Nat : m <= n => m + 1 \in Nat /\ n + 1 \in Nat /\ m + 1 <= n + 1
    OBVIOUS
  <2> QED  BY <2>1, <2>2, <2>3
<1>2. CASE fl \in Present
  <2>1. fl \in File
    BY <1>2 DEF Present, TypeOK
  <2>2. Len(fl.data) \in Nat
    BY <2>1 DEF File, Content
  <2>3. Beyond(Len(fl.data), faults + 1)
    BY <1>2 DEF BoundInv
  <2>4. \A l \in Nat : faults + 1 <= l => Beyond(Len(fl.data), l)
    BY <1>1, <2>2, <2>3, BeyondMore
  <2> QED  BY <1>1, <2>4
<1>3. CASE fl.data = <<>>
  BY <1>1, <1>3, BeyondMore
<1> QED  BY <1>2, <1>3

LEMMA BoundStep == TypeInv /\ TypeInv' /\ SizeTracked /\ BoundInv /\ [Next]_vars => BoundInv'
<1> SUFFICES ASSUME TypeInv, TypeInv', SizeTracked, BoundInv, [Next]_vars, cfg.MaxSize > 0, cfg' = cfg PROVE BoundInv'
  <2>1. CASE WriteBegin \/ Rename \/ Cleanup \/ CleanupDies \/ Background \/ Clock \/ Finished \/ UNCHANGED vars
    BY <2>1 DEF WriteBegin, Rename, Cleanup, CleanupDies, Background, Clock, Finished, vars, fwVars, BoundInv
  <2>2. CASE WriteData \/ Open \/ Reopen \/ Close \/ CloseEnds \/ Restart
    BY <2>2 DEF WriteData, Open, Reopen, Close, CloseEnds, Restart, BoundInv
  <2> QED  BY <2>1, <2>2 DEF Next
<1> USE DEF TypeInv
<1>0. /\ faults \in Nat /\ faults + 1 \in Nat /\ cfg.MaxSize \in Nat /\ Base \notin Foreign
      /\ \A f \in DOMAIN files : Len(files[f].data) \in Nat
      /\ Exists(Base) => files[Base] \in Present
  <2>1. faults \in Nat /\ faults + 1 \in Nat /\ cfg.MaxSize \in Nat /\ Base \notin Foreign
    <3>1. faults \in 0 .. MaxFaults /\ MaxFaults \in Nat
      BY Bounds DEF TypeOK
    <3>2. cfg.MaxSize \in Nat
      BY ConfigAssumption DEF TypeOK
    <3>3. Base \notin Foreign
      BY NamesAssumption
    <3> HIDE DEF TypeInv
    <3> QED  BY <3>1, <3>2, <3>3
  <2>2. \A f \in DOMAIN files : files[f].data \in Content
    BY DEF TypeOK, File
  <2>3. \A f \in DOMAIN files : Len(files[f].data) \in Nat
    BY <2>2 DEF Content
  <2>4. Exists(Base) => files[Base] \in Present
    BY <2>1 DEF Present, Exists
  <2> QED  BY <2>1, <2>3, <2>4
\* What a step shows: what it does to the files, and to the part of pc.
<1>1. ASSUME faults' = faults \/ faults <= faults', \A fl \in Present' : fl \in Present \/ fl.data = <<>>,
             (pc' = "reopen" \/ (pc' = "write" /\ file' = "open")) /\ Base \in DOMAIN files' => Beyond(Len(files'[Base].data), faults'),
             pc' = "open" => Base \notin DOMAIN files',
             pc' = "cleanup" => file' = "open" /\ Base \in DOMAIN files' /\ Len(files'[Base].data) < cfg.MaxSize
      PROVE  BoundInv'
  <2>1. \A fl \in Present' : Beyond(Len(fl.data), faults + 1)'
    BY <1>0, <1>1, BoundFiles
  <2> QED  BY <1>1, <2>1 DEF BoundInv, Exists, Beyond
\* What the ways of opening do.
<1>2. ASSUME files' \in {files, Opened} PROVE \A fl \in Present' : fl \in Present \/ fl.data = <<>>
  <2>1. \A f \in DOMAIN files' : (f \in DOMAIN files /\ files'[f] = files[f]) \/ files'[f].data = <<>>
    BY <1>2, OpenedIs DEF Exists, Empty
  <2> QED  BY <2>1 DEF Present
<1>3. CASE WriteBegin
  <2>1. UNCHANGED <<files, file, faults>> /\ pc' \in {pc, "rename", "write"} /\ pc = "idle"
        /\ (pc' = "write" => ~NeedRotateBySize(currentSize))
    BY <1>3 DEF WriteBegin, fwVars
  <2>2. ASSUME pc' = "write", file = "open" PROVE Beyond(Len(files[Base].data), faults)
    <3>1. currentSize < cfg.MaxSize /\ currentSize = Len(files[Base].data) /\ currentSize \in Nat
      BY <1>0, <2>1, <2>2 DEF NeedRotateBySize, SizeTracked, TypeOK
    <3> QED  BY <1>0, <3>1, BeyondMore
  <2> QED  BY <1>1, <1>2, <2>1, <2>2
<1>4. CASE Rename
  <2>1. CASE files' = files
    <3>1. pc' = "reopen" /\ ((~Exists(Base) /\ faults' = faults) \/ faults' = faults + 1)
      <4>1. ASSUME Exists(Base), Works, NEW name \in Backups, FirstFree(name), files' = Renamed(name) PROVE FALSE
        BY <2>1, <4>1, RenamedIs DEF Exists
      <4> QED  BY <1>4, <4>1 DEF Rename, MayFail, Works
    <3>2. Exists(Base) => Beyond(Len(files[Base].data), faults + 1)
      BY <1>0 DEF BoundInv
    <3>3. faults' = faults \/ faults <= faults'
      BY <1>0, <3>1
    <3> QED  BY <1>1, <1>2, <2>1, <3>1, <3>2, <3>3 DEF Exists
  <2>2. ASSUME Exists(Base), Works, pc' = "open", NEW name \in Backups, FirstFree(name), files' = Renamed(name) PROVE BoundInv'
    <3>1. /\ DOMAIN files' = (DOMAIN files \ {Base}) \cup {name} /\ name # Base
          /\ files'[name] = files[Base] /\ \A f \in DOMAIN files \ {Base} : files'[f] = files[f]
      BY <2>2, RenamedIs
    <3>2. \A fl \in Present' : fl \in Present
      BY <1>0, <2>2, <3>1 DEF Present
    <3> QED  BY <1>1, <2>2, <3>1, <3>2 DEF Works
  <2> QED  BY <1>4, <2>1, <2>2 DEF Rename
<1>5. CASE Open
  <2>1. ~Exists(Base)
    BY <1>5 DEF Open, BoundInv
  <2>2. CASE openFile /\ Works /\ pc' = "cleanup"
    <3>1. files' = Opened /\ faults' = faults /\ pc' = "cleanup" /\ file' = "open"
      BY <1>5, <2>2 DEF Open, Works, openFile, OpenFails, MayFail
    <3>2. Base \in DOMAIN files' /\ files'[Base].data = <<>>
      BY <2>1, <3>1, OpenedIs DEF Empty
    <3>3. Len(files'[Base].data) = 0
      BY <3>2
    <3> QED  BY <1>0, <1>1, <1>2, <3>1, <3>2, <3>3
  <2>3. CASE OpenFails /\ pc' = AfterRotate("nil")
    <3>1. files' \in {files, Opened} /\ faults' = faults + 1 /\ pc' = "idle"
      BY <2>3, AfterType DEF OpenFails, MayFail
    <3>2. faults <= faults'
      BY <1>0, <3>1
    <3> QED  BY <1>1, <1>2, <3>1, <3>2
  <2> QED  BY <1>5, <2>2, <2>3 DEF Open
<1>6. CASE Reopen
  <2>1. CASE openFile /\ Works
    <3>1. files' = Opened /\ faults' = faults /\ pc' \in {"idle", "write"} /\ pc = "reopen"
      BY <1>6, <2>1, AfterType DEF Reopen, Works, openFile, OpenFails, MayFail
    <3>2. Beyond(Len(files'[Base].data), faults)
      <4>1. CASE Exists(Base)
        BY <3>1, <4>1, OpenedIs DEF BoundInv, Exists
      <4>2. CASE ~Exists(Base)
        <5>1. Len(files'[Base].data) = 0
          BY <3>1, <4>2, OpenedIs DEF Empty
        <5> QED  BY <1>0, <5>1, BeyondMore
      <4> QED  BY <4>1, <4>2
    <3> QED  BY <1>1, <1>2, <3>1, <3>2
  <2>2. CASE OpenFails /\ pc' = AfterRotate("nil")
    <3>1. files' \in {files, Opened} /\ faults' = faults + 1 /\ pc' = "idle"
      BY <2>2, AfterType DEF OpenFails, MayFail
    <3>2. faults <= faults'
      BY <1>0, <3>1
    <3> QED  BY <1>1, <1>2, <3>1, <3>2
  <2> QED  BY <1>6, <2>1, <2>2 DEF Reopen
<1>7. CASE Cleanup \/ CloseEnds \/ CleanupDies
  <2>1. /\ DOMAIN files' \subseteq DOMAIN files /\ \A f \in DOMAIN files' : files'[f] = files[f]
        /\ faults' \in Nat /\ faults <= faults'
    BY <1>7, RemovalType, Bounds DEF Cleanup, CloseEnds, CleanupDies
  <2>2. pc' \in {"idle", "write", "dead"} /\ (pc' = "write" => pc = "cleanup")
    BY <1>7, AfterType DEF Cleanup, CloseEnds, CleanupDies
  <2>3. pc = "cleanup" => Len(files[Base].data) < cfg.MaxSize /\ Base \in DOMAIN files
    BY DEF BoundInv, Exists
  <2>4. pc = "cleanup" => Beyond(Len(files[Base].data), faults')
    BY <1>0, <2>1, <2>3, BeyondMore
  <2>5. \A fl \in Present' : fl \in Present
    BY <2>1 DEF Present
  <2> QED  BY <1>1, <2>1, <2>2, <2>4, <2>5
<1>8. CASE WriteData
  <2>1. pc = "write" /\ pc' \in {"idle", "rename"} /\ writes \in 1 .. MaxWrites
    BY <1>8 DEF WriteData, Pending
  <2>2. CASE files' = files /\ (Works \/ MayFail)
    <3>1. faults <= faults'
      BY <1>0, <2>2 DEF Works, MayFail
    <3> QED  BY <1>1, <1>2, <2>1, <2>2, <3>1
  <2>3. ASSUME NEW n \in Lens, NEW k \in 1 .. n, file = "open", files' = Appended(k), (k = n /\ Works) \/ (k < n /\ MayFail)
        PROVE  BoundInv'
    <3>1. k \in Nat \ {0} /\ k <= n /\ Exists(Base)
      BY <2>3, LensAssumption DEF TypeOK
    <3>2. /\ DOMAIN files' = DOMAIN files /\ \A f \in DOMAIN files \ {Base} : files'[f] = files[f]
          /\ Len(files'[Base].data) = Len(files[Base].data) + k
      BY <2>1, <2>3, <3>1, AppendedIs
    <3>3. Beyond(Len(files[Base].data), faults)
      BY <2>1, <2>3, <3>1 DEF BoundInv
    <3>4. Beyond(Len(files'[Base].data), faults + 1) /\ Beyond(Len(files'[Base].data), faults + 2)
      BY <1>0, <2>3, <3>1, <3>2, <3>3, BeyondMore DEF Exists
    <3>5. faults' \in {faults, faults + 1}
      BY <2>3 DEF Works, MayFail
    <3>6. ASSUME NEW f \in DOMAIN files' \ Foreign PROVE Beyond(Len(files'[f].data), faults' + 1)
      <4>1. CASE f = Base
        BY <1>0, <3>4, <3>5, <4>1
      <4>2. CASE f # Base
        <5>1. files'[f] = files[f] /\ files[f] \in Present /\ Len(files[f].data) \in Nat
          BY <1>0, <3>2, <3>6, <4>2 DEF Present
        <5>2. Beyond(Len(files[f].data), faults + 1)
          BY <5>1 DEF BoundInv
        <5> QED  BY <1>0, <3>5, <5>1, <5>2, BeyondMore
      <4> QED  BY <4>1, <4>2
    <3>7. \A fl \in Present' : Beyond(Len(fl.data), faults + 1)'
      BY <3>6 DEF Present, Beyond
    <3> QED  BY <2>1, <3>7 DEF BoundInv
  <2> QED  BY <1>8, <2>2, <2>3 DEF WriteData, Appended
<1>9. CASE Restart
  <2>1. files' = Opened /\ faults' = faults /\ pc' = "idle"
    BY <1>9 DEF Restart, openFile
  <2> QED  BY <1>1, <1>2, <2>1
<1>10. CASE Background \/ Close \/ Clock \/ UNCHANGED vars
  <2>1. UNCHANGED <<files, file, faults>> /\ (pc' = pc \/ pc' = "rename")
    BY <1>10 DEF Background, Close, Clock, vars, fwVars
  <2> QED  BY <1>1, <1>2, <2>1 DEF BoundInv, Exists
<1> QED  BY <1>3, <1>4, <1>5, <1>6, <1>7, <1>8, <1>9, <1>10 DEF Next, Finished

\* SizeBounded: a file outgrows max_size by less than one Write, and by one
\* more for each failure.
THEOREM SizeIsBounded == Spec => []SizeBounded
<1>1. Init => BoundInv
  <2> SUFFICES ASSUME Init, NEW fl \in Present, cfg.MaxSize > 0 PROVE Beyond(Len(fl.data), faults + 1)
    BY DEF Init, BoundInv
  <2>1. Len(fl.data) = 0 /\ faults = 0 /\ cfg.MaxSize \in Nat /\ TypeOK
    BY TypeInit, ConfigAssumption DEF Init, Present, TypeInv
  <2> QED  BY <2>1, BeyondMore
<1>2. Init => SizeTracked
  BY DEF Init, SizeTracked
<1>3. BoundInv => SizeBounded
  BY DEF BoundInv, SizeBounded, Beyond
<1> QED  BY <1>1, <1>2, <1>3, TypeInit, TypeStep, SizeStep, BoundStep, PTL DEF Spec

-----------------------------------------------------------------------------
(* The oldest go first *)

\* The active file is the last one modified, and no file is from the future.
AgeInv ==
    /\ \A f \in DOMAIN files : files[f].mtime <= clock
    /\ Exists(Base) => \A f \in DOMAIN files : files[f].mtime <= files[Base].mtime
    /\ \A e \in expired : e.mtime <= clock
    /\ OldestGoFirst

\* Files that keep their age, or are as old as the clock.
LEMMA AgeKept ==
    ASSUME TypeOK, AgeInv, clock' \in Nat, clock <= clock', expired' = expired,
           \A f \in DOMAIN files' : \/ files'[f].mtime = clock
                                    \/ \E g \in DOMAIN files :
                                           /\ files'[f].mtime = files[g].mtime
                                           /\ f \notin Foreign \cup spared' => g \notin Foreign \cup spared,
           Base \in DOMAIN files' => \/ files'[Base].mtime = clock
                                     \/ /\ Exists(Base) /\ files'[Base].mtime = files[Base].mtime
                                        /\ files' = files
    PROVE  AgeInv'
<1>1. clock \in Nat /\ (\A f \in DOMAIN files : files[f].mtime \in Nat) /\ \A e \in expired : e.mtime \in Nat
  BY Bounds DEF TypeOK, File
<1>2. \A f \in DOMAIN files' : files'[f].mtime \in Nat /\ files'[f].mtime <= clock /\ files'[f].mtime <= clock'
  BY <1>1 DEF AgeInv
<1>3. Base \in DOMAIN files' => \A f \in DOMAIN files' : files'[f].mtime <= files'[Base].mtime
  BY <1>2 DEF AgeInv
<1>4. \A e \in expired' : e.mtime <= clock'
  BY <1>1 DEF AgeInv
<1>5. OldestGoFirst'
  <2> SUFFICES ASSUME NEW e \in expired, NEW f \in DOMAIN files' \ (Foreign \cup spared') PROVE e.mtime <= files'[f].mtime
    BY DEF OldestGoFirst
  <2>1. CASE files'[f].mtime = clock
    BY <2>1 DEF AgeInv
  <2>2. CASE \E g \in DOMAIN files \ (Foreign \cup spared) : files'[f].mtime = files[g].mtime
    BY <2>2 DEF AgeInv, OldestGoFirst
  <2> QED  BY <2>1, <2>2
<1> QED  BY <1>2, <1>3, <1>4, <1>5 DEF AgeInv, Exists

\* What cleanup removes is no younger than what it leaves.
LEMMA AgeRemoved == ASSUME TypeOK, AgeInv, RemoveAll \/ RemoveSome, clock' = clock PROVE AgeInv'
<1>1. PICK gone, left : Removes(gone, left)
  BY RemovalsAre
<1>2. gone \subseteq Matches /\ left \subseteq Matches /\ spared' = (spared \cup left) \ gone
  BY <1>1 DEF Removes, Remove
<1>3. /\ DOMAIN files' = DOMAIN files \ gone /\ \A f \in DOMAIN files \ gone : files'[f] = files[f]
      /\ expired' = expired \cup {files[f] : f \in gone} /\ gone \subseteq DOMAIN files
  BY <1>1, RemovesType
<1>5. ASSUME NEW e \in gone, NEW f \in DOMAIN files \ (gone \cup left) PROVE files[e].mtime <= files[f].mtime
  <2>1. CASE f = Base
    BY <1>3, <1>5, <2>1 DEF AgeInv, Exists
  <2>2. CASE f # Base
    <3>1. f \in Matches \ (gone \cup left)
      BY <1>5, <2>2 DEF Matches
    <3> QED  BY <1>1, <1>5, <3>1 DEF Removes
  <2> QED  BY <2>1, <2>2
<1>6. \A e \in expired' : e.mtime <= clock'
  BY <1>3 DEF AgeInv
<1>7. OldestGoFirst'
  <2> SUFFICES ASSUME NEW e \in expired', NEW f \in DOMAIN files' \ (Foreign \cup spared') PROVE e.mtime <= files'[f].mtime
    BY DEF OldestGoFirst
  <2>0. f \in DOMAIN files \ (gone \cup left) /\ f \notin spared /\ files'[f] = files[f]
    BY <1>2, <1>3
  <2>1. CASE e \in expired
    BY <2>0, <2>1 DEF AgeInv, OldestGoFirst
  <2>2. CASE \E g \in gone : e = files[g]
    BY <2>0, <1>5, <2>2
  <2> QED  BY <1>3, <2>1, <2>2
<1>8. \A f \in DOMAIN files' : files'[f].mtime <= clock'
  BY <1>3 DEF AgeInv
<1>9. Base \in DOMAIN files' => \A f \in DOMAIN files' : files'[f].mtime <= files'[Base].mtime
  BY <1>3 DEF AgeInv, Exists
<1> QED  BY <1>6, <1>7, <1>8, <1>9 DEF AgeInv, Exists

LEMMA AgeStep == TypeInv /\ AgeInv /\ [Next]_vars => AgeInv'
<1> SUFFICES ASSUME TypeInv, AgeInv, [Next]_vars PROVE AgeInv'
  OBVIOUS
<1> USE DEF TypeInv
<1>0. clock \in Nat
  BY Bounds DEF TypeOK
\* A step that leaves the files.
<1>1. ASSUME files' = files, expired' = expired, spared' = spared, clock' \in {clock, clock + 1} PROVE AgeInv'
  BY <1>0, <1>1, AgeKept DEF Exists
<1>2. ASSUME files' = Opened, expired' = expired, spared' = spared, clock' = clock PROVE AgeInv'
  <2>1. CASE Exists(Base)
    BY <1>1, <1>2, <2>1 DEF Opened
  <2>2. CASE ~Exists(Base)
    <3>1. /\ \A f \in DOMAIN files' : files'[f].mtime = clock \/ (f \in DOMAIN files /\ files'[f] = files[f])
          /\ files'[Base].mtime = clock
      BY <1>2, <2>2, OpenedIs DEF Empty, Exists
    <3> QED  BY <1>0, <1>2, <3>1, AgeKept
  <2> QED  BY <2>1, <2>2
<1>3. CASE Rename
  <2>1. ASSUME Exists(Base), NEW name \in Backups, FirstFree(name), files' = Renamed(name) PROVE AgeInv'
    <3>1. /\ DOMAIN files' = (DOMAIN files \ {Base}) \cup {name} /\ name # Base /\ Base \notin Foreign
          /\ files'[name] = files[Base] /\ \A f \in DOMAIN files \ {Base} : files'[f] = files[f]
      BY <2>1, RenamedIs, NamesAssumption
    <3>2. \A f \in DOMAIN files' : \E g \in DOMAIN files :
              files'[f].mtime = files[g].mtime /\ (f \notin Foreign \cup spared' => g \notin Foreign \cup spared)
      <4>1. spared' = spared /\ Base \notin spared
        BY <1>3 DEF Rename, TypeOK, Matches
      <4> QED  BY <2>1, <3>1, <4>1 DEF Exists
    <3>3. clock' = clock /\ expired' = expired /\ Base \notin DOMAIN files'
      BY <1>3, <3>1 DEF Rename
    <3> QED  BY <1>0, <3>2, <3>3, AgeKept
  <2>2. CASE files' = files
    BY <1>1, <1>3, <2>2 DEF Rename
  <2> QED  BY <1>3, <2>1, <2>2 DEF Rename
<1>4. CASE WriteData
  <2>1. ASSUME file = "open", NEW k \in Nat \ {0}, files' = Appended(k) PROVE AgeInv'
    <3>1. Exists(Base) /\ writes \in 1 .. MaxWrites
      BY <1>4, <2>1 DEF TypeOK, Pending, WriteData
    <3>2. /\ DOMAIN files' = DOMAIN files /\ files'[Base].mtime = clock
          /\ \A f \in DOMAIN files \ {Base} : files'[f] = files[f]
      <4> DEFINE d == files[Base].data \o [i \in 1 .. k |-> writes]
      <4>1. Appended(k)[Base] = [data |-> d, mtime |-> clock]
        BY <3>1, AppendedIs
      <4>2. DOMAIN Appended(k) = DOMAIN files /\ \A f \in DOMAIN files \ {Base} : Appended(k)[f] = files[f]
        BY <3>1, AppendedIs
      <4> HIDE DEF d
      <4> QED  BY <2>1, <4>1, <4>2
    <3>3. clock' = clock /\ expired' = expired /\ spared' = spared
      BY <1>4 DEF WriteData
    <3> QED  BY <1>0, <3>2, <3>3, AgeKept
  <2>2. CASE files' = files
    BY <1>1, <1>4, <2>2 DEF WriteData
  <2>3. files' = files \/ (file = "open" /\ \E k \in Nat \ {0} : files' = Appended(k))
    <3>1. \A n \in Lens : \A k \in 1 .. n : k \in Nat \ {0}
      BY LensAssumption
    <3> QED  BY <1>4, <3>1 DEF WriteData, Appended
  <2> QED  BY <2>1, <2>2, <2>3
<1>5. CASE Cleanup \/ CloseEnds \/ CleanupDies
  BY <1>5, AgeRemoved DEF Cleanup, CloseEnds, CleanupDies
<1>6. CASE Open \/ Reopen \/ Restart
  BY <1>1, <1>2, <1>6 DEF Open, Reopen, Restart, openFile, OpenFails
<1>7. CASE WriteBegin \/ Background \/ Close \/ Clock \/ UNCHANGED vars
  BY <1>1, <1>7 DEF WriteBegin, Background, Close, Clock, vars
<1> QED  BY <1>3, <1>4, <1>5, <1>6, <1>7 DEF Next, Finished

\* OldestGoFirst: whatever cleanup removed, by number or by age, is no younger
\* than anything this writer still has.
THEOREM TheOldestGoFirst == Spec => []OldestGoFirst
<1>1. Init => AgeInv
  BY DEF Init, AgeInv, OldestGoFirst, Exists
<1>2. AgeInv => OldestGoFirst
  BY DEF AgeInv
<1> QED  BY <1>1, <1>2, TypeInit, TypeStep, AgeStep, PTL DEF Spec

-----------------------------------------------------------------------------
(* The number of backups *)

\* Glob orders any two names.
LEMMA GlobOrders ==
    \A a, b, c \in Backups \cup Foreign :
        /\ ~NameBefore(a, a)
        /\ NameBefore(a, b) /\ NameBefore(b, c) => NameBefore(a, c)
        /\ a # b => NameBefore(a, b) \/ NameBefore(b, a)
<1> SUFFICES ASSUME NEW a \in Backups \cup Foreign, NEW b \in Backups \cup Foreign, NEW c \in Backups \cup Foreign
             PROVE  /\ ~NameBefore(a, a)
                    /\ NameBefore(a, b) /\ NameBefore(b, c) => NameBefore(a, c)
                    /\ a # b => NameBefore(a, b) \/ NameBefore(b, a)
  OBVIOUS
<1>1. Backups \cup Foreign \subseteq Int \X Nat
  BY Bounds, NamesAssumption DEF Backups
<1>2. /\ a[1] \in Int /\ a[2] \in Nat /\ b[1] \in Int /\ b[2] \in Nat /\ c[1] \in Int /\ c[2] \in Nat
      /\ a = <<a[1], a[2]>> /\ b = <<b[1], b[2]>>
  BY <1>1
<1>3. a # b => a[1] # b[1] \/ a[2] # b[2]
  BY <1>2
<1> QED  BY <1>2, <1>3 DEF NameBefore

\* So does the order of cleanup.
LEMMA CleanupOrders ==
    ASSUME TypeOK
    PROVE  \A f, g, h \in Matches :
               /\ ~SortedBefore(f, f)
               /\ SortedBefore(f, g) /\ SortedBefore(g, h) => SortedBefore(f, h)
               /\ f # g => SortedBefore(f, g) \/ SortedBefore(g, f)
<1>1. Matches \subseteq Backups \cup Foreign /\ \A f \in Matches : files[f].mtime \in Int
  BY DEF Matches, TypeOK, Names, File
<1> SUFFICES ASSUME NEW f \in Matches, NEW g \in Matches, NEW h \in Matches
             PROVE  /\ ~SortedBefore(f, f)
                    /\ SortedBefore(f, g) /\ SortedBefore(g, h) => SortedBefore(f, h)
                    /\ f # g => SortedBefore(f, g) \/ SortedBefore(g, f)
  OBVIOUS
<1>2. /\ ~NameBefore(f, f)
      /\ NameBefore(f, g) /\ NameBefore(g, h) => NameBefore(f, h)
      /\ f # g => NameBefore(f, g) \/ NameBefore(g, f)
  BY <1>1, GlobOrders
<1>3. files[f].mtime \in Int /\ files[g].mtime \in Int /\ files[h].mtime \in Int
  BY <1>1
<1> QED  BY <1>2, <1>3 DEF SortedBefore

\* The backups with fewer than m after them are at most m: no two have the same
\* number after them.
LEMMA FewAfter ==
    ASSUME TypeOK, NEW seen \in SUBSET Matches, NEW m \in Nat
    PROVE  LET last == {f \in seen : Cardinality({g \in seen : SortedBefore(f, g)}) < m}
           IN  IsFiniteSet(last) /\ Cardinality(last) <= m
<1> DEFINE After(x) == {g \in seen : SortedBefore(x, g)}
           last == {f \in seen : Cardinality(After(f)) < m}
           rank == [f \in last |-> Cardinality(After(f))]
<1>1. \A f \in seen : IsFiniteSet(After(f)) /\ Cardinality(After(f)) \in Nat
  <2> SUFFICES ASSUME NEW f \in seen PROVE IsFiniteSet(After(f)) /\ Cardinality(After(f)) \in Nat
    OBVIOUS
  <2>1. After(f) \in SUBSET Matches
    OBVIOUS
  <2>2. IsFiniteSet(After(f))
    BY <2>1, MatchesFinite, FS_Subset
  <2> QED  BY <2>2, FS_CardinalityType
<1>2. ASSUME NEW f \in seen, NEW g \in seen, SortedBefore(f, g)
      PROVE  Cardinality(After(f)) # Cardinality(After(g))
  <2>1. After(g) \in SUBSET After(f)
    BY <1>2, CleanupOrders
  <2>2. g \in After(f) /\ g \notin After(g)
    BY <1>2, CleanupOrders
  <2>3. IsFiniteSet(After(f))
    BY <1>1
  <2> HIDE DEF After
  <2> QED  BY <2>1, <2>2, <2>3, FS_Subset
<1>3. rank \in [last -> 0 .. m - 1]
  BY <1>1
<1>4. \A f, g \in last : f # g => rank[f] # rank[g]
  <2> SUFFICES ASSUME NEW f \in last, NEW g \in last, f # g PROVE rank[f] # rank[g]
    OBVIOUS
  <2>1. SortedBefore(f, g) \/ SortedBefore(g, f)
    BY CleanupOrders
  <2>2. Cardinality(After(f)) # Cardinality(After(g))
    BY <1>2, <2>1
  <2> QED  BY <2>2
<1>5. IsFiniteSet(0 .. m - 1) /\ Cardinality(0 .. m - 1) = m
  BY FS_Interval
<1> HIDE DEF rank, last
<1>6. rank \in Injection(last, 0 .. m - 1)
  BY <1>3, <1>4 DEF Injection, IsInjective
<1>7. IsFiniteSet(last) /\ Cardinality(last) <= m
  BY <1>5, <1>6, FS_Injection
<1> QED  BY <1>7 DEF last

\* Of which cleanup keeps some, and what it fails at.
LEMMA RemoveLeavesFew ==
    ASSUME TypeOK, RemoveAll, cfg.MaxBackups > 0
    PROVE  Cardinality(Matches') + faults <= cfg.MaxBackups + faults'
<1>0. PICK unseen \in SUBSET Matches : \E kept \in SUBSET Doomed(unseen) :
               Remove(Doomed(unseen) \ kept, unseen \cup kept)
  BY DEF RemoveAll
<1>1. PICK kept \in SUBSET Doomed(unseen) : Remove(Doomed(unseen) \ kept, unseen \cup kept)
  BY <1>0
<1> DEFINE seen == Matches \ unseen
           left == unseen \cup kept
           last == {f \in seen : Cardinality({g \in seen : SortedBefore(f, g)}) < cfg.MaxBackups}
<1>2. cfg.MaxBackups \in Nat /\ faults \in Nat
  BY ConfigAssumption, Bounds DEF TypeOK
<1>3. IsFiniteSet(last) /\ Cardinality(last) <= cfg.MaxBackups
  <2>1. seen \in SUBSET Matches
    OBVIOUS
  <2> HIDE DEF seen
  <2> QED  BY <1>2, <2>1, FewAfter
<1>4. IsFiniteSet(left) /\ Cardinality(left) \in Nat
  <2>1. left \in SUBSET Matches
    BY DoomedIsOldest
  <2> HIDE DEF left
  <2> QED  BY <2>1, MatchesFinite, FS_Subset, FS_CardinalityType
<1>5. Matches' \in SUBSET (last \cup left)
  <2>1. DOMAIN files' = DOMAIN files \ (Doomed(unseen) \ kept)
    BY <1>1, WithoutIs DEF Remove
  <2>2. \A f \in seen : Cardinality({g \in seen : SortedBefore(f, g)}) \in Nat
    <3> SUFFICES ASSUME NEW f \in seen PROVE Cardinality({g \in seen : SortedBefore(f, g)}) \in Nat
      OBVIOUS
    <3>1. {g \in seen : SortedBefore(f, g)} \in SUBSET Matches
      OBVIOUS
    <3>2. IsFiniteSet({g \in seen : SortedBefore(f, g)})
      BY <3>1, MatchesFinite, FS_Subset
    <3> QED  BY <3>2, FS_CardinalityType
  <2>3. \A f \in seen : f \notin Excess(seen) => f \in last
    BY <1>2, <2>2 DEF Excess
  <2>4. Excess(seen) \subseteq Doomed(unseen)
    BY DEF Doomed
  <2>5. Matches' \subseteq Matches \ (Doomed(unseen) \ kept)
    BY <2>1 DEF Matches
  <2> HIDE DEF last
  <2> QED  BY <2>3, <2>4, <2>5
<1>6. faults' = faults + Cardinality(left)
  BY <1>1 DEF Remove
<1> HIDE DEF last, left
<1>7. /\ IsFiniteSet(last \cup left)
      /\ Cardinality(last \cup left) = Cardinality(last) + Cardinality(left) - Cardinality(last \cap left)
  BY <1>3, <1>4, FS_Union
<1>8. Cardinality(last \cap left) \in Nat
  <2>1. last \cap left \in SUBSET last
    OBVIOUS
  <2> QED  BY <1>3, <2>1, FS_Subset, FS_CardinalityType
<1>9. Cardinality(Matches') <= Cardinality(last \cup left) /\ Cardinality(Matches') \in Nat
  BY <1>5, <1>7, FS_Subset, FS_CardinalityType
<1>10. Cardinality(last) \in Nat
  BY <1>3, FS_CardinalityType
<1> QED  BY <1>2, <1>3, <1>4, <1>6, <1>7, <1>8, <1>9, <1>10

\* A rotation that is not over has one backup more, and leaves it when it fails
\* or the process dies.
Extra == IF pc \in {"open", "cleanup", "dead"} THEN 1 ELSE 0

CountInv ==
    cfg.MaxBackups > 0 =>
        \E n \in {cfg.MaxBackups, Cardinality(Foreign)} : Cardinality(Matches) <= n + faults + restarts + Extra

LEMMA CountInit == Init => CountInv
<1> SUFFICES ASSUME Init PROVE Cardinality(Matches) <= Cardinality(Foreign) + faults + restarts + Extra
  BY DEF CountInv
<1>1. Matches = Foreign /\ faults = 0 /\ restarts = 0 /\ Extra = 0
  BY NamesAssumption DEF Init, Matches, Extra
<1>2. Cardinality(Foreign) \in Nat
  BY NamesAssumption, FS_CardinalityType
<1> QED  BY <1>1, <1>2

\* A step may add as many backups as it adds to the faults, the restarts and
\* the rotations under way.
LEMMA CountKept ==
    ASSUME TypeOK, TypeOK', CountInv, cfg' = cfg,
           Cardinality(Matches') + faults + restarts + Extra <= Cardinality(Matches) + faults' + restarts' + Extra'
    PROVE  CountInv'
<1> SUFFICES ASSUME cfg.MaxBackups > 0
             PROVE  \E n \in {cfg.MaxBackups, Cardinality(Foreign)} :
                        Cardinality(Matches') <= n + faults' + restarts' + Extra'
  BY DEF CountInv
<1>1. PICK n \in {cfg.MaxBackups, Cardinality(Foreign)} : Cardinality(Matches) <= n + faults + restarts + Extra
  BY DEF CountInv
<1>2. n \in Nat
  BY ConfigAssumption, NamesAssumption, FS_CardinalityType DEF TypeOK
<1>3. Cardinality(Matches) \in Nat /\ Cardinality(Matches') \in Nat
  BY NamesFinite DEF TypeOK, Matches
<1>4. faults \in Nat /\ restarts \in Nat /\ faults' \in Nat /\ restarts' \in Nat /\ Extra \in Nat /\ Extra' \in Nat
  BY Bounds DEF TypeOK, Extra
<1>5. Cardinality(Matches') <= n + faults' + restarts' + Extra'
  BY <1>1, <1>2, <1>3, <1>4
<1> QED  BY <1>5

LEMMA CountStep == TypeInv /\ TypeInv' /\ CountInv /\ [Next]_vars => CountInv'
<1> SUFFICES ASSUME TypeInv, TypeInv', CountInv, [Next]_vars PROVE CountInv'
  OBVIOUS
<1>0. TypeOK /\ TypeOK' /\ IsFiniteSet(Matches) /\ Cardinality(Matches) \in Nat
  BY MatchesFinite, FS_CardinalityType DEF TypeInv
<1>1. /\ faults \in Nat /\ restarts \in Nat /\ faults' \in Nat /\ restarts' \in Nat
      /\ Extra \in Nat /\ Extra' \in Nat /\ Extra <= 1
  BY <1>0, Bounds DEF TypeOK, Extra
<1>2. pc \notin {"open", "cleanup", "dead"} \/ pc' = pc \/ pc' \in {"open", "cleanup", "dead"} => Extra <= Extra'
  BY DEF Extra
\* The directory keeps its backups, and what a rotation loses is counted.
<1>3. ASSUME DOMAIN files' \ {Base} = DOMAIN files \ {Base}, cfg' = cfg,
             faults <= faults', restarts <= restarts',
             Extra <= Extra' \/ faults < faults' \/ restarts < restarts'
      PROVE  CountInv'
  <2>1. Matches' = Matches
    BY <1>3 DEF Matches
  <2>2. Cardinality(Matches') + faults + restarts + Extra <= Cardinality(Matches) + faults' + restarts' + Extra'
    <3>1. Cardinality(Matches') = Cardinality(Matches)
      BY <2>1
    <3> QED  BY <1>0, <1>1, <1>3, <3>1
  <2> QED  BY <1>0, <1>3, <2>2, CountKept
<1>4. ASSUME RemoveAll, cfg' = cfg PROVE CountInv'
  <2> SUFFICES ASSUME cfg.MaxBackups > 0
               PROVE  Cardinality(Matches') <= cfg.MaxBackups + faults' + restarts' + Extra'
    BY <1>4 DEF CountInv
  <2>1. Cardinality(Matches') + faults <= cfg.MaxBackups + faults'
    BY <1>0, <1>4, RemoveLeavesFew
  <2>2. Cardinality(Matches') \in Nat /\ cfg.MaxBackups \in Nat
    BY <1>0, NamesFinite, ConfigAssumption DEF TypeOK, Matches
  <2> QED  BY <1>0, <1>1, <2>1, <2>2
<1>5. DOMAIN Opened \ {Base} = DOMAIN files \ {Base}
  BY <1>0, OpenedIs
<1>6. CASE Rename
  <2>1. cfg' = cfg /\ restarts' = restarts /\ pc = "rename"
    BY <1>6 DEF Rename
  <2>2. ASSUME Exists(Base), Works, NEW name \in Backups, FirstFree(name), files' = Renamed(name), pc' = "open"
        PROVE  CountInv'
    <3>1. Matches' = Matches \cup {name} /\ name \notin Matches
      BY <1>0, <2>2, RenamedIs DEF Matches
    <3>2. Cardinality(Matches') = Cardinality(Matches) + 1
      BY <1>0, <3>1, FS_AddElement
    <3>3. Extra = 0 /\ Extra' = 1 /\ faults' = faults
      BY <2>1, <2>2 DEF Works, Extra
    <3>4. Cardinality(Matches') + faults + restarts + Extra <= Cardinality(Matches) + faults' + restarts' + Extra'
      BY <1>0, <1>1, <2>1, <3>2, <3>3
    <3> QED  BY <1>0, <2>1, <3>4, CountKept
  <2>3. CASE files' = files /\ (MayFail \/ Works)
    <3>1. faults <= faults' /\ restarts <= restarts'
      BY <1>1, <2>1, <2>3 DEF MayFail, Works
    <3> QED  BY <1>3, <1>2, <2>1, <2>3, <3>1
  <2> QED  BY <1>6, <2>2, <2>3 DEF Rename
<1>7. CASE Open \/ Reopen
  <2>1. cfg' = cfg /\ restarts' = restarts /\ files' \in {files, Opened}
    BY <1>7 DEF Open, Reopen, openFile, OpenFails
  <2>2. CASE OpenFails
    <3>1. faults < faults' /\ faults <= faults' /\ restarts <= restarts'
      BY <1>1, <2>1, <2>2 DEF OpenFails, MayFail
    <3> QED  BY <1>3, <1>5, <2>1, <3>1
  <2>3. CASE openFile /\ Works /\ ~OpenFails
    <3>1. faults <= faults' /\ restarts <= restarts'
      BY <1>1, <2>1, <2>3 DEF Works
    <3>2. pc = "reopen" \/ pc' = "cleanup"
      BY <1>7, <2>3 DEF Open, Reopen
    <3> QED  BY <1>3, <1>5, <1>2, <2>1, <3>1, <3>2
  <2> QED  BY <1>7, <2>2, <2>3 DEF Open, Reopen
<1>8. CASE Cleanup \/ CloseEnds
  BY <1>4, <1>8 DEF Cleanup, CloseEnds, fwVars
<1>9. CASE WriteData
  <2>1. DOMAIN files' = DOMAIN files
    BY <1>9, WriteType
  <2>2. cfg' = cfg /\ restarts' = restarts /\ (MayFail \/ Works) /\ pc = "write"
    BY <1>9 DEF WriteData
  <2>3. faults <= faults' /\ restarts <= restarts'
    BY <1>1, <2>2 DEF MayFail, Works
  <2> QED  BY <1>3, <1>2, <2>1, <2>2, <2>3
<1>10. CASE Restart
  <2>1. cfg' = cfg /\ restarts' = restarts + 1 /\ faults' = faults /\ files' = Opened
    BY <1>10 DEF Restart, openFile
  <2>2. faults <= faults' /\ restarts <= restarts' /\ restarts < restarts'
    BY <1>1, <2>1
  <2> QED  BY <1>3, <1>5, <2>1, <2>2
<1>11. CASE WriteBegin \/ Background \/ Close \/ Clock \/ UNCHANGED vars
  <2>1. UNCHANGED <<files, cfg, faults, restarts>> /\ (pc = "idle" \/ pc' = pc)
    BY <1>11 DEF WriteBegin, Background, Close, Clock, vars, fwVars
  <2>2. faults <= faults' /\ restarts <= restarts'
    BY <1>1, <2>1
  <2> QED  BY <1>3, <1>2, <2>1, <2>2
<1>12. CASE CleanupDies
  <2>1. DOMAIN files' \subseteq DOMAIN files /\ faults <= faults'
    BY <1>0, <1>12, RemovalType DEF CleanupDies
  <2>2. Matches' \in SUBSET Matches
    BY <2>1 DEF Matches
  <2>3. Cardinality(Matches') <= Cardinality(Matches) /\ Cardinality(Matches') \in Nat
    BY <1>0, <2>2, FS_Subset, FS_CardinalityType
  <2>4. cfg' = cfg /\ restarts' = restarts /\ Extra' = 1
    BY <1>12 DEF CleanupDies, fwVars, Extra
  <2>5. Cardinality(Matches') + faults + restarts + Extra <= Cardinality(Matches) + faults' + restarts' + Extra'
    BY <1>0, <1>1, <2>1, <2>3, <2>4
  <2> QED  BY <1>0, <2>4, <2>5, CountKept
<1> QED  BY <1>6, <1>7, <1>8, <1>9, <1>10, <1>11, <1>12 DEF Next, Finished

\* BackupsBounded: only a rotation adds a backup, and its cleanup, which keeps
\* MaxBackups of them, is missed only by one that failed or whose process died.
THEOREM BackupsAreBounded == Spec => []BackupsBounded
<1>1. CountInv /\ TypeOK => BackupsBounded
  <2> SUFFICES ASSUME CountInv, TypeOK, cfg.MaxBackups > 0, pc = "idle"
               PROVE  \E n \in {cfg.MaxBackups, Cardinality(Foreign)} : Cardinality(Matches) <= n + faults + restarts
    BY DEF BackupsBounded
  <2>1. PICK n \in {cfg.MaxBackups, Cardinality(Foreign)} : Cardinality(Matches) <= n + faults + restarts + Extra
    BY DEF CountInv
  <2>2. n \in Nat /\ faults \in Nat /\ restarts \in Nat /\ Extra = 0
    BY ConfigAssumption, NamesAssumption, FS_CardinalityType, Bounds DEF TypeOK, Extra
  <2>3. Cardinality(Matches) <= n + faults + restarts
    BY <2>1, <2>2
  <2> QED  BY <2>3
<1>2. TypeInv => TypeOK
  BY DEF TypeInv
<1> QED  BY <1>1, <1>2, CountInit, TypeInit, TypeStep, CountStep, PTL DEF Spec

=============================================================================
