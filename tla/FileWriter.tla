----------------------------- MODULE FileWriter -----------------------------
(***************************************************************************)
(* internal/writer/file_writer.go: an append-only log file, rotated by     *)
(* size inside Write and by time in a background goroutine, with cleanup   *)
(* of old backups.  The mutex makes Write and a background rotation        *)
(* critical sections; their steps are apart because each one can fail and  *)
(* the process can die between any two.                                    *)
(*                                                                         *)
(* A Write is numbered; the content of a file is the sequence of the       *)
(* numbers of its bytes.  Time is a coarse clock.                          *)
(***************************************************************************)
EXTENDS Integers, Sequences, FiniteSets, Functions

CONSTANTS
    Configs,      \* FileWriterConfigs: records of four limits, where 0 disables
    Lens,         \* sizes of a Write
    Base,         \* the active file, BaseName + Ext
    Foreign,      \* files of other loggers that match BaseName-*Ext, as pairs in Glob's order
    MaxWrites, MaxClock, MaxFaults, MaxRestarts   \* bounds

ASSUME ConfigAssumption == Configs \subseteq [MaxSize : Nat, MaxBackups : Nat, MaxAge : Nat, Interval : Nat]
ASSUME LensAssumption   == Lens \subseteq Nat \ {0} /\ Lens # {}
ASSUME BoundAssumption  == {MaxWrites, MaxClock, MaxFaults, MaxRestarts} \subseteq Nat

\* Backups are named by a time stamp and the suffix of the collision loop.
Backups == (0 .. MaxClock) \X (0 .. MaxWrites)
Names   == {Base} \cup Backups \cup Foreign
Content == Seq(1 .. MaxWrites)

ASSUME NamesAssumption == /\ Base \notin Backups \cup Foreign /\ Foreign \cap Backups = {}
                          /\ Foreign \subseteq Int \X Nat /\ IsFiniteSet(Foreign)

VARIABLES
    cfg,          \* chosen at the start
    files,        \* the directory: name |-> data and mtime
    file,         \* FileWriter.file: "open", "nil", or "closed"
    currentSize,
    createdAt,
    closed,
    tick,         \* the ticker's channel holds a tick
    pc,           \* step of the critical section; "idle" when mu is free
    then,         \* what follows the rotation: "write" or "return"
    writes,       \* Writes so far
    clock, faults, restarts,
    acked,        \* history: bytes written per Write
    expired,      \* history: removed backups
    spared        \* history: backups that a cleanup failed to look at or to remove

fwVars == <<cfg, file, currentSize, createdAt, closed>>
vars == <<files, fwVars, tick, pc, then, writes, clock, faults, restarts, acked, expired, spared>>

-----------------------------------------------------------------------------
(* File system *)

Exists(f) == f \in DOMAIN files
Empty == [data |-> <<>>, mtime |-> clock]

\* OpenFile with O_CREATE and O_APPEND.
Opened == IF Exists(Base) THEN files
          ELSE [f \in DOMAIN files \cup {Base} |-> IF f = Base THEN Empty ELSE files[f]]

Without(fs) == Restrict(files, DOMAIN files \ fs)

MayFail == faults < MaxFaults /\ faults' = faults + 1
Works   == faults' = faults

-----------------------------------------------------------------------------
(* openFile, rotate, cleanup *)

\* Fault: the size of an existing file is not taken over.
OpenFileSizeZero ==
    /\ files' = Opened
    /\ file' = "open"
    /\ currentSize' = 0
    /\ createdAt' = files'[Base].mtime

openFile ==
    /\ files' = Opened
    /\ file' = "open"
    /\ currentSize' = Len(files'[Base].data)
    /\ createdAt' = files'[Base].mtime

\* OpenFile fails, or Stat does, after it created the file.
OpenFails ==
    /\ MayFail
    /\ files' \in {files, Opened}
    /\ UNCHANGED <<file, currentSize, createdAt>>

NeedRotateBySize(size) == cfg.MaxSize > 0 /\ size >= cfg.MaxSize
NeedRotateByTime == cfg.Interval > 0 /\ clock - createdAt >= cfg.Interval

\* Fault: no loop around a name that is taken.
FirstFreeUnchecked(name) == name = <<clock, 0>>

\* The first free name for the time stamp.
FirstFree(name) ==
    /\ name[1] = clock /\ ~Exists(name)
    /\ \A k \in 0 .. name[2] - 1 : Exists(<<clock, k>>)

\* The active file becomes the backup of that name.
Renamed(name) ==
    [f \in (DOMAIN files \ {Base}) \cup {name} |-> IF f = name THEN files[Base] ELSE files[f]]

\* rotate: close the handle and rename the file, if it exists.
Rename ==
    /\ pc = "rename"
    /\ file' = "nil"
    /\ \/ /\ Exists(Base) /\ Works
          /\ \E name \in Backups : FirstFree(name) /\ files' = Renamed(name)
          /\ pc' = "open"
       \/ /\ (~Exists(Base) /\ Works) \/ MayFail
          /\ pc' = "reopen"
          /\ UNCHANGED files
    /\ UNCHANGED <<cfg, currentSize, createdAt, closed, tick, then, writes, clock, restarts, acked, expired, spared>>

\* Where rotate returns to: a Write goes on if there is a file.
AfterRotate(f) == IF then = "write" /\ f = "open" THEN "write" ELSE "idle"

\* rotate: open a new file after the rename...
Open ==
    /\ pc = "open"
    /\ \/ openFile /\ Works /\ pc' = "cleanup"
       \/ OpenFails /\ pc' = AfterRotate("nil")
    /\ UNCHANGED <<cfg, closed, tick, then, writes, clock, restarts, acked, expired, spared>>

\* ... or the old one when the rename failed.
Reopen ==
    /\ pc = "reopen"
    /\ \/ openFile /\ Works /\ pc' = AfterRotate("open")
       \/ OpenFails /\ pc' = AfterRotate("nil")
    /\ UNCHANGED <<cfg, closed, tick, then, writes, clock, restarts, acked, expired, spared>>

\* Glob yields names in lexical order: "base-ts-1.log" is before "base-ts.log".
NameBefore(a, b) ==
    \/ a[1] < b[1]
    \/ a[1] = b[1] /\ a[2] # 0 /\ (b[2] = 0 \/ a[2] < b[2])

\* Fault: the newest backups go first.
SortedBeforeReversed(a, b) ==
    \/ files[a].mtime > files[b].mtime
    \/ files[a].mtime = files[b].mtime /\ NameBefore(a, b)

\* The order cleanup sorts by: modification time, and Glob's order among equals.
SortedBefore(a, b) ==
    \/ files[a].mtime < files[b].mtime
    \/ files[a].mtime = files[b].mtime /\ NameBefore(a, b)

Matches == DOMAIN files \ {Base}    \* what Glob finds

\* Of the files seen, the first ones in that order beyond MaxBackups.
Excess(seen) ==
    IF cfg.MaxBackups = 0 THEN {}
    ELSE {f \in seen : Cardinality({g \in seen : SortedBefore(f, g)}) >= cfg.MaxBackups}

TooOld(seen) == IF cfg.MaxAge = 0 THEN {} ELSE {f \in seen : files[f].mtime < clock - cfg.MaxAge}

\* What cleanup is to remove: a file of which os.Stat fails is left out.
Doomed(unseen) == Excess(Matches \ unseen) \cup TooOld(Matches \ unseen)

\* The files of gone are removed; for each of left, os.Stat or os.Remove failed.
Remove(gone, left) ==
    /\ files' = Without(gone)
    /\ expired' = expired \cup {files[f] : f \in gone}
    /\ spared' = (spared \cup left) \ gone
    /\ faults + Cardinality(left) <= MaxFaults /\ faults' = faults + Cardinality(left)

\* cleanup goes on to the next file after each failure.
RemoveAll ==
    \E unseen \in SUBSET Matches : \E kept \in SUBSET Doomed(unseen) :
        Remove(Doomed(unseen) \ kept, unseen \cup kept)

\* It removes in that order, and the process dies before it gets to f.
Before(f, unseen) == {g \in Doomed(unseen) : SortedBefore(g, f)}
RemoveSome ==
    \E unseen \in SUBSET Matches : \E f \in Doomed(unseen) : \E kept \in SUBSET Before(f, unseen) :
        Remove(Before(f, unseen) \ kept, unseen \cup kept)

\* Fault: backups are not cleaned up.
CleanupSkipped ==
    /\ pc = "cleanup"
    /\ pc' = AfterRotate(file)
    /\ UNCHANGED <<files, fwVars, tick, then, writes, clock, faults, restarts, acked, expired, spared>>

Cleanup ==
    /\ pc = "cleanup"
    /\ RemoveAll
    /\ pc' = AfterRotate(file)
    /\ UNCHANGED <<fwVars, tick, then, writes, clock, restarts, acked>>

-----------------------------------------------------------------------------
(* Write *)

\* Fault: Write does not test the size before it writes.
WriteBeginNoCheck ==
    /\ pc = "idle" /\ writes < MaxWrites
    /\ writes' = writes + 1
    /\ ~closed
    /\ pc' = "write"
    /\ then' = "return"
    /\ UNCHANGED <<files, fwVars, tick, clock, faults, restarts, acked, expired, spared>>

\* Write takes the mutex; when closed it returns an error at once.
WriteBegin ==
    /\ pc = "idle" /\ writes < MaxWrites
    /\ writes' = writes + 1
    /\ IF closed THEN UNCHANGED <<pc, then>>
       ELSE IF NeedRotateBySize(currentSize) THEN pc' = "rename" /\ then' = "write"
       ELSE pc' = "write" /\ UNCHANGED then
    /\ UNCHANGED <<files, fwVars, tick, clock, faults, restarts, acked, expired, spared>>

\* os.File.Write of n bytes, of which k get into the file; none do when it
\* fails at once or is a nil *os.File.
WriteData ==
    /\ pc = "write"
    /\ \/ /\ file = "open"
          /\ \E n \in Lens : \E k \in 1 .. n :
                /\ (k = n /\ Works) \/ (k < n /\ MayFail)
                /\ files' = [files EXCEPT ![Base].data = @ \o [i \in 1 .. k |-> writes],
                                          ![Base].mtime = clock]
                /\ acked' = [acked EXCEPT ![writes] = k]
                /\ currentSize' = currentSize + k
       \/ /\ (file = "nil" /\ Works) \/ (file = "open" /\ MayFail)
          /\ UNCHANGED <<files, acked, currentSize>>
    /\ then' = "return"
    /\ pc' = IF NeedRotateBySize(currentSize') THEN "rename" ELSE "idle"
    /\ UNCHANGED <<cfg, file, createdAt, closed, tick, writes, clock, restarts, expired, spared>>

-----------------------------------------------------------------------------
(* The background goroutine, Close, the process *)

\* A tick: rotate if it is time to, under the mutex.
Background ==
    /\ tick /\ pc = "idle"
    /\ tick' = FALSE
    /\ IF ~closed /\ (NeedRotateBySize(currentSize) \/ NeedRotateByTime)
       THEN pc' = "rename" /\ then' = "return"
       ELSE UNCHANGED <<pc, then>>
    /\ UNCHANGED <<files, fwVars, writes, clock, faults, restarts, acked, expired, spared>>

\* Close: refuse Writes from now on; wait for the critical section.
Close ==
    /\ pc = "idle" /\ ~closed
    /\ closed' = TRUE
    /\ UNCHANGED <<cfg, files, file, currentSize, createdAt, tick, pc, then, writes, clock, faults, restarts, acked,
                   expired, spared>>

\* Close: the file is closed, the goroutine has ended, and cleanup runs.
CloseEnds ==
    /\ closed /\ file # "closed" /\ pc = "idle"
    /\ file' = "closed"
    /\ tick' = FALSE
    /\ RemoveAll
    /\ UNCHANGED <<cfg, currentSize, createdAt, closed, pc, then, writes, clock, restarts, acked>>

\* The process dies in the middle of a cleanup, of a rotation or of Close.
CleanupDies ==
    /\ pc = "cleanup" \/ (closed /\ file # "closed" /\ pc = "idle")
    /\ restarts < MaxRestarts
    /\ RemoveSome
    /\ pc' = "dead"
    /\ UNCHANGED <<fwVars, tick, then, writes, clock, restarts, acked>>

\* The process dies, at any point, or exits; a new one calls NewFileWriter.
Restart ==
    /\ restarts < MaxRestarts
    /\ restarts' = restarts + 1
    /\ openFile
    /\ closed' = FALSE
    /\ tick' = FALSE
    /\ pc' = "idle"
    /\ UNCHANGED <<cfg, then, writes, clock, faults, acked, expired, spared>>

Clock ==
    /\ clock < MaxClock
    /\ clock' = clock + 1
    /\ tick' = (tick \/ (cfg.Interval > 0 /\ file # "closed" /\ clock' % cfg.Interval = 0))
    /\ UNCHANGED <<files, fwVars, pc, then, writes, faults, restarts, acked, expired, spared>>

\* Closed, and out of Writes, time and restarts.
Finished ==
    /\ file = "closed" /\ writes = MaxWrites /\ clock = MaxClock /\ restarts = MaxRestarts
    /\ UNCHANGED vars

-----------------------------------------------------------------------------
(* Specification *)

Init ==
    /\ cfg \in Configs
    /\ files = [f \in Foreign \cup {Base} |-> [data |-> <<>>, mtime |-> 0]]
    /\ file = "open"
    /\ currentSize = 0
    /\ createdAt = 0
    /\ closed = FALSE
    /\ tick = FALSE
    /\ pc = "idle"
    /\ then = "return"
    /\ writes = 0
    /\ clock = 0
    /\ faults = 0
    /\ restarts = 0
    /\ acked = [w \in 1 .. MaxWrites |-> 0]
    /\ expired = {}
    /\ spared = {}

Next == \/ WriteBegin \/ WriteData
        \/ Rename \/ Open \/ Reopen \/ Cleanup
        \/ Background
        \/ Close \/ CloseEnds \/ CleanupDies
        \/ Restart
        \/ Clock
        \/ Finished

Spec == Init /\ [][Next]_vars

-----------------------------------------------------------------------------
(* Properties *)

File == [data : Content, mtime : 0 .. MaxClock]

\* Every variable keeps its type, and an open handle is one of the active file.
TypeOK ==
    /\ cfg \in Configs
    /\ DOMAIN files \subseteq Names
    /\ \A f \in DOMAIN files : files[f] \in File
    /\ file \in {"open", "nil", "closed"}
    /\ currentSize \in Nat
    /\ createdAt \in 0 .. MaxClock
    /\ closed \in BOOLEAN
    /\ tick \in BOOLEAN
    /\ pc \in {"idle", "rename", "open", "reopen", "cleanup", "write", "dead"}
    /\ then \in {"write", "return"}
    /\ writes \in 0 .. MaxWrites
    /\ clock \in 0 .. MaxClock
    /\ faults \in 0 .. MaxFaults
    /\ restarts \in 0 .. MaxRestarts
    /\ acked \in [1 .. MaxWrites -> Nat]
    /\ expired \subseteq File
    /\ spared \subseteq Matches
    /\ file = "open" => Exists(Base)

Present == {files[f] : f \in DOMAIN files \ Foreign}
Holds(fl, w) == {i \in 1 .. Len(fl.data) : fl.data[i] = w}

\* Every byte a Write got into the file is in just one file, active or backup,
\* unless cleanup removed that one: no rotation overwrites a backup, through
\* failures and crashes (file_writer.go:191-194).
NothingOverwritten ==
    \A w \in 1 .. MaxWrites : acked[w] > 0 =>
        /\ \E fl \in Present \cup expired : Cardinality(Holds(fl, w)) = acked[w]
        /\ \A f, g \in DOMAIN files \ Foreign :
              f # g /\ Holds(files[f], w) # {} => Holds(files[g], w) = {}

\* The size that triggers a rotation is the size of the file, restarts and
\* failed rotations included (file_writer.go:103, 129).
SizeTracked == file = "open" => currentSize = Len(files[Base].data)

\* A file outgrows max_size by less than one Write, and by one more for each
\* rotation that failed, crashes included: Write tests the size before and
\* after it writes (file_writer.go:119, 131).
SizeBounded ==
    cfg.MaxSize > 0 => \A fl \in Present : \E n \in Lens : Len(fl.data) < cfg.MaxSize + n * (faults + 1)

\* Between critical sections there are at most MaxBackups backups, or as many
\* as the directory held at the start, and one more for each rotation that
\* failed, or whose process died, before its cleanup was over, and for each
\* file that a cleanup could not look at or remove (file_writer.go:236-254).
BackupsBounded ==
    cfg.MaxBackups > 0 /\ pc = "idle" =>
        \E n \in {cfg.MaxBackups, Cardinality(Foreign)} : Cardinality(Matches) <= n + faults + restarts

\* Cleanup removes the oldest, also when it dies half-way: no backup was
\* modified before one that expired, except those a cleanup could not look at
\* or remove, and every line of a younger file is kept longer.
OldestGoFirst ==
    \A e \in expired, f \in DOMAIN files \ (Foreign \cup spared) : e.mtime <= files[f].mtime

\* cleanup removes rotated files of this writer only.
OnlyOwnBackupsRemoved == \A f \in Foreign : Exists(f)

\* ListBackups sorts the names: that is the order in which they were written.
ListedOldestFirst ==
    \A f, g \in DOMAIN files \cap Backups : NameBefore(f, g) =>
        \A i \in 1 .. Len(files[f].data), j \in 1 .. Len(files[g].data) :
            files[f].data[i] <= files[g].data[j]

=============================================================================
