------------------------------ MODULE LevelGate ------------------------------
(***************************************************************************)
(* The level filter of logger.go.  SetLevel stores the level twice: in     *)
(* level, which logf, log and FastHandler read, and in levelVar, which     *)
(* slog.TextHandler reads.  A record meets the level up to four times: in  *)
(* logf, in log, and, when console.format differs from log.format, in      *)
(* Enabled of each of the two outputs when it is handled, which with       *)
(* async.enabled is after the call has returned.                           *)
(***************************************************************************)
EXTENDS Integers, FiniteSets

CONSTANTS
    Setters,      \* goroutines that call SetLevel
    Producers,    \* goroutines that log
    Inputs,       \* what they pass: names of levels, or anything else
    LogLevels,    \* levels of the records logged
    Async,        \* async.enabled
    Splits,       \* whether the console has a handler of its own: some of BOOLEAN
    MainReads, ConsoleReads,  \* which variable the handler of an output reads
    MaxSets, MaxLogs          \* bounds: calls of each goroutine

Levels    == {-4, 0, 4, 8}    \* slog.LevelDebug, Info, Warn, Error
Records   == Producers \X (1 .. MaxLogs)
Variables == {"level", "levelVar"}

ASSUME LevelAssumption == Inputs \subseteq STRING /\ LogLevels \subseteq Levels
ASSUME ModeAssumption  == Async \in BOOLEAN /\ Splits \subseteq BOOLEAN
ASSUME ReadsAssumption == MainReads \in Variables /\ ConsoleReads \in Variables
ASSUME BoundAssumption == MaxSets \in Nat /\ MaxLogs \in Nat

VARIABLES
    independent,  \* console.format differs from log.format: two handlers
    cur,          \* cur["level"] and cur["levelVar"]
    spc, target, sets,   \* setters
    calls,        \* producers
    stage, lv,    \* records: how far they are, and their level
    out,          \* outputs a record was written to
    low, high     \* history: lowest and highest value of either variable since
                  \* a record's call began and until it was handled

setVars == <<spc, target, sets>>
recVars == <<stage, lv, out>>
vars == <<independent, cur, setVars, calls, recVars, low, high>>

Init ==
    /\ independent \in Splits
    /\ cur = [v \in Variables |-> 0]
    /\ spc = [s \in Setters |-> "idle"]
    /\ target = [s \in Setters |-> 0]
    /\ sets = [s \in Setters |-> 0]
    /\ calls = [p \in Producers |-> 0]
    /\ stage = [r \in Records |-> "none"]
    /\ lv = [r \in Records |-> 0]
    /\ out = [r \in Records |-> {}]
    /\ low = [r \in Records |-> 0]
    /\ high = [r \in Records |-> 0]

-----------------------------------------------------------------------------
(* SetLevel *)

Live(r) == stage[r] \in {"logf", "log", "accepted", "console"}

\* What a store of n means for the history of the records under way.
Seen(n) ==
    /\ low'  = [r \in Records |-> IF Live(r) /\ n < low[r] THEN n ELSE low[r]]
    /\ high' = [r \in Records |-> IF Live(r) /\ n > high[r] THEN n ELSE high[r]]

Name == [debug |-> -4, info |-> 0, warn |-> 4, error |-> 8]

\* An empty or unknown name counts as info.
LevelOf(input) == IF input \in DOMAIN Name THEN Name[input] ELSE Name.info

\* l.level.Store.
StoreLevel(s) ==
    /\ spc[s] = "idle" /\ sets[s] < MaxSets
    /\ sets' = [sets EXCEPT ![s] = @ + 1]
    /\ \E i \in Inputs : /\ target' = [target EXCEPT ![s] = LevelOf(i)]
                         /\ cur' = [cur EXCEPT !["level"] = LevelOf(i)]
                         /\ Seen(LevelOf(i))
    /\ spc' = [spc EXCEPT ![s] = "var"]
    /\ UNCHANGED <<independent, calls, recVars>>

\* l.levelVar.Set.
SetLevelVar(s) ==
    /\ spc[s] = "var"
    /\ cur' = [cur EXCEPT !["levelVar"] = target[s]]
    /\ Seen(target[s])
    /\ spc' = [spc EXCEPT ![s] = "idle"]
    /\ UNCHANGED <<independent, target, sets, calls, recVars>>

-----------------------------------------------------------------------------
(* A record on its way *)

Latest(p) == <<p, calls[p]>>

\* The stages a record is in when its call has returned: with async.enabled,
\* it may still be queued.
Returned == {"filtered", "done"} \cup (IF Async THEN {"accepted", "console"} ELSE {})

LogBegin(p) ==
    /\ calls[p] < MaxLogs
    /\ calls[p] > 0 => stage[Latest(p)] \in Returned
    /\ calls' = [calls EXCEPT ![p] = @ + 1]
    /\ LET r == <<p, calls'[p]>>
           a == cur["level"]
           b == cur["levelVar"]
       IN  /\ stage' = [stage EXCEPT ![r] = "logf"]
           /\ \E n \in LogLevels : lv' = [lv EXCEPT ![r] = n]
           /\ low'  = [low  EXCEPT ![r] = IF a < b THEN a ELSE b]
           /\ high' = [high EXCEPT ![r] = IF a > b THEN a ELSE b]
    /\ UNCHANGED <<independent, cur, setVars, out>>

Step(r, from, to) == stage[r] = from /\ stage' = [stage EXCEPT ![r] = to]

\* Fault: a record of just the current level is filtered.
FilteredInclusive(r) == lv[r] <= cur["level"]

\* Fault: the zero value counts as no level, and not as info.
FilteredUnlessZero(r) == cur["level"] # 0 /\ lv[r] < cur["level"]

\* What logf and log both ask.  The zero value of level is info, as in slog.
Filtered(r) == lv[r] < cur["level"]

\* The check of logf, before it formats the message...
LogfCheck(r) ==
    /\ Step(r, "logf", IF Filtered(r) THEN "filtered" ELSE "log")
    /\ UNCHANGED <<independent, cur, setVars, calls, lv, out, low, high>>

\* ... and the one of log, which reads the level anew.
LogCheck(r) ==
    /\ Step(r, "log", IF Filtered(r) THEN "filtered" ELSE "accepted")
    /\ UNCHANGED <<independent, cur, setVars, calls, lv, out, low, high>>

\* Enabled of FastHandler (level) and of slog.TextHandler (levelVar).
Enabled(r, v) == lv[r] >= cur[v]

\* The handler chain reaches the main output; slog.MultiHandler asks Enabled,
\* a single handler is not asked.
HandleMain(r) ==
    /\ Step(r, "accepted", IF independent THEN "console" ELSE "done")
    /\ out' = [out EXCEPT ![r] = IF ~independent \/ Enabled(r, MainReads) THEN @ \cup {"main"} ELSE @]
    /\ UNCHANGED <<independent, cur, setVars, calls, lv, low, high>>

HandleConsole(r) ==
    /\ Step(r, "console", "done")
    /\ out' = [out EXCEPT ![r] = IF Enabled(r, ConsoleReads) THEN @ \cup {"console"} ELSE @]
    /\ UNCHANGED <<independent, cur, setVars, calls, lv, low, high>>

-----------------------------------------------------------------------------
(* Specification *)

Finished ==
    /\ \A s \in Setters : spc[s] = "idle" /\ sets[s] = MaxSets
    /\ \A p \in Producers : calls[p] = MaxLogs
    /\ \A r \in Records : ~Live(r)
    /\ UNCHANGED vars

Next == \/ \E s \in Setters : StoreLevel(s) \/ SetLevelVar(s)
        \/ \E p \in Producers : LogBegin(p)
        \/ \E r \in Records : LogfCheck(r) \/ LogCheck(r) \/ HandleMain(r) \/ HandleConsole(r)
        \/ Finished

Spec == Init /\ [][Next]_vars

-----------------------------------------------------------------------------
(* Properties *)

\* Every variable keeps its type.
TypeOK ==
    /\ independent \in Splits
    /\ cur \in [Variables -> Levels]
    /\ spc \in [Setters -> {"idle", "var"}]
    /\ target \in [Setters -> Levels]
    /\ sets \in [Setters -> 0 .. MaxSets]
    /\ calls \in [Producers -> 0 .. MaxLogs]
    /\ stage \in [Records -> {"none", "logf", "log", "filtered", "accepted", "console", "done"}]
    /\ lv \in [Records -> Levels]
    /\ out \in [Records -> SUBSET {"main", "console"}]
    /\ low \in [Records -> Levels]
    /\ high \in [Records -> Levels]

Outputs == IF independent THEN {"main", "console"} ELSE {"main"}

\* A record at or above every level in force from its call to its handling is
\* neither filtered nor missing in an output, though it meets the level up to
\* four times, in two variables (logger.go:1153, 1371, fast_handler.go:52-57).
EnabledIsWritten ==
    \A r \in Records : lv[r] >= high[r] =>
        /\ stage[r] # "filtered"
        /\ stage[r] = "done" => out[r] = Outputs

\* A record below every one of them is written nowhere.
DisabledIsFiltered ==
    \A r \in Records : stage[r] # "none" /\ lv[r] < low[r] => out[r] = {}

\* When no SetLevel is running, every handler filters by the same level: a
\* change takes effect in the whole chain (logger.go:1595-1597, README.md:22).
OneLevel == (\A s \in Setters : spc[s] = "idle") => cur["level"] = cur["levelVar"]

=============================================================================
