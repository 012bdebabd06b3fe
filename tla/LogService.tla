----------------------------- MODULE LogService -----------------------------
(***************************************************************************)
(* What the logger promises whoever calls it, whatever happens inside.  A  *)
(* record is logged; its call returns, at once or later; its handler chain *)
(* runs at most once; its outcome becomes final, that is written or        *)
(* reported as a panic.  Sync ends when the outcome of every record whose  *)
(* call had returned before it began is final.                             *)
(***************************************************************************)
EXTENDS FiniteSets

CONSTANT Records

VARIABLES
    called,    \* records whose call has begun
    returned,  \* records whose call has returned
    handled,   \* records whose handler chain ran
    final,     \* records whose outcome is final
    sync,      \* "open", "syncing", "synced"
    promised   \* records the running or finished Sync answers for

lsVars == <<called, returned, handled, final, sync, promised>>

ServiceInit ==
    /\ called = {} /\ returned = {} /\ handled = {} /\ final = {} /\ promised = {}
    /\ sync = "open"

Log(r) ==
    /\ r \notin called
    /\ called' = called \cup {r}
    /\ UNCHANGED <<returned, handled, final, sync, promised>>

Return(r) ==
    /\ r \in called \ returned
    /\ returned' = returned \cup {r}
    /\ UNCHANGED <<called, handled, final, sync, promised>>

\* The chain runs, which may settle this record and earlier ones; the caller
\* of a synchronous log call returns with it.
HandleRecord(r) ==
    /\ r \in called \ handled
    /\ handled' = handled \cup {r}
    /\ returned' \in {returned, returned \cup {r}}
    /\ final \subseteq final' /\ final' \subseteq handled'
    /\ UNCHANGED <<called, sync, promised>>

\* A flush in the background.
Settle ==
    /\ final \subseteq final' /\ final' \subseteq handled
    /\ UNCHANGED <<called, returned, handled, sync, promised>>

SyncBegins ==
    /\ sync = "open"
    /\ sync' = "syncing"
    /\ promised' = returned
    /\ UNCHANGED <<called, returned, handled, final>>

SyncEnds ==
    /\ sync = "syncing"
    /\ sync' = "synced"
    /\ final \subseteq final' /\ final' \subseteq handled
    /\ promised \subseteq final'
    /\ UNCHANGED <<called, returned, handled, promised>>

ServiceNext ==
    \/ \E r \in Records : Log(r) \/ Return(r) \/ HandleRecord(r)
    \/ Settle \/ SyncBegins \/ SyncEnds

ServiceSpec == ServiceInit /\ [][ServiceNext]_lsVars
=============================================================================
