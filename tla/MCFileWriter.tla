----------------------------- MODULE MCFileWriter -----------------------------
(* Configurations of FileWriter for TLC. *)
EXTENDS FileWriter

Limits(size, backups, age, interval) ==
    [MaxSize |-> size, MaxBackups |-> backups, MaxAge |-> age, Interval |-> interval]

BySize == {Limits(2, 2, 0, 0)}
ByTime == {Limits(3, 1, 1, 1)}
ByBoth == BySize \cup ByTime
OneBackup == {Limits(2, 1, 0, 0)}
NoBackups == {Limits(1, 0, 0, 0)}

\* "base-error.log" follows every time stamp.
ErrorLog == {<<MaxClock + 1, 0>>}

=============================================================================
