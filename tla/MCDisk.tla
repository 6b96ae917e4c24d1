------------------------------- MODULE MCDisk -------------------------------
(* Instances of Disk for TLC: servers that fsync, that do not, and that rely *)
(* on checksums instead.  Between them every call may fail.                  *)
EXTENDS Disk

Synced  == [fsync |-> TRUE, checksum |-> FALSE,
            faults |-> {"sync", "rename", "syncdir", "remove"},
            consume |-> BOOLEAN, crashes |-> 2]
Lazy    == [Synced EXCEPT !.fsync = FALSE,
                          !.faults = {"create", "sync", "write", "rename"}]
Checked == [fsync |-> FALSE, checksum |-> TRUE, faults |-> {},
            consume |-> {FALSE}, crashes |-> 1]
Calm    == [Synced EXCEPT !.faults = {}, !.crashes = 1]

PowerSettings    == {Synced, Checked}
ProcessSettings  == {Lazy}
UndeleteSettings == {Calm}
=============================================================================
