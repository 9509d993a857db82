-------------------------------- MODULE MCWAL --------------------------------
(* Instances of WAL for TLC. *)
EXTENDS WAL

\* Two unit lines fill a segment; the third entry needs one of its own.
MCSize == [e \in Entries |-> IF e = 3 THEN 2 ELSE 1]

\* The default sync interval on a sound disk.
SoundMode == {<<FALSE, {}>>}

\* Every fault with a sync interval, except that the directory is readable; with
\* SyncInterval = 0 every fault the writer meets.
FaultyModes == {<<TRUE, Faults \ {"remove", "read"}>>, <<FALSE, Faults \ {"readdir"}>>}

=============================================================================
