------------------------------ MODULE MCDBImpl ------------------------------
(* Small databases: a handful of writers, one of them synchronous and one    *)
(* from TEST_CompactMemTable, memtables of one batch, and the triggers of    *)
(* level 0 brought within reach.                                             *)
EXTENDS DBImpl, TLC

CONSTANTS w1, w2, w3, f1, r1

All == {w1, w2, w3, f1}
Two == {w1, w2}
TwoAndForce == {w1, w2, f1}
Three == {w1, w2, w3}
SyncOnes == {w1}
ForceOnes == {f1}
None == {}
OneReader == {r1}
NoFaults == {}
ManifestFault == {"manifest"}
AllFaults == {"create", "append", "sync", "build", "manifest", "open"}
BothCrashes == {"process", "power"}
ProcessCrash == {"process"}
=============================================================================
