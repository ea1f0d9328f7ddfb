--------------------------- MODULE MCSyncEngine ---------------------------
(* The devices and the server of one account, for TLC.                     *)
EXTENDS SyncHistory, TLC

CONSTANTS Wrong,    \* the devices whose clock is wrong
          Ahead,    \* by how much
          Mine,     \* rows that only these devices edit,
          Theirs    \* and rows that only the others do

MCStamp == 0..(MaxTime + Ahead)
MCContent == [id : 0..MaxTime, stamp : MCStamp]
DeviceSymmetry == Permutations(Device)
MCEdits == [d \in Device |-> IF d \in Wrong THEN Row \ Theirs ELSE Row \ Mine]
MCSkew == [d \in Device |-> IF d \in Wrong THEN Ahead ELSE 0]
=============================================================================
