---------------------------- MODULE MCSyncPush ----------------------------
(* One device that edits and one that listens, for TLC.                    *)
EXTENDS SyncPush

MCStamp == 0..MaxTime
MCContent == [id : 0..MaxTime, stamp : MCStamp]
MCSkew == [d \in Device |-> 0]
MCEdits == [d \in Device |-> IF d \in Listening THEN {} ELSE Row]
=============================================================================
