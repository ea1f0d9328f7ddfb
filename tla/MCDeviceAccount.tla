-------------------------- MODULE MCDeviceAccount --------------------------
(* A device and two accounts, for TLC.                                     *)
EXTENDS DeviceAccount, TLC

Symmetry == Permutations(User)

\* Bound: what follows a second trouble is not looked at.
OneTrouble == Cardinality(trouble) <= 1
=============================================================================
