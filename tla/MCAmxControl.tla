---------------------------- MODULE MCAmxControl ----------------------------
(* AmxControl on small sets of devices and users.                           *)
EXTENDS AmxControl, TLC

DeviceUserSymmetry == Permutations(Device) \cup Permutations(User)

=============================================================================
