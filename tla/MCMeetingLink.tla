---------------------------- MODULE MCMeetingLink ---------------------------
(* MeetingLink with a few connect threads and enquire-link threads.         *)
EXTENDS MeetingLink, TLC

ThreadSymmetry == Permutations(ConnectThread) \cup Permutations(ElyThread)

=============================================================================
