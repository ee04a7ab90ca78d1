---------------------------- MODULE MCMeetingRelay --------------------------
(* MeetingRelay with few connections and requests.                          *)
EXTENDS MeetingRelay

=============================================================================
