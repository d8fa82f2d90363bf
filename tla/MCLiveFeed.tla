---------------------------- MODULE MCLiveFeed ----------------------------
(* An instance of LiveFeedSupervisor for TLC. *)
EXTENDS LiveFeedSupervisor

CONSTANTS i1, i2

\* Both instruments, or one of them: a replacement that takes one away and one that
\* brings it back.
MCSets == {{i1, i2}, {i2}}
=============================================================================
