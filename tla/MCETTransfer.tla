---------------------------- MODULE MCETTransfer ----------------------------
EXTENDS ETTransfer

\* Every point in the event builder's ET calls but the windows.
AllPoints ==
  {"attach", "attSystem", "attKnown", "attCount", "loop", "got", "detach", "detSystem",
   "detGC", "detCU", "idle", "flush", "restore", "detCount", "detEnd", "close"} \cup Windows
CrashPoints == AllPoints \ Windows

=============================================================================
