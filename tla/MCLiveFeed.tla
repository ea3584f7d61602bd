----------------------------- MODULE MCLiveFeed -----------------------------
(***************************************************************************)
(* Instances of LiveFeed for TLC: one CVE, so that every race is between   *)
(* two tasks, two requests or a task and a request for the same row.       *)
(***************************************************************************)
EXTENDS LiveFeed
=============================================================================
