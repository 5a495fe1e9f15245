----------------------------- MODULE MCScheduler -----------------------------
(***************************************************************************)
(* Contents of the database of jobs for checking Scheduler.                *)
(***************************************************************************)
EXTENDS Scheduler

CONSTANTS nightly, hourly
Rec(r, i, m) == [row |-> r, id |-> i, minute |-> m]

TwoJobs   == {{Rec(1, nightly, 1), Rec(2, hourly, 1)}}
MixedJobs == {{Rec(1, nightly, 1), Rec(2, hourly, 2)}}
=============================================================================
