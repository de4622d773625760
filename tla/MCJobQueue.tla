---------------------------- MODULE MCJobQueue ----------------------------
(* A small instance of JobQueue for TLC: two drains, a job with a handler    *)
(* and one whose topic nobody handles.                                       *)
EXTENDS JobQueue

CONSTANTS j1, j2, d1, d2

MCJobs    == {j1, j2}
MCHandled == {j1}
MCDrains  == {d1, d2}
=============================================================================
