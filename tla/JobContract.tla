---------------------------- MODULE JobContract ----------------------------
(***************************************************************************)
(* What the durable job queue promises to whoever enqueues a job, without  *)
(* leases, batches, workers or time: an accepted job is tried at most      *)
(* MaxAttempts times; it is reported completed only after its handler has  *)
(* returned normally, and given up only after MaxAttempts tries or a       *)
(* refusal for good; and what has been reported is never changed again.    *)
(***************************************************************************)
EXTENDS Naturals

CONSTANTS Jobs, MaxAttempts

VARIABLES
  phase,      \* "new", "open", "completed" or "failed"
  tries,      \* attempts charged to the job
  succeeded,  \* jobs whose handler has returned normally at least once
  refused     \* jobs whose handler, or its absence, refused them for good

vars == <<phase, tries, succeeded, refused>>

Init ==
  /\ phase = [j \in Jobs |-> "new"]
  /\ tries = [j \in Jobs |-> 0]
  /\ succeeded = {}
  /\ refused = {}

Accept(j) == phase[j] = "new" /\ phase'[j] = "open" /\ tries'[j] = tries[j]

Try(j) ==
  /\ phase[j] = "open" /\ tries[j] < MaxAttempts
  /\ phase'[j] = "open" /\ tries'[j] = tries[j] + 1

Report(j) ==
  /\ phase[j] = "open" /\ tries[j] > 0 /\ j \in succeeded
  /\ phase'[j] = "completed" /\ tries'[j] = tries[j]

GiveUp(j) ==
  /\ phase[j] = "open"
  /\ tries[j] = MaxAttempts \/ (tries[j] > 0 /\ j \in refused')
  /\ phase'[j] = "failed" /\ tries'[j] = tries[j]

Idle(j) == phase'[j] = phase[j] /\ tries'[j] = tries[j]

(* A handler only answers for an accepted job that has been tried. *)
Answer ==
  /\ succeeded \subseteq succeeded'
  /\ refused \subseteq refused'
  /\ \A j \in (succeeded' \ succeeded) \cup (refused' \ refused) : tries[j] > 0

(* One step may concern several jobs: a claim takes a whole batch. *)
Next ==
  /\ \A j \in Jobs : Accept(j) \/ Try(j) \/ Report(j) \/ GiveUp(j) \/ Idle(j)
  /\ Answer

Spec == Init /\ [][Next]_vars
=============================================================================
