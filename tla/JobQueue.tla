------------------------------ MODULE JobQueue ------------------------------
(***************************************************************************)
(* The durable background-job pipeline: the background_jobs table, the     *)
(* statements of PostgresJobQueue and the JobProcessor drain that a cron   *)
(* request runs.  Each SQL statement commits on its own, so each is one    *)
(* atomic step; the awaits between two statements of one drain are where   *)
(* other drains, crashes and the passing of time interleave.               *)
(*                                                                         *)
(* Time is kept as countdowns: leaseLeft and waitLeft are the ticks until  *)
(* lease_expires_at and available_at, age is the time since the drain read *)
(* its clock.  A worker id is unique per drain; here it is the slot of the *)
(* live drain, which is as good: a slot is reused only once its previous   *)
(* drain is gone, and a drain only ever settles jobs of its own batch.     *)
(***************************************************************************)
EXTENDS Integers, FiniteSets

CONSTANTS
  Jobs,         \* idempotency keys that may be enqueued
  Handled,      \* the jobs whose topic has a registered handler
  Drains,       \* slots for concurrent drains (cron requests)
  MaxAttempts,  \* background_jobs.max_attempts
  BatchLimit,   \* JOB_BATCH_LIMIT of the drain route
  LeaseTicks,   \* the lease of a claim, in ticks
  RetryBase,    \* retryDelayMs: the unit of the exponential delay, in ticks
  RetryCap,     \* retryDelayMs: the longest delay, in ticks
  None          \* the null lease owner, and no current job

(* The delay before attempt n + 1: exponential, capped. *)
RetryDelay(n) ==
  IF RetryBase * 2^n < RetryCap THEN RetryBase * 2^n ELSE RetryCap

ASSUME JobQueueAssumption ==
  /\ Handled \subseteq Jobs
  /\ MaxAttempts \in Nat \ {0}
  /\ BatchLimit \in Nat \ {0}
  /\ LeaseTicks \in Nat \ {0}
  /\ RetryCap \in Nat
  /\ None \notin Jobs
  /\ None \notin Drains
  /\ IsFiniteSet(Drains)

ASSUME RetryDelayAssumption == \A n \in 1..MaxAttempts : RetryDelay(n) \in 0..RetryCap

VARIABLES
  jobState,    \* background_jobs.state, "ABSENT" before the row exists
  attempts,    \* background_jobs.attempts
  leaseOwner,  \* background_jobs.lease_owner
  leaseLeft,   \* ticks until background_jobs.lease_expires_at
  waitLeft,    \* ticks until background_jobs.available_at
  phase,       \* where each drain is in its loop
  batch,       \* the claimed jobs a drain has not reached yet
  current,     \* the job whose handler a drain is running or settling
  age,         \* ticks since the drain read its clock
  runs,        \* history: how often the handler was started for a job
  succeeded,   \* history: jobs whose handler has returned normally
  refused      \* history: jobs refused for good (permanent error, no handler)

tableVars == <<jobState, attempts, leaseOwner, leaseLeft, waitLeft>>
drainVars == <<phase, batch, current, age>>
history   == <<runs, succeeded, refused>>
vars      == <<tableVars, drainVars, history>>

JobStates == {"ABSENT", "PENDING", "PROCESSING", "COMPLETED", "FAILED"}
Settled   == {"COMPLETED", "FAILED"}
Outcomes  == {"ok", "transient", "permanent"}
Phases    == {"idle", "next", "running"} \cup Outcomes

(* Ages above this bound are indistinguishable to every guard below. *)
AgeCap == IF LeaseTicks > RetryCap THEN LeaseTicks ELSE RetryCap

(* Types, and the CHECK of the table: a lease exactly while PROCESSING. *)
TypeOK ==
  /\ jobState \in [Jobs -> JobStates]
  /\ attempts \in [Jobs -> 0..MaxAttempts]
  /\ leaseOwner \in [Jobs -> Drains \cup {None}]
  /\ leaseLeft \in [Jobs -> 0..LeaseTicks]
  /\ waitLeft \in [Jobs -> 0..RetryCap]
  /\ phase \in [Drains -> Phases]
  /\ batch \in [Drains -> SUBSET Jobs]
  /\ current \in [Drains -> Jobs \cup {None}]
  /\ age \in [Drains -> 0..AgeCap]
  /\ runs \in [Jobs -> Nat]
  /\ succeeded \subseteq Jobs
  /\ refused \subseteq Jobs
  /\ \A j \in Jobs : jobState[j] = "PROCESSING" <=> leaseOwner[j] # None
  /\ \A d \in Drains : /\ phase[d] = "idle" => batch[d] = {}
                       /\ phase[d] \in {"idle", "next"} <=> current[d] = None

Init ==
  /\ jobState = [j \in Jobs |-> "ABSENT"]
  /\ attempts = [j \in Jobs |-> 0]
  /\ leaseOwner = [j \in Jobs |-> None]
  /\ leaseLeft = [j \in Jobs |-> 0]
  /\ waitLeft = [j \in Jobs |-> 0]
  /\ phase = [d \in Drains |-> "idle"]
  /\ batch = [d \in Drains |-> {}]
  /\ current = [d \in Drains |-> None]
  /\ age = [d \in Drains |-> 0]
  /\ runs = [j \in Jobs |-> 0]
  /\ succeeded = {}
  /\ refused = {}

-----------------------------------------------------------------------------
(* PostgresJobQueue.enqueue: ON CONFLICT (idempotency_key) DO NOTHING.  A   *)
(* second enqueue of the same key changes nothing, whatever became of the   *)
(* first, so only the inserting call is a step.                             *)
Enqueue(j) ==
  /\ jobState[j] = "ABSENT"
  /\ jobState' = [jobState EXCEPT ![j] = "PENDING"]
  /\ UNCHANGED <<attempts, leaseOwner, leaseLeft, waitLeft, drainVars, history>>

LeaseExpired(j) == jobState[j] = "PROCESSING" /\ leaseLeft[j] = 0

(* The "exhausted" part of the claim statement. *)
ExhaustedNever == {}
ExhaustedOneEarly == {j \in Jobs : LeaseExpired(j) /\ attempts[j] >= MaxAttempts - 1}
Exhausted == {j \in Jobs : LeaseExpired(j) /\ attempts[j] >= MaxAttempts}

(* The "due" part of the claim statement. *)
DueLeaseEarly ==
  {j \in Jobs : /\ waitLeft[j] = 0
                /\ attempts[j] < MaxAttempts
                /\ \/ jobState[j] = "PENDING"
                   \/ jobState[j] = "PROCESSING" /\ leaseLeft[j] <= 1}
Due ==
  {j \in Jobs : /\ waitLeft[j] = 0
                /\ attempts[j] < MaxAttempts
                /\ (jobState[j] = "PENDING" \/ LeaseExpired(j))}

(* SET attempts = attempts + 1 for every claimed row. *)
CountClaimsFirstOnly(claimed) ==
  [j \in Jobs |-> attempts[j] + IF j \in claimed /\ jobState[j] = "PENDING" THEN 1 ELSE 0]
CountClaims(claimed) ==
  [j \in Jobs |-> attempts[j] + IF j \in claimed THEN 1 ELSE 0]

(* PostgresJobQueue.claim, one statement.  LIMIT bounds the batch, and SKIP *)
(* LOCKED may leave out any due row another statement holds, so the claimed *)
(* rows are any small enough subset of the due ones.                        *)
Claim(d) ==
  /\ phase[d] = "idle"
  /\ \E claimed \in SUBSET Due :
       /\ Cardinality(claimed) <= BatchLimit
       /\ jobState' = [j \in Jobs |-> IF j \in claimed THEN "PROCESSING"
                                      ELSE IF j \in Exhausted THEN "FAILED" ELSE jobState[j]]
       /\ leaseOwner' = [j \in Jobs |-> IF j \in claimed THEN d
                                        ELSE IF j \in Exhausted THEN None ELSE leaseOwner[j]]
       /\ leaseLeft' = [j \in Jobs |-> IF j \in claimed THEN LeaseTicks ELSE leaseLeft[j]]
       /\ attempts' = CountClaims(claimed)
       /\ batch' = [batch EXCEPT ![d] = claimed]
       /\ phase' = [phase EXCEPT ![d] = IF claimed = {} THEN "idle" ELSE "next"]
       /\ age' = [age EXCEPT ![d] = 0]
  /\ UNCHANGED <<waitLeft, current, history>>

(* The fence of complete, retry and fail: WHERE id = $1 AND                 *)
(* state = 'PROCESSING' AND lease_owner = $2.                               *)
Owns(d, j) == jobState[j] = "PROCESSING" /\ leaseOwner[j] = d

(* SET state = s, lease_owner = NULL, lease_expires_at = NULL. *)
Release(j, s) ==
  /\ jobState' = [jobState EXCEPT ![j] = s]
  /\ leaseOwner' = [leaseOwner EXCEPT ![j] = None]
  /\ leaseLeft' = [leaseLeft EXCEPT ![j] = 0]
  /\ UNCHANGED attempts

(* The drain's promise is rejected, or its process dies: what it had not    *)
(* settled stays PROCESSING until the lease runs out.                       *)
Leave(d) ==
  /\ phase' = [phase EXCEPT ![d] = "idle"]
  /\ batch' = [batch EXCEPT ![d] = {}]
  /\ current' = [current EXCEPT ![d] = None]
  /\ age' = [age EXCEPT ![d] = 0]

(* The loop turns to the next claimed job. *)
Continue(d) ==
  /\ phase' = [phase EXCEPT ![d] = "next"]
  /\ current' = [current EXCEPT ![d] = None]
  /\ UNCHANGED <<batch, age>>

BeginHandler(d, j) ==
  /\ phase[d] = "next" /\ j \in batch[d] /\ j \in Handled
  /\ phase' = [phase EXCEPT ![d] = "running"]
  /\ current' = [current EXCEPT ![d] = j]
  /\ batch' = [batch EXCEPT ![d] = @ \ {j}]
  /\ runs' = [runs EXCEPT ![j] = @ + 1]
  /\ UNCHANGED <<tableVars, age, succeeded, refused>>

(* No handler for the topic: fail the job outside the try block, so a lost  *)
(* lease rejects the whole drain.                                           *)
NoHandler(d, j) ==
  /\ phase[d] = "next" /\ j \in batch[d] /\ j \notin Handled
  /\ refused' = refused \cup {j}
  /\ \/ /\ Owns(d, j)
        /\ Release(j, "FAILED")
        /\ batch' = [batch EXCEPT ![d] = @ \ {j}]
        /\ UNCHANGED <<waitLeft, phase, current, age>>
     \/ ~Owns(d, j) /\ Leave(d) /\ UNCHANGED tableVars
  /\ UNCHANGED <<runs, succeeded>>

(* The handler promise settles: resolved, rejected, or PermanentJobError. *)
HandlerReturns(d, r) ==
  /\ phase[d] = "running"
  /\ phase' = [phase EXCEPT ![d] = r]
  /\ succeeded' = IF r = "ok" THEN succeeded \cup {current[d]} ELSE succeeded
  /\ refused' = IF r = "permanent" THEN refused \cup {current[d]} ELSE refused
  /\ UNCHANGED <<tableVars, batch, current, age, runs>>

(* complete(), awaited inside the try block: a lease conflict is caught as  *)
(* if the handler had failed.                                               *)
Complete(d) ==
  /\ phase[d] = "ok"
  /\ \/ Owns(d, current[d]) /\ Release(current[d], "COMPLETED") /\ Continue(d)
     \/ /\ ~Owns(d, current[d])
        /\ phase' = [phase EXCEPT ![d] = "transient"]
        /\ UNCHANGED <<jobState, attempts, leaseOwner, leaseLeft, batch, current, age>>
  /\ UNCHANGED <<waitLeft, history>>

(* The complete() query itself is rejected by the connection: the statement *)
(* was either not applied, or applied and its answer lost.                  *)
CompleteUnanswered(d) ==
  /\ phase[d] = "ok"
  /\ phase' = [phase EXCEPT ![d] = "transient"]
  /\ \/ Owns(d, current[d]) /\ Release(current[d], "COMPLETED")
     \/ UNCHANGED <<jobState, attempts, leaseOwner, leaseLeft>>
  /\ UNCHANGED <<waitLeft, batch, current, age, history>>

(* availableAt = the drain's own clock reading + the delay: ticks from now. *)
RetryWait(d, j) ==
  IF RetryDelay(attempts[j]) > age[d] THEN RetryDelay(attempts[j]) - age[d] ELSE 0

(* The catch block: fail for good, or give back for a later attempt.  While *)
(* the drain owns the row, attempts is still the value it claimed.          *)
SettleFailure(d) ==
  LET j == current[d]
      final == phase[d] = "permanent" \/ attempts[j] >= MaxAttempts
  IN /\ phase[d] \in {"transient", "permanent"}
     /\ \/ /\ Owns(d, j) /\ final
           /\ Release(j, "FAILED") /\ UNCHANGED waitLeft
           /\ Continue(d)
        \/ /\ Owns(d, j) /\ ~final
           /\ Release(j, "PENDING")
           /\ waitLeft' = [waitLeft EXCEPT ![j] = RetryWait(d, j)]
           /\ Continue(d)
        \/ ~Owns(d, j) /\ Leave(d) /\ UNCHANGED tableVars
     /\ UNCHANGED history

(* The end of the for loop. *)
Finish(d) ==
  /\ phase[d] = "next" /\ batch[d] = {}
  /\ Leave(d)
  /\ UNCHANGED <<tableVars, history>>

(* The process running the drain dies, or one of its statements is rejected *)
(* outside the try block.                                                   *)
Crash(d) ==
  /\ phase[d] # "idle"
  /\ Leave(d)
  /\ UNCHANGED <<tableVars, history>>

(* Time passes. *)
Tick ==
  /\ leaseLeft' = [j \in Jobs |-> IF leaseLeft[j] > 0 THEN leaseLeft[j] - 1 ELSE 0]
  /\ waitLeft' = [j \in Jobs |-> IF waitLeft[j] > 0 THEN waitLeft[j] - 1 ELSE 0]
  /\ age' = [d \in Drains |-> IF phase[d] # "idle" /\ age[d] < AgeCap
                                THEN age[d] + 1 ELSE age[d]]
  /\ UNCHANGED <<jobState, attempts, leaseOwner, phase, batch, current, history>>

DrainStep(d) ==
  \/ \E j \in Jobs : BeginHandler(d, j) \/ NoHandler(d, j)
  \/ \E r \in Outcomes : HandlerReturns(d, r)
  \/ Complete(d)
  \/ CompleteUnanswered(d)
  \/ SettleFailure(d)
  \/ Finish(d)

Next ==
  \/ \E j \in Jobs : Enqueue(j)
  \/ \E d \in Drains : Claim(d) \/ DrainStep(d) \/ Crash(d)
  \/ Tick

(* Cron keeps issuing drain requests, a running drain keeps running unless  *)
(* it crashes, and time passes.                                             *)
Fairness ==
  /\ \A d \in Drains : WF_vars(Claim(d)) /\ WF_vars(DrainStep(d))
  /\ WF_vars(Tick)

Spec == Init /\ [][Next]_vars
FairSpec == Spec /\ Fairness

-----------------------------------------------------------------------------
Working(d, j) == j \in batch[d] \/ current[d] = j

(* Two drains have the same job in hand only when one of them has outlived  *)
(* the lease it took: the lease is mutual exclusion for as long as it lasts *)
(* (claim's lease test against complete, retry and fail of the other).      *)
LeaseExclusion ==
  \A d, e \in Drains : \A j \in Jobs :
    (d # e /\ Working(d, j) /\ Working(e, j))
      => age[d] >= LeaseTicks \/ age[e] >= LeaseTicks

(* A handler starts only under a live lease of its own drain, or in a drain *)
(* that has outlived its lease; so only an overlong batch can repeat a job  *)
(* that was settled or handed to another drain meanwhile.                   *)
StartsUnderLease ==
  [][\A d \in Drains : \A j \in Jobs :
       (BeginHandler(d, j) /\ age[d] < LeaseTicks) => Owns(d, j)]_vars

(* The drains that have claimed a job and may still start its handler. *)
Holders(j) == {d \in Drains : j \in batch[d]}

(* However drains crash, overlap and lose leases, a job's handler is never  *)
(* started more often than attempts were charged to it, at most max_attempts *)
(* times in all: every start that may still come is already paid for.       *)
RunsWithinAttempts ==
  \A j \in Jobs : runs[j] + Cardinality(Holders(j)) <= attempts[j]

(* Every accepted job is eventually settled, even if the drains that claim  *)
(* it keep dying.                                                           *)
EveryJobSettles ==
  \A j \in Jobs : jobState[j] = "PENDING" ~> jobState[j] \in Settled

(* What the pipeline promises its callers, in terms of their own view. *)
CallerPhase(s) ==
  IF s = "ABSENT" THEN "new"
  ELSE IF s = "COMPLETED" THEN "completed"
  ELSE IF s = "FAILED" THEN "failed" ELSE "open"

Contract == INSTANCE JobContract
  WITH phase <- [j \in Jobs |-> CallerPhase(jobState[j])], tries <- attempts

ContractSpec == Contract!Spec
=============================================================================
