--------------------------- MODULE JobQueueProofs ---------------------------
(***************************************************************************)
(* Proofs about JobQueue, for any number of jobs, drains and attempts, any *)
(* lease length and any batch limit.                                       *)
(***************************************************************************)
EXTENDS JobQueue, FiniteSetTheorems, TLAPS

USE JobQueueAssumption

(* retryDelayMs never exceeds its cap, for any attempt count of a claimed   *)
(* row.                                                                      *)
LEMMA RetryDelayType ==
  ASSUME NEW n \in 1..MaxAttempts
  PROVE  RetryDelay(n) \in 0..RetryCap
BY RetryDelayAssumption

(* The bound on a drain's age reaches past its lease.                        *)
LEMMA AgeCapType == AgeCap \in Nat /\ LeaseTicks <= AgeCap
BY DEF AgeCap

(* A row under lease has been claimed at least once. *)
Claimed == \A j \in Jobs : jobState[j] = "PROCESSING" => attempts[j] > 0

TypeInv == TypeOK /\ Claimed

(* The columns keep their types, a lease is held exactly while a job is      *)
(* PROCESSING (the CHECK of background_jobs), and drains hold a job exactly  *)
(* while they run or settle one.                                             *)
LEMMA InitTypeInv == Init => TypeInv
BY AgeCapType DEF Init, TypeInv, TypeOK, Claimed, JobStates, Phases, Outcomes

(* Every statement of the queue and every turn of the drain loop keeps them. *)
LEMMA NextTypeInv == TypeInv /\ [Next]_vars => TypeInv'
<1> SUFFICES ASSUME TypeInv, [Next]_vars PROVE TypeInv'
  OBVIOUS
<1> USE DEF TypeInv, TypeOK, Claimed
<1>1. ASSUME NEW j \in Jobs, Enqueue(j) PROVE TypeInv'
  BY <1>1 DEF Enqueue, drainVars, history, JobStates
<1>2. ASSUME NEW d \in Drains, Claim(d) PROVE TypeInv'
  <2>1. PICK claimed \in SUBSET Due :
          /\ jobState' = [j \in Jobs |-> IF j \in claimed THEN "PROCESSING"
                                         ELSE IF j \in Exhausted THEN "FAILED" ELSE jobState[j]]
          /\ leaseOwner' = [j \in Jobs |-> IF j \in claimed THEN d
                                           ELSE IF j \in Exhausted THEN None ELSE leaseOwner[j]]
          /\ leaseLeft' = [j \in Jobs |-> IF j \in claimed THEN LeaseTicks ELSE leaseLeft[j]]
          /\ attempts' = CountClaims(claimed)
          /\ batch' = [batch EXCEPT ![d] = claimed]
          /\ phase' = [phase EXCEPT ![d] = IF claimed = {} THEN "idle" ELSE "next"]
          /\ age' = [age EXCEPT ![d] = 0]
    BY <1>2 DEF Claim
  <2>2. UNCHANGED <<waitLeft, current, runs, succeeded, refused>> /\ phase[d] = "idle"
    BY <1>2 DEF Claim, history
  <2>3. claimed \subseteq Jobs /\ \A j \in claimed : attempts[j] < MaxAttempts
    BY <2>1 DEF Due
  <2>4. attempts' \in [Jobs -> 0..MaxAttempts]
    BY <2>1, <2>3 DEF CountClaims
  <2>5. /\ jobState' \in [Jobs -> JobStates]
        /\ leaseOwner' \in [Jobs -> Drains \cup {None}]
        /\ leaseLeft' \in [Jobs -> 0..LeaseTicks]
    BY <2>1 DEF JobStates
  <2>6. /\ phase' \in [Drains -> Phases]
        /\ batch' \in [Drains -> SUBSET Jobs]
        /\ age' \in [Drains -> 0..AgeCap]
    BY <2>1, <2>3, AgeCapType DEF Phases
  <2>7. \A j \in Jobs : /\ jobState'[j] = "PROCESSING" <=> leaseOwner'[j] # None
                        /\ jobState'[j] = "PROCESSING" => attempts'[j] > 0
    <3> TAKE j \in Jobs
    <3>1. CASE j \in claimed
      BY <3>1, <2>1 DEF CountClaims
    <3>2. CASE j \notin claimed /\ j \in Exhausted
      BY <3>2, <2>1 DEF CountClaims
    <3>3. CASE j \notin claimed /\ j \notin Exhausted
      BY <3>3, <2>1 DEF CountClaims
    <3> QED BY <3>1, <3>2, <3>3
  <2>8. \A e \in Drains : /\ phase'[e] = "idle" => batch'[e] = {}
                          /\ phase'[e] \in {"idle", "next"} <=> current'[e] = None
    BY <2>1, <2>2
  <2> QED BY <2>2, <2>4, <2>5, <2>6, <2>7, <2>8
<1>3. ASSUME NEW d \in Drains, DrainStep(d) PROVE TypeInv'
  <2>1. ASSUME NEW j \in Jobs, BeginHandler(d, j) PROVE TypeInv'
    BY <2>1 DEF BeginHandler, tableVars, Phases
  <2>2. ASSUME NEW j \in Jobs, NoHandler(d, j) PROVE TypeInv'
    BY <2>2, AgeCapType DEF NoHandler, Release, Leave, tableVars, Phases, JobStates
  <2>3. ASSUME NEW r \in Outcomes, HandlerReturns(d, r) PROVE TypeInv'
    BY <2>3 DEF HandlerReturns, tableVars, Phases, Outcomes
  <2>4. ASSUME Complete(d) PROVE TypeInv'
    BY <2>4 DEF Complete, Owns, Release, Continue, history, Phases, Outcomes, JobStates
  <2>5. ASSUME CompleteUnanswered(d) PROVE TypeInv'
    BY <2>5 DEF CompleteUnanswered, Owns, Release, history, Phases, Outcomes, JobStates
  <2>6. ASSUME SettleFailure(d) PROVE TypeInv'
    <3> DEFINE j == current[d]
    <3>0. j \in Jobs /\ UNCHANGED history
      BY <2>6 DEF SettleFailure
    <3>1. ASSUME Owns(d, j), Release(j, "FAILED"), UNCHANGED waitLeft, Continue(d)
          PROVE  TypeInv'
      BY <3>0, <3>1 DEF Release, Continue, history, Phases, JobStates
    <3>2. ASSUME Owns(d, j), ~(attempts[j] >= MaxAttempts), Release(j, "PENDING"), Continue(d),
                 waitLeft' = [waitLeft EXCEPT ![j] = RetryWait(d, j)]
          PROVE  TypeInv'
      <4>1. attempts[j] \in 1..MaxAttempts
        BY <3>0, <3>2 DEF Owns
      <4>2. RetryWait(d, j) \in 0..RetryCap
        BY <4>1, RetryDelayType, AgeCapType DEF RetryWait
      <4> QED BY <3>0, <3>2, <4>2 DEF Release, Continue, history, Phases, JobStates
    <3>3. ASSUME Leave(d), UNCHANGED tableVars PROVE TypeInv'
      BY <3>0, <3>3, AgeCapType DEF Leave, tableVars, history, Phases
    <3> QED BY <2>6, <3>1, <3>2, <3>3 DEF SettleFailure
  <2>7. ASSUME Finish(d) PROVE TypeInv'
    BY <2>7, AgeCapType DEF Finish, Leave, tableVars, history, Phases
  <2> QED BY <1>3, <2>1, <2>2, <2>3, <2>4, <2>5, <2>6, <2>7 DEF DrainStep
<1>4. ASSUME NEW d \in Drains, Crash(d) PROVE TypeInv'
  BY <1>4, AgeCapType DEF Crash, Leave, tableVars, history, Phases
<1>5. ASSUME Tick PROVE TypeInv'
  BY <1>5, AgeCapType DEF Tick, history
<1>6. CASE UNCHANGED vars
  BY <1>6 DEF vars, tableVars, drainVars, history
<1> QED BY <1>1, <1>2, <1>3, <1>4, <1>5, <1>6 DEF Next

(* However drains overlap and crash, the table's CHECK holds: a row has a    *)
(* lease exactly while it is PROCESSING, and attempts stay in range.         *)
THEOREM TypeCorrect == Spec => []TypeOK
<1>1. Init => TypeInv BY InitTypeInv
<1>2. TypeInv /\ [Next]_vars => TypeInv' BY NextTypeInv
<1>3. TypeInv => TypeOK BY DEF TypeInv
<1> QED BY <1>1, <1>2, <1>3, PTL DEF Spec

-----------------------------------------------------------------------------
(* The strengthening behind the lease theorems: a drain younger than its     *)
(* lease still holds the row of every job it has in hand, with exactly the   *)
(* rest of its lease left; the one exception is the job whose completion was *)
(* applied but never acknowledged.                                           *)
HoldsLease(d, j) ==
  /\ jobState[j] = "PROCESSING" /\ leaseOwner[j] = d
  /\ leaseLeft[j] = LeaseTicks - age[d]

HandInv ==
  \A d \in Drains : \A j \in Jobs :
    (Working(d, j) /\ age[d] < LeaseTicks)
      => HoldsLease(d, j) \/ (jobState[j] = "COMPLETED" /\ current[d] = j)

NotInBatch == \A d \in Drains : current[d] \notin batch[d]

LeaseInv == TypeInv /\ NotInBatch /\ HandInv /\ LeaseExclusion

(* Before the first job nobody holds a lease.                                *)
LEMMA InitLeaseInv == Init => LeaseInv
<1> SUFFICES ASSUME Init PROVE LeaseInv
  OBVIOUS
<1>1. TypeInv BY InitTypeInv
<1>2. \A d \in Drains : \A j \in Jobs : ~Working(d, j)
  BY DEF Init, Working
<1> QED BY <1>1, <1>2 DEF LeaseInv, NotInBatch, HandInv, LeaseExclusion, Init

(* A step of drain d that takes no new job in hand, touches only a row d     *)
(* owns, and drops that row's job, preserves the invariant.                  *)
LEMMA DropPreserves ==
  ASSUME LeaseInv, TypeInv', NotInBatch',
         NEW d \in Drains, NEW k \in Jobs,
         \A e \in Drains \ {d} : \A j \in Jobs : Working(e, j)' <=> Working(e, j),
         \A e \in Drains \ {d} : age'[e] = age[e] /\ current'[e] = current[e],
         \A j \in Jobs : Working(d, j)' => Working(d, j),
         \A j \in Jobs : Working(d, j)' => current'[d] = current[d] \/ current[d] # j,
         (\E j \in Jobs : Working(d, j)') => age'[d] = age[d],
         \A j \in Jobs \ {k} : /\ jobState'[j] = jobState[j]
                               /\ leaseOwner'[j] = leaseOwner[j]
                               /\ leaseLeft'[j] = leaseLeft[j],
         \/ UNCHANGED <<jobState, leaseOwner, leaseLeft>>
         \/ Owns(d, k) /\ ~Working(d, k)'
  PROVE  LeaseInv'
<1> USE DEF LeaseInv
<1>1. HandInv'
  <2> SUFFICES ASSUME NEW e \in Drains, NEW j \in Jobs, Working(e, j)', age'[e] < LeaseTicks
               PROVE  HoldsLease(e, j)' \/ (jobState'[j] = "COMPLETED" /\ current'[e] = j)
    BY DEF HandInv
  <2>1. Working(e, j) /\ age[e] < LeaseTicks /\ age'[e] = age[e]
    OBVIOUS
  <2>2. HoldsLease(e, j) \/ (jobState[j] = "COMPLETED" /\ current[e] = j)
    BY <2>1 DEF HandInv
  <2>3. CASE e = d
    BY <2>1, <2>2, <2>3 DEF HoldsLease, Owns
  <2>4. CASE e # d
    BY <2>1, <2>2, <2>4 DEF HoldsLease, Owns
  <2> QED BY <2>3, <2>4
<1>2. LeaseExclusion'
  <2> SUFFICES ASSUME NEW e \in Drains, NEW f \in Drains, NEW j \in Jobs,
                      e # f, Working(e, j)', Working(f, j)'
               PROVE  age'[e] >= LeaseTicks \/ age'[f] >= LeaseTicks
    BY DEF LeaseExclusion
  <2>1. Working(e, j) /\ Working(f, j) /\ age'[e] = age[e] /\ age'[f] = age[f]
    OBVIOUS
  <2> QED BY <2>1 DEF LeaseExclusion
<1> QED BY <1>1, <1>2

(* Claims skip live leases and settling releases only one's own, so the      *)
(* drain that owns a row is the only young one with that job in hand.        *)
LEMMA NextLeaseInv == LeaseInv /\ [Next]_vars => LeaseInv'
<1> SUFFICES ASSUME LeaseInv, [Next]_vars PROVE LeaseInv'
  OBVIOUS
<1>0. TypeInv /\ TypeInv'
  BY NextTypeInv DEF LeaseInv
<1> USE <1>0
<1>1. ASSUME NEW j \in Jobs, Enqueue(j) PROVE LeaseInv'
  <2>1. \A d \in Drains : \A k \in Jobs :
          /\ Working(d, k)' = Working(d, k)
          /\ HoldsLease(d, k) => HoldsLease(d, k)'
          /\ jobState[k] = "COMPLETED" => jobState'[k] = "COMPLETED"
    BY <1>1 DEF Enqueue, drainVars, Working, HoldsLease, TypeInv, TypeOK
  <2> QED BY <1>1, <2>1 DEF Enqueue, drainVars, LeaseInv, NotInBatch, HandInv, LeaseExclusion
<1>2. ASSUME NEW d \in Drains, Claim(d) PROVE LeaseInv'
  <2>1. PICK claimed \in SUBSET Due :
          /\ jobState' = [j \in Jobs |-> IF j \in claimed THEN "PROCESSING"
                                         ELSE IF j \in Exhausted THEN "FAILED" ELSE jobState[j]]
          /\ leaseOwner' = [j \in Jobs |-> IF j \in claimed THEN d
                                           ELSE IF j \in Exhausted THEN None ELSE leaseOwner[j]]
          /\ leaseLeft' = [j \in Jobs |-> IF j \in claimed THEN LeaseTicks ELSE leaseLeft[j]]
          /\ batch' = [batch EXCEPT ![d] = claimed]
          /\ age' = [age EXCEPT ![d] = 0]
    BY <1>2 DEF Claim
  <2>2. current' = current /\ current[d] = None /\ batch[d] = {}
    BY <1>2 DEF Claim, TypeInv, TypeOK
  <2>3. \A e \in Drains \ {d} : /\ batch'[e] = batch[e] /\ age'[e] = age[e]
                                /\ \A j \in Jobs : Working(e, j)' = Working(e, j)
    BY <2>1, <2>2 DEF Working, TypeInv, TypeOK
  <2>4. \A j \in Jobs : Working(d, j)' <=> j \in claimed
    BY <2>1, <2>2 DEF Working, TypeInv, TypeOK
  <2>5. \A e \in Drains : \A j \in Jobs :
          Working(e, j) /\ age[e] < LeaseTicks => j \notin Due /\ j \notin Exhausted
    BY DEF LeaseInv, HandInv, HoldsLease, Due, Exhausted, LeaseExpired, TypeInv, TypeOK
  <2>6. NotInBatch'
    BY <2>1, <2>2 DEF NotInBatch, LeaseInv, TypeInv, TypeOK, Due
  <2>7. HandInv'
    <3> SUFFICES ASSUME NEW e \in Drains, NEW j \in Jobs, Working(e, j)', age'[e] < LeaseTicks
                 PROVE  HoldsLease(e, j)' \/ (jobState'[j] = "COMPLETED" /\ current'[e] = j)
      BY DEF HandInv
    <3>1. CASE e = d
      BY <3>1, <2>1, <2>4 DEF HoldsLease, TypeInv, TypeOK
    <3>2. CASE e # d
      <4>1. Working(e, j) /\ age[e] < LeaseTicks /\ age'[e] = age[e]
        BY <3>2, <2>3
      <4>2. j \notin claimed /\ j \notin Exhausted
        BY <4>1, <2>5, <2>1
      <4>3. jobState'[j] = jobState[j] /\ leaseOwner'[j] = leaseOwner[j]
            /\ leaseLeft'[j] = leaseLeft[j]
        BY <4>2, <2>1
      <4> QED BY <4>1, <4>3, <2>2 DEF LeaseInv, HandInv, HoldsLease
    <3> QED BY <3>1, <3>2
  <2>8. LeaseExclusion'
    <3> SUFFICES ASSUME NEW e \in Drains, NEW f \in Drains, NEW j \in Jobs,
                        e # f, Working(e, j)', Working(f, j)',
                        age'[e] < LeaseTicks, age'[f] < LeaseTicks
                 PROVE  FALSE
      BY AgeCapType DEF LeaseExclusion, TypeInv, TypeOK
    <3>1. CASE e = d
      BY <3>1, <2>1, <2>3, <2>4, <2>5
    <3>2. CASE f = d
      BY <3>2, <2>1, <2>3, <2>4, <2>5
    <3>3. CASE e # d /\ f # d
      <4>1. Working(e, j) /\ Working(f, j) /\ age[e] < LeaseTicks /\ age[f] < LeaseTicks
        BY <3>3, <2>3
      <4>2. age[e] >= LeaseTicks \/ age[f] >= LeaseTicks
        BY <4>1 DEF LeaseInv, LeaseExclusion
      <4>3. age[e] \in Nat /\ age[f] \in Nat
        BY AgeCapType DEF TypeInv, TypeOK
      <4> QED BY <4>1, <4>2, <4>3
    <3> QED BY <3>1, <3>2, <3>3
  <2> QED BY <2>6, <2>7, <2>8 DEF LeaseInv
<1>3. ASSUME NEW d \in Drains, DrainStep(d) PROVE LeaseInv'
  <2>1. ASSUME NEW k \in Jobs, BeginHandler(d, k) PROVE LeaseInv'
    <3>1. NotInBatch'
      BY <2>1 DEF BeginHandler, NotInBatch, LeaseInv, TypeInv, TypeOK
    <3>2. \A e \in Drains : \A j \in Jobs : Working(e, j)' => Working(e, j)
      BY <2>1 DEF BeginHandler, Working, TypeInv, TypeOK
    <3>3. UNCHANGED <<jobState, leaseOwner, leaseLeft, age>> /\ current[d] = None
      BY <2>1 DEF BeginHandler, tableVars, TypeInv, TypeOK
    <3>4. \A e \in Drains \ {d} : current'[e] = current[e]
      BY <2>1 DEF BeginHandler, TypeInv, TypeOK
    <3>5. HandInv'
      BY <3>2, <3>3, <3>4 DEF HandInv, HoldsLease, LeaseInv
    <3>6. LeaseExclusion'
      BY <3>2, <3>3 DEF LeaseExclusion, LeaseInv
    <3> QED BY <3>1, <3>5, <3>6 DEF LeaseInv
  <2>2. ASSUME NEW k \in Jobs, NoHandler(d, k) PROVE LeaseInv'
    <3>1. NotInBatch'
      BY <2>2 DEF NoHandler, Leave, NotInBatch, LeaseInv, TypeInv, TypeOK
    <3>2. current[d] = None
      BY <2>2 DEF NoHandler, TypeInv, TypeOK
    <3>3. CASE Owns(d, k) /\ Release(k, "FAILED") /\ batch' = [batch EXCEPT ![d] = @ \ {k}]
               /\ UNCHANGED <<waitLeft, phase, current, age>>
      BY <3>1, <3>2, <3>3, DropPreserves DEF Release, Working, TypeInv, TypeOK
    <3>4. CASE Leave(d) /\ UNCHANGED tableVars
      BY <3>1, <3>4, DropPreserves DEF Leave, tableVars, Working, TypeInv, TypeOK
    <3> QED BY <2>2, <3>3, <3>4 DEF NoHandler
  <2>3. ASSUME NEW r \in Outcomes, HandlerReturns(d, r) PROVE LeaseInv'
    BY <2>3 DEF HandlerReturns, tableVars, LeaseInv, NotInBatch, HandInv, HoldsLease,
                LeaseExclusion, Working
  <2>4. ASSUME Complete(d) PROVE LeaseInv'
    <3>0. PICK k \in Jobs : k = current[d]
      BY <2>4 DEF Complete, Phases, TypeInv, TypeOK
    <3>1. NotInBatch' /\ k \in Jobs
      BY <2>4 DEF Complete, Continue, NotInBatch, LeaseInv, TypeInv, TypeOK
    <3>2. CASE Owns(d, k) /\ Release(k, "COMPLETED") /\ Continue(d)
      <4>1. ~Working(d, k)' /\ \A j \in Jobs : Working(d, j)' => Working(d, j) /\ current[d] # j
        BY <3>0, <3>1, <3>2 DEF Continue, Working, NotInBatch, LeaseInv, TypeInv, TypeOK
      <4>2. \A e \in Drains \ {d} : /\ \A j \in Jobs : Working(e, j)' <=> Working(e, j)
                                    /\ age'[e] = age[e] /\ current'[e] = current[e]
        BY <3>2 DEF Continue, Working, TypeInv, TypeOK
      <4>3. \A j \in Jobs \ {k} : /\ jobState'[j] = jobState[j]
                                 /\ leaseOwner'[j] = leaseOwner[j]
                                 /\ leaseLeft'[j] = leaseLeft[j]
        BY <3>2 DEF Release, TypeInv, TypeOK
      <4>4. age'[d] = age[d]
        BY <3>2 DEF Continue
      <4> QED BY <3>1, <3>2, <4>1, <4>2, <4>3, <4>4, DropPreserves
    <3>3. CASE UNCHANGED <<jobState, attempts, leaseOwner, leaseLeft, batch, current, age>>
      BY <3>1, <3>3 DEF LeaseInv, HandInv, HoldsLease, LeaseExclusion, Working
    <3> QED BY <3>0, <2>4, <3>2, <3>3 DEF Complete
  <2>5. ASSUME CompleteUnanswered(d) PROVE LeaseInv'
    <3>0. PICK k \in Jobs : k = current[d]
      BY <2>5 DEF CompleteUnanswered, Phases, TypeInv, TypeOK
    <3>1. NotInBatch' /\ k \in Jobs /\ UNCHANGED <<batch, current, age>>
      BY <2>5 DEF CompleteUnanswered, NotInBatch, LeaseInv, TypeInv, TypeOK
    <3>2. CASE Owns(d, k) /\ Release(k, "COMPLETED")
      <4>1. \A e \in Drains : \A j \in Jobs : Working(e, j)' <=> Working(e, j)
        BY <3>1 DEF Working
      <4>2. \A j \in Jobs \ {k} : /\ jobState'[j] = jobState[j]
                                 /\ leaseOwner'[j] = leaseOwner[j]
                                 /\ leaseLeft'[j] = leaseLeft[j]
        BY <3>2 DEF Release, TypeInv, TypeOK
      <4>3. Owns(d, k) /\ jobState'[k] = "COMPLETED" /\ current'[d] = k
        BY <3>0, <3>1, <3>2 DEF Release, TypeInv, TypeOK
      <4>4. HandInv'
        <5> SUFFICES ASSUME NEW e \in Drains, NEW j \in Jobs, Working(e, j)', age'[e] < LeaseTicks
                     PROVE  HoldsLease(e, j)' \/ (jobState'[j] = "COMPLETED" /\ current'[e] = j)
          BY DEF HandInv
        <5>1. HoldsLease(e, j) \/ (jobState[j] = "COMPLETED" /\ current[e] = j)
          BY <3>1, <4>1 DEF LeaseInv, HandInv
        <5> QED BY <3>1, <4>2, <4>3, <5>1 DEF HoldsLease, Owns
      <4> QED BY <3>1, <4>1, <4>4 DEF LeaseInv, LeaseExclusion
    <3>3. CASE UNCHANGED <<jobState, attempts, leaseOwner, leaseLeft>>
      BY <3>1, <3>3 DEF LeaseInv, HandInv, HoldsLease, LeaseExclusion, Working
    <3> QED BY <3>0, <2>5, <3>2, <3>3 DEF CompleteUnanswered
  <2>6. ASSUME SettleFailure(d) PROVE LeaseInv'
    <3>0. PICK k \in Jobs : k = current[d]
      BY <2>6 DEF SettleFailure, Phases, TypeInv, TypeOK
    <3>1. NotInBatch' /\ k \in Jobs
      BY <2>6 DEF SettleFailure, Continue, Leave, NotInBatch, LeaseInv, TypeInv, TypeOK
    <3>2. ASSUME NEW s \in JobStates, Owns(d, k), Release(k, s), Continue(d) PROVE LeaseInv'
      <4>1. ~Working(d, k)' /\ \A j \in Jobs : Working(d, j)' => Working(d, j) /\ current[d] # j
        BY <3>0, <3>1, <3>2 DEF Continue, Working, NotInBatch, LeaseInv, TypeInv, TypeOK
      <4>2. \A e \in Drains \ {d} : /\ \A j \in Jobs : Working(e, j)' <=> Working(e, j)
                                    /\ age'[e] = age[e] /\ current'[e] = current[e]
        BY <3>2 DEF Continue, Working, TypeInv, TypeOK
      <4>3. \A j \in Jobs \ {k} : /\ jobState'[j] = jobState[j]
                                 /\ leaseOwner'[j] = leaseOwner[j]
                                 /\ leaseLeft'[j] = leaseLeft[j]
        BY <3>2 DEF Release, TypeInv, TypeOK
      <4>4. age'[d] = age[d]
        BY <3>2 DEF Continue
      <4> QED BY <3>1, <3>2, <4>1, <4>2, <4>3, <4>4, DropPreserves
    <3>3. CASE Leave(d) /\ UNCHANGED tableVars
      BY <3>0, <3>1, <3>3, DropPreserves DEF Leave, tableVars, Working, TypeInv, TypeOK
    <3> QED BY <3>0, <2>6, <3>2, <3>3 DEF SettleFailure, JobStates
  <2>7. ASSUME Finish(d) PROVE LeaseInv'
    BY <2>7 DEF Finish, Leave, tableVars, LeaseInv, NotInBatch, HandInv, HoldsLease,
                LeaseExclusion, Working, TypeInv, TypeOK
  <2> QED BY <1>3, <2>1, <2>2, <2>3, <2>4, <2>5, <2>6, <2>7 DEF DrainStep
<1>4. ASSUME NEW d \in Drains, Crash(d) PROVE LeaseInv'
  BY <1>4 DEF Crash, Leave, tableVars, LeaseInv, NotInBatch, HandInv, HoldsLease,
              LeaseExclusion, Working, TypeInv, TypeOK
<1>5. ASSUME Tick PROVE LeaseInv'
  <2>1. UNCHANGED <<jobState, leaseOwner, batch, current>>
    BY <1>5 DEF Tick
  <2>2. \A d \in Drains : \A j \in Jobs :
          Working(d, j) => age'[d] = IF age[d] < AgeCap THEN age[d] + 1 ELSE age[d]
    BY <1>5 DEF Tick, Working, TypeInv, TypeOK
  <2>3. NotInBatch'
    BY <2>1 DEF NotInBatch, LeaseInv
  <2>4. HandInv'
    <3> SUFFICES ASSUME NEW d \in Drains, NEW j \in Jobs, Working(d, j)', age'[d] < LeaseTicks
                 PROVE  HoldsLease(d, j)' \/ (jobState'[j] = "COMPLETED" /\ current'[d] = j)
      BY DEF HandInv
    <3>1. Working(d, j)
      BY <2>1 DEF Working
    <3>2. age[d] < LeaseTicks /\ age'[d] = age[d] + 1
      BY <3>1, <2>2, AgeCapType DEF TypeInv, TypeOK
    <3>3. HoldsLease(d, j) \/ (jobState[j] = "COMPLETED" /\ current[d] = j)
      BY <3>1, <3>2 DEF LeaseInv, HandInv
    <3>4. leaseLeft'[j] = IF leaseLeft[j] > 0 THEN leaseLeft[j] - 1 ELSE 0
      BY <1>5 DEF Tick
    <3> QED BY <2>1, <3>2, <3>3, <3>4 DEF HoldsLease, TypeInv, TypeOK
  <2>5. LeaseExclusion'
    <3> SUFFICES ASSUME NEW e \in Drains, NEW f \in Drains, NEW j \in Jobs,
                        e # f, Working(e, j)', Working(f, j)'
                 PROVE  age'[e] >= LeaseTicks \/ age'[f] >= LeaseTicks
      BY DEF LeaseExclusion
    <3>1. Working(e, j) /\ Working(f, j)
      BY <2>1 DEF Working
    <3>2. age[e] >= LeaseTicks \/ age[f] >= LeaseTicks
      BY <3>1 DEF LeaseInv, LeaseExclusion
    <3>3. \A d \in {e, f} : age[d] >= LeaseTicks => age'[d] >= LeaseTicks
      BY <3>1, <2>2, AgeCapType DEF TypeInv, TypeOK
    <3> QED BY <3>2, <3>3
  <2> QED BY <2>3, <2>4, <2>5 DEF LeaseInv
<1>6. CASE UNCHANGED vars
  BY <1>6 DEF vars, tableVars, drainVars, history, LeaseInv, NotInBatch, HandInv,
              HoldsLease, LeaseExclusion, Working
<1> QED BY <1>1, <1>2, <1>3, <1>4, <1>5, <1>6 DEF Next

(* The lease is mutual exclusion: two drains have one job in hand only when  *)
(* one of them has outlived the lease it took.                               *)
THEOREM LeaseExclusionHolds == Spec => []LeaseExclusion
<1>1. Init => LeaseInv BY InitLeaseInv
<1>2. LeaseInv /\ [Next]_vars => LeaseInv' BY NextLeaseInv
<1>3. LeaseInv => LeaseExclusion BY DEF LeaseInv
<1> QED BY <1>1, <1>2, <1>3, PTL DEF Spec

(* A handler never starts in a young drain on a row the drain has lost.      *)
THEOREM StartsUnderLeaseHolds == Spec => StartsUnderLease
<1> DEFINE Guarded == \A d \in Drains : \A j \in Jobs :
             (BeginHandler(d, j) /\ age[d] < LeaseTicks) => Owns(d, j)
<1>1. Init => LeaseInv BY InitLeaseInv
<1>2. LeaseInv /\ [Next]_vars => LeaseInv' BY NextLeaseInv
<1>3. LeaseInv => Guarded
  <2> SUFFICES ASSUME LeaseInv, NEW d \in Drains, NEW j \in Jobs,
                      BeginHandler(d, j), age[d] < LeaseTicks
               PROVE  Owns(d, j)
    OBVIOUS
  <2>1. current[d] # j /\ Working(d, j)
    BY DEF BeginHandler, Working, LeaseInv, TypeInv, TypeOK
  <2> QED BY <2>1 DEF LeaseInv, HandInv, HoldsLease, Owns
<1>4. LeaseInv /\ [Next]_vars => [Guarded]_vars
  BY <1>3
<1> QED BY <1>1, <1>2, <1>4, PTL DEF Spec, StartsUnderLease

-----------------------------------------------------------------------------
(* The drains that may still start a job are finitely many.                  *)
LEMMA HoldersType ==
  ASSUME NEW j \in Jobs
  PROVE  IsFiniteSet(Holders(j)) /\ Cardinality(Holders(j)) \in Nat
BY FS_Subset, FS_CardinalityType DEF Holders

(* Handing back or losing jobs only lowers what may still be started.        *)
LEMMA FewerHolders ==
  ASSUME TypeInv, RunsWithinAttempts, UNCHANGED <<runs, attempts>>,
         \A d \in Drains : batch'[d] \subseteq batch[d]
  PROVE  RunsWithinAttempts'
<1> SUFFICES ASSUME NEW j \in Jobs
             PROVE  runs'[j] + Cardinality(Holders(j)') <= attempts'[j]
  BY DEF RunsWithinAttempts
<1>1. Holders(j)' \subseteq Holders(j)
  BY DEF Holders
<1>2. /\ Cardinality(Holders(j)') <= Cardinality(Holders(j))
      /\ Cardinality(Holders(j)') \in Nat
  BY <1>1, HoldersType, FS_Subset, FS_CardinalityType
<1>3. runs[j] + Cardinality(Holders(j)) <= attempts[j]
  BY DEF RunsWithinAttempts
<1> QED BY <1>2, <1>3, HoldersType DEF TypeInv, TypeOK

(* However drains crash and overlap, starts never outnumber attempts.        *)
THEOREM RunsWithinAttemptsHolds == Spec => []RunsWithinAttempts
<1>1. Init => RunsWithinAttempts
  <2> SUFFICES ASSUME Init, NEW j \in Jobs
               PROVE  runs[j] + Cardinality(Holders(j)) <= attempts[j]
    BY DEF RunsWithinAttempts
  <2>1. Holders(j) = {}
    BY DEF Init, Holders
  <2> QED BY <2>1, FS_EmptySet DEF Init
<1>2. TypeInv /\ RunsWithinAttempts /\ [Next]_vars => RunsWithinAttempts'
  <2> SUFFICES ASSUME TypeInv, RunsWithinAttempts, [Next]_vars PROVE RunsWithinAttempts'
    OBVIOUS
  <2>1. ASSUME NEW j \in Jobs, Enqueue(j) PROVE RunsWithinAttempts'
    BY <2>1, FewerHolders DEF Enqueue, drainVars, history
  <2>2. ASSUME NEW d \in Drains, Claim(d) PROVE RunsWithinAttempts'
    <3> SUFFICES ASSUME NEW j \in Jobs
                 PROVE  runs'[j] + Cardinality(Holders(j)') <= attempts'[j]
      BY DEF RunsWithinAttempts
    <3>1. PICK claimed \in SUBSET Due : /\ attempts' = CountClaims(claimed)
                                       /\ batch' = [batch EXCEPT ![d] = claimed]
      BY <2>2 DEF Claim
    <3>2. runs' = runs /\ d \notin Holders(j) /\ batch[d] = {}
      BY <2>2 DEF Claim, history, Holders, TypeInv, TypeOK
    <3>3. /\ runs[j] \in Nat /\ attempts[j] \in Nat
          /\ runs[j] + Cardinality(Holders(j)) <= attempts[j]
      BY DEF TypeInv, TypeOK, RunsWithinAttempts
    <3>4. CASE j \in claimed
      <4>1. Holders(j)' = Holders(j) \cup {d}
        BY <3>1, <3>4 DEF Holders, TypeInv, TypeOK
      <4>2. Cardinality(Holders(j)') = Cardinality(Holders(j)) + 1
        BY <4>1, <3>2, HoldersType, FS_AddElement
      <4> QED BY <3>1, <3>2, <3>3, <3>4, <4>2, HoldersType DEF CountClaims
    <3>5. CASE j \notin claimed
      <4>1. Holders(j)' = Holders(j)
        BY <3>1, <3>2, <3>5 DEF Holders, TypeInv, TypeOK
      <4> QED BY <3>1, <3>2, <3>3, <3>5, <4>1, HoldersType DEF CountClaims
    <3> QED BY <3>4, <3>5
  <2>3. ASSUME NEW d \in Drains, DrainStep(d) PROVE RunsWithinAttempts'
    <3>1. ASSUME NEW k \in Jobs, BeginHandler(d, k) PROVE RunsWithinAttempts'
      <4> SUFFICES ASSUME NEW j \in Jobs
                   PROVE  runs'[j] + Cardinality(Holders(j)') <= attempts'[j]
        BY DEF RunsWithinAttempts
      <4>1. attempts' = attempts
        BY <3>1 DEF BeginHandler, tableVars
      <4>2. /\ runs[j] \in Nat /\ attempts[j] \in Nat
            /\ runs[j] + Cardinality(Holders(j)) <= attempts[j]
        BY DEF TypeInv, TypeOK, RunsWithinAttempts
      <4>3. CASE j = k
        <5>1. d \in Holders(j) /\ Holders(j)' = Holders(j) \ {d}
          BY <3>1, <4>3 DEF BeginHandler, Holders, TypeInv, TypeOK
        <5>2. Cardinality(Holders(j)') = Cardinality(Holders(j)) - 1
          BY <5>1, HoldersType, FS_RemoveElement
        <5>3. runs'[j] = runs[j] + 1
          BY <3>1, <4>3 DEF BeginHandler, TypeInv, TypeOK
        <5> QED BY <4>1, <4>2, <5>2, <5>3, HoldersType
      <4>4. CASE j # k
        <5>1. Holders(j)' = Holders(j) /\ runs'[j] = runs[j]
          BY <3>1, <4>4 DEF BeginHandler, Holders, TypeInv, TypeOK
        <5> QED BY <4>1, <4>2, <5>1
      <4> QED BY <4>3, <4>4
    <3>2. ASSUME NEW k \in Jobs, NoHandler(d, k) PROVE RunsWithinAttempts'
      BY <3>2, FewerHolders DEF NoHandler, Release, Leave, tableVars, TypeInv, TypeOK
    <3>3. ASSUME NEW r \in Outcomes, HandlerReturns(d, r) PROVE RunsWithinAttempts'
      BY <3>3, FewerHolders DEF HandlerReturns, tableVars
    <3>4. ASSUME Complete(d) PROVE RunsWithinAttempts'
      BY <3>4, FewerHolders DEF Complete, Release, Continue, history
    <3>5. ASSUME CompleteUnanswered(d) PROVE RunsWithinAttempts'
      BY <3>5, FewerHolders DEF CompleteUnanswered, Release, history
    <3>6. ASSUME SettleFailure(d) PROVE RunsWithinAttempts'
      BY <3>6, FewerHolders
         DEF SettleFailure, Release, Continue, Leave, tableVars, history, TypeInv, TypeOK
    <3>7. ASSUME Finish(d) PROVE RunsWithinAttempts'
      BY <3>7, FewerHolders DEF Finish, Leave, tableVars, history, TypeInv, TypeOK
    <3> QED BY <2>3, <3>1, <3>2, <3>3, <3>4, <3>5, <3>6, <3>7 DEF DrainStep
  <2>4. ASSUME NEW d \in Drains, Crash(d) PROVE RunsWithinAttempts'
    BY <2>4, FewerHolders DEF Crash, Leave, tableVars, history, TypeInv, TypeOK
  <2>5. ASSUME Tick PROVE RunsWithinAttempts'
    BY <2>5, FewerHolders DEF Tick, history
  <2>6. CASE UNCHANGED vars
    BY <2>6, FewerHolders DEF vars, tableVars, drainVars, history
  <2> QED BY <2>1, <2>2, <2>3, <2>4, <2>5, <2>6 DEF Next
<1>3. Init => TypeInv BY InitTypeInv
<1>4. TypeInv /\ [Next]_vars => TypeInv' BY NextTypeInv
<1> QED BY <1>1, <1>2, <1>3, <1>4, PTL DEF Spec

-----------------------------------------------------------------------------
(* A job in hand has been charged an attempt, and the verdict a drain acts   *)
(* on was given by the handler of that job.                                  *)
Tried == \A d \in Drains : \A j \in Jobs : Working(d, j) => attempts[j] > 0

Verdict == \A d \in Drains : /\ phase[d] = "ok" => current[d] \in succeeded
                             /\ phase[d] = "permanent" => current[d] \in refused

AnswerInv == TypeInv /\ Tried /\ Verdict

(* A verdict on a job comes from a drain that charged an attempt for it.     *)
LEMMA NextAnswerInv == AnswerInv /\ [Next]_vars => AnswerInv'
<1> SUFFICES ASSUME AnswerInv, [Next]_vars PROVE AnswerInv'
  OBVIOUS
<1>0. TypeInv /\ TypeInv'
  BY NextTypeInv DEF AnswerInv
<1> USE <1>0 DEF AnswerInv, Tried, Verdict, Working, TypeInv, TypeOK
<1>1. ASSUME NEW j \in Jobs, Enqueue(j) PROVE AnswerInv'
  BY <1>1 DEF Enqueue, drainVars, history
<1>2. ASSUME NEW d \in Drains, Claim(d) PROVE AnswerInv'
  BY <1>2 DEF Claim, CountClaims, Due, history
<1>3. ASSUME NEW d \in Drains, DrainStep(d) PROVE AnswerInv'
  <2>1. ASSUME NEW j \in Jobs, BeginHandler(d, j) PROVE AnswerInv'
    BY <2>1 DEF BeginHandler, tableVars
  <2>2. ASSUME NEW j \in Jobs, NoHandler(d, j) PROVE AnswerInv'
    BY <2>2 DEF NoHandler, Release, Leave, tableVars
  <2>3. ASSUME NEW r \in Outcomes, HandlerReturns(d, r) PROVE AnswerInv'
    BY <2>3 DEF HandlerReturns, tableVars
  <2>4. ASSUME Complete(d) PROVE AnswerInv'
    BY <2>4 DEF Complete, Release, Continue, history
  <2>5. ASSUME CompleteUnanswered(d) PROVE AnswerInv'
    BY <2>5 DEF CompleteUnanswered, Release, history
  <2>6. ASSUME SettleFailure(d) PROVE AnswerInv'
    BY <2>6 DEF SettleFailure, Release, Continue, Leave, tableVars, history
  <2>7. ASSUME Finish(d) PROVE AnswerInv'
    BY <2>7 DEF Finish, Leave, tableVars, history
  <2> QED BY <1>3, <2>1, <2>2, <2>3, <2>4, <2>5, <2>6, <2>7 DEF DrainStep
<1>4. ASSUME NEW d \in Drains, Crash(d) PROVE AnswerInv'
  BY <1>4 DEF Crash, Leave, tableVars, history
<1>5. ASSUME Tick PROVE AnswerInv'
  BY <1>5 DEF Tick, history
<1>6. CASE UNCHANGED vars
  BY <1>6 DEF vars, tableVars, drainVars, history
<1> QED BY <1>1, <1>2, <1>3, <1>4, <1>5, <1>6 DEF Next

(* One job's row, as its caller sees it, moves as the contract allows.       *)
RowStep(j) ==
  \/ jobState[j] = "ABSENT" /\ jobState'[j] = "PENDING" /\ attempts'[j] = attempts[j]
  \/ /\ jobState[j] \in {"PENDING", "PROCESSING"} /\ attempts[j] < MaxAttempts
     /\ jobState'[j] = "PROCESSING" /\ attempts'[j] = attempts[j] + 1
  \/ /\ jobState[j] = "PROCESSING" /\ attempts[j] > 0 /\ j \in succeeded
     /\ jobState'[j] = "COMPLETED" /\ attempts'[j] = attempts[j]
  \/ /\ jobState[j] = "PROCESSING"
     /\ attempts[j] = MaxAttempts \/ (attempts[j] > 0 /\ j \in refused')
     /\ jobState'[j] = "FAILED" /\ attempts'[j] = attempts[j]
  \/ /\ jobState[j] = "PROCESSING" /\ jobState'[j] = "PENDING"
     /\ attempts'[j] = attempts[j]
  \/ jobState'[j] = jobState[j] /\ attempts'[j] = attempts[j]

NewAnswers ==
  /\ succeeded \subseteq succeeded' /\ refused \subseteq refused'
  /\ \A j \in (succeeded' \ succeeded) \cup (refused' \ refused) : attempts[j] > 0

(* Every step treats every row as the contract allows.                       *)
LEMMA StepRows == AnswerInv /\ [Next]_vars => NewAnswers /\ \A j \in Jobs : RowStep(j)
<1> SUFFICES ASSUME AnswerInv, [Next]_vars PROVE NewAnswers /\ \A j \in Jobs : RowStep(j)
  OBVIOUS
<1> DEFINE Goal == NewAnswers /\ \A j \in Jobs : RowStep(j)
<1> USE DEF AnswerInv, Tried, Verdict, Working, TypeInv, TypeOK, RowStep, NewAnswers
<1>1. ASSUME NEW j \in Jobs, Enqueue(j) PROVE Goal
  BY <1>1 DEF Enqueue, history
<1>2. ASSUME NEW d \in Drains, Claim(d) PROVE Goal
  BY <1>2 DEF Claim, CountClaims, Due, Exhausted, LeaseExpired, history
<1>3. ASSUME NEW d \in Drains, DrainStep(d) PROVE Goal
  <2>1. ASSUME NEW j \in Jobs, BeginHandler(d, j) PROVE Goal
    BY <2>1 DEF BeginHandler, tableVars
  <2>2. ASSUME NEW j \in Jobs, NoHandler(d, j) PROVE Goal
    BY <2>2 DEF NoHandler, Release, Owns, tableVars
  <2>3. ASSUME NEW r \in Outcomes, HandlerReturns(d, r) PROVE Goal
    BY <2>3 DEF HandlerReturns, tableVars
  <2>4. ASSUME Complete(d) PROVE Goal
    BY <2>4 DEF Complete, Release, Owns, history
  <2>5. ASSUME CompleteUnanswered(d) PROVE Goal
    BY <2>5 DEF CompleteUnanswered, Release, Owns, history
  <2>6. ASSUME SettleFailure(d) PROVE Goal
    <3>0. PICK k \in Jobs : k = current[d]
      BY <2>6 DEF SettleFailure, Phases
    <3>1. NewAnswers
      BY <2>6 DEF SettleFailure, history
    <3>2. phase[d] = "permanent" \/ attempts[k] >= MaxAttempts
            => attempts[k] = MaxAttempts \/ (attempts[k] > 0 /\ k \in refused')
      BY <2>6, <3>0 DEF SettleFailure, history
    <3>3. CASE Owns(d, k) /\ Release(k, "FAILED")
               /\ (phase[d] = "permanent" \/ attempts[k] >= MaxAttempts)
      BY <3>1, <3>2, <3>3 DEF Release, Owns
    <3>4. CASE Owns(d, k) /\ Release(k, "PENDING")
      BY <3>1, <3>4 DEF Release, Owns
    <3>5. CASE UNCHANGED tableVars
      BY <3>1, <3>5 DEF tableVars
    <3> QED BY <2>6, <3>0, <3>3, <3>4, <3>5 DEF SettleFailure
  <2>7. ASSUME Finish(d) PROVE Goal
    BY <2>7 DEF Finish, tableVars, history
  <2> QED BY <1>3, <2>1, <2>2, <2>3, <2>4, <2>5, <2>6, <2>7 DEF DrainStep
<1>4. ASSUME NEW d \in Drains, Crash(d) PROVE Goal
  BY <1>4 DEF Crash, tableVars, history
<1>5. ASSUME Tick PROVE Goal
  BY <1>5 DEF Tick, history
<1>6. CASE UNCHANGED vars
  BY <1>6 DEF vars, tableVars, history
<1> QED BY <1>1, <1>2, <1>3, <1>4, <1>5, <1>6 DEF Next

(* The lease protocol implements the contract its callers rely on.           *)
THEOREM ImplementsContract == Spec => ContractSpec
<1>1. Init => Contract!Init
  BY DEF Init, Contract!Init, CallerPhase
<1>2. AnswerInv /\ [Next]_vars => [Contract!Next]_(Contract!vars)
  <2> SUFFICES ASSUME AnswerInv, [Next]_vars PROVE Contract!Next
    OBVIOUS
  <2>1. NewAnswers /\ \A j \in Jobs : RowStep(j)
    BY StepRows
  <2>2. ASSUME NEW j \in Jobs
        PROVE  \/ Contract!Accept(j) \/ Contract!Try(j) \/ Contract!Report(j)
               \/ Contract!GiveUp(j) \/ Contract!Idle(j)
    BY <2>1 DEF RowStep, CallerPhase, Contract!Accept, Contract!Try, Contract!Report,
                Contract!GiveUp, Contract!Idle
  <2> QED BY <2>1, <2>2 DEF NewAnswers, Contract!Next, Contract!Answer
<1>3. Init => AnswerInv
  BY InitTypeInv DEF Init, AnswerInv, Tried, Verdict, Working
<1>4. AnswerInv /\ [Next]_vars => AnswerInv'
  BY NextAnswerInv
<1> QED BY <1>1, <1>2, <1>3, <1>4, PTL DEF Spec, ContractSpec, Contract!Spec
=============================================================================
