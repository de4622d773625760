---------------------------- MODULE MCProduction ----------------------------
(***************************************************************************)
(* Small instances, side by side, of what must happen in the end once a    *)
(* customer has paid: the payment becomes an Issue, the Issue is designed, *)
(* and its parcel is shown as delivered.  Init chooses one part; the parts *)
(* share the variables v1, v2, ..., of which a part leaves the rest at     *)
(* Unused.  The fairness is each part's own.                               *)
(***************************************************************************)
EXTENDS Integers, TLC

CONSTANTS None, p1, r1, r2, k1, a1, a2

VARIABLES part, v1, v2, v3, v4, v5, v6, v7, v8, v9, v10, v11, v12, v13, v14

Unused == "unused"

Payment == INSTANCE PaymentIssue WITH
  Attempts <- {p1}, Referred <- {}, Requests <- {r1, r2}, Moneys <- {"exact", "wrong"}, MaxFaults <- 1,
  status <- v1, issue <- v2, code <- v3, conversion <- v4, jobs <- v5, recorded <- v6, charge <- v7,
  emitted <- v8, unanswered <- v9, step <- v10, req <- v11, faults <- v12, lateIssue <- v13, lateReward <- v14

Studio == INSTANCE DesignPipeline WITH
  Requests <- {r1}, Uploads <- {}, Keys <- {k1}, Printable <- {"generated"}, MaxDeaths <- 1, MaxFailures <- 2,
  status <- v1, design <- v2, mfg <- v3, objects <- v4, candidates <- v5, selected <- v6, enqueued <- v7,
  step <- v8, req <- v9, deaths <- v10, failures <- v11

Factory == INSTANCE Manufacturing WITH
  Requests <- {r1}, Artworks <- {a1, a2}, Legacy <- {a1, a2}, Signed <- {a1, a2}, MaxDeaths <- 1,
  status <- v1, flagged <- v2, design <- v3, approved <- v4, job <- v5, order <- v6, emitted <- v7,
  unanswered <- v8, recorded <- v9, effects <- v10, step <- v11, req <- v12, deaths <- v13

Init ==
  \/ part = "payment" /\ Payment!Init
  \/ part = "design" /\ Studio!Init /\ v12 = Unused /\ v13 = Unused /\ v14 = Unused
  \/ part = "factory" /\ Factory!Init /\ v14 = Unused

Next ==
  /\ UNCHANGED part
  /\ \/ part = "payment" /\ Payment!Next
     \/ part = "design" /\ Studio!Next /\ UNCHANGED <<v12, v13, v14>>
     \/ part = "factory" /\ Factory!Next /\ UNCHANGED v14

vars == <<part, v1, v2, v3, v4, v5, v6, v7, v8, v9, v10, v11, v12, v13, v14>>

Paying(A) == part = "payment" /\ A /\ UNCHANGED part
Designing(A) == part = "design" /\ A /\ UNCHANGED <<part, v12, v13, v14>>
Making(A) == part = "factory" /\ A /\ UNCHANGED <<part, v14>>

(* The queue comes back for the job that makes the first design, and Safepay *)
(* for an event that was not answered.                                       *)
FirstJob == \E j \in Studio!Jobs : j.key = "initial" /\ Studio!StartHandler(r1, j)
Webhook == \E r \in {r1, r2} : \E e \in v9 : Payment!StartWebhook(r, e)

(* A fair action of each part: as only one part moves, fairness of the       *)
(* disjunction is fairness of the one that can happen.                       *)
Fairness ==
  /\ WF_vars(Paying(Payment!Run(r1)) \/ Designing(Studio!Work(r1)) \/ Making(Factory!Work(r1)))
  /\ WF_vars(Paying(Payment!Run(r2)))
  /\ SF_vars(Paying(Webhook) \/ Designing(FirstJob) \/ Making(Factory!Redelivers("SENT")))
  /\ SF_vars(Making(Factory!Redelivers("DELIVERED")))

FairSpec == Init /\ [][Next]_vars /\ Fairness

-----------------------------------------------------------------------------
(* PaymentIssue: a verified payment becomes an Issue with its design job and *)
(* its receipt queued, unless it is undone first.                            *)
PaidBecomesIssue ==
  part = "payment" /\ Payment!PaidFor(p1) ~> part = "payment" /\ Payment!IssuedOrUndone(p1)

(* DesignPipeline: a paid Issue whose design job was accepted gets its first *)
(* artwork, unless it is stopped or a server dies under it.                  *)
FirstDesignArrives ==
  part = "design" /\ Studio!FirstAccepted ~> part = "design" /\ Studio!ArrivedOrStopped

(* Manufacturing: a delivery is shown in the end, although its events may    *)
(* come in the wrong order.                                                  *)
DeliveryIsShown ==
  part = "factory" /\ Factory!DeliveredUnshown ~> part = "factory" /\ Factory!ShownDelivered
=============================================================================
