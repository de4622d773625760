--------------------------- MODULE Manufacturing ---------------------------
(***************************************************************************)
(* One Issue from its approved design to delivery: the manufacturing_jobs  *)
(* row, the order at Printful, the owner's createDraft and confirmDraft    *)
(* (also twice at once), and the signed webhook events, which arrive late, *)
(* twice or in any order.  Meanwhile the owner may replace the design, and *)
(* the payment may be refunded.                                            *)
(*                                                                         *)
(* The Printful side is external: an order by external id, which stays a   *)
(* draft until it is confirmed, and events redelivered until answered 2xx. *)
(***************************************************************************)
EXTENDS Naturals, IssueStatus

CONSTANTS
  Requests,  \* slots for concurrent owner requests and webhook calls
  Artworks,  \* the artworks the design may come to hold
  Legacy,    \* those whose locator starts with fs://
  Signed,    \* those the injected ArtworkAccessGateway makes a read URL for
  MaxDeaths  \* bound on requests that die between two statements

Absent == "none"
(* What the values of the constants must satisfy. *)
FactoryAssumption ==
  /\ Legacy \subseteq Artworks /\ Signed \subseteq Artworks
  /\ Absent \notin Artworks /\ Artworks # {}
  /\ MaxDeaths \in Nat

VARIABLES
  status,     \* issues.status
  flagged,    \* issues.payment_exception_code is not null
  design,     \* the design_jobs row
  approved,   \* history: the artworks that have been approved
  job,        \* manufacturing_jobs: its state, and whether it knows its order
  order,      \* the order at Printful
  emitted,    \* events Printful has signed
  unanswered, \* those it still redelivers
  recorded,   \* manufacturing_provider_events
  effects,    \* what the handled events have led to elsewhere
  step, req,  \* the next statement of each request, and what it works on
  deaths      \* requests that died so far

issueVars   == <<status, flagged>>
designVars  == <<design, approved>>
eventVars   == <<emitted, unanswered, recorded, effects>>
requestVars == <<step, req>>
vars == <<issueVars, designVars, job, order, eventVars, requestVars, deaths>>

Events    == {"SENT", "DELIVERED", "FAILED", "CANCELED", "UPDATED"}
Shipments == {"SENT", "DELIVERED"}
JobStates == {"NONE", "RESERVED", "FAILED", "CANCELED"} \cup Started
Produced  == {"IN_PRODUCTION", "SHIPPED", "DELIVERED"}
OrderStates == {"none", "draft", "pending", "shipped", "delivered", "failed", "canceled"}
Steps == {"idle", "find", "load", "reserve", "lookup", "post", "attach", "fail",
          "found", "check", "ready", "charge", "confirm",
          "apply", "reward", "notify", "answer"}
Rest == [fresh |-> FALSE, artwork |-> Absent, event |-> "none"]
-----------------------------------------------------------------------------
Init ==
  /\ status = "DESIGN_REVIEW" /\ flagged = FALSE
  /\ design \in [state : {"REVIEW"}, artwork : Artworks] /\ approved = {}
  /\ job = [state |-> "NONE", ordered |-> FALSE]
  /\ order = [state |-> "none", artwork |-> Absent, charged |-> FALSE]
  /\ emitted = {} /\ unanswered = {} /\ recorded = {} /\ effects = {}
  /\ step = [r \in Requests |-> "idle"] /\ req = [r \in Requests |-> Rest]
  /\ deaths = 0

Moves(r, s, w) == step' = [step EXCEPT ![r] = s] /\ req' = [req EXCEPT ![r] = w]
Goto(r, s)     == Moves(r, s, req[r])
Ends(r)        == Moves(r, "idle", Rest)
Begins(r, s, w) == step[r] = "idle" /\ Moves(r, s, w)
(* The request reads or calls out, and only moves on. *)
Only(r) == UNCHANGED <<issueVars, designVars, job, order, eventVars, deaths>>
-----------------------------------------------------------------------------
(* What the designers' side does meanwhile: a new artwork comes to review as
   long as the factory has no draft, and is approved. *)
Replace(a) ==
  /\ status \in {"DESIGN_REVIEW", "DESIGN_APPROVED"} /\ job.state \notin Started
  /\ design' = [state |-> "REVIEW", artwork |-> a] /\ status' = "DESIGN_REVIEW"
  /\ UNCHANGED <<flagged, approved, job, order, eventVars, requestVars, deaths>>
Approve ==
  /\ design.state = "REVIEW"
  /\ design' = [design EXCEPT !.state = "APPROVED"]
  /\ approved' = approved \cup {design.artwork}
  /\ status' = IF status = "DESIGN_REVIEW" THEN "DESIGN_APPROVED" ELSE status
  /\ UNCHANGED <<flagged, job, order, eventVars, requestVars, deaths>>

(* A refund or a payment exception, projected on the Issue. *)
Flag ==
  /\ flagged' = TRUE
  /\ status' = IF status \in PreProduction THEN "EXCEPTION" ELSE status
  /\ UNCHANGED <<designVars, job, order, eventVars, requestVars, deaths>>
Quarantine ==
  /\ status \in {"DESIGN_APPROVED", "MANUFACTURING_DRAFT"} /\ job.state \notin Produced
  /\ status' = "EXCEPTION"
  /\ UNCHANGED <<flagged, designVars, job, order, eventVars, requestVars, deaths>>
-----------------------------------------------------------------------------
(* createDraft. *)
StartDraft(r) == Begins(r, "find", Rest) /\ Only(r)
FindJob(r) ==
  /\ step[r] = "find"
  /\ \/ /\ job.state \in {"NONE", "FAILED"}
        /\ Moves(r, "load", [Rest EXCEPT !.fresh = job.state = "NONE"])
     \/ job.state \notin {"NONE", "FAILED"} /\ Ends(r)
  /\ Only(r)

EligibleForDraft ==
  status = "DESIGN_APPROVED" /\ design.state = "APPROVED" /\ design.artwork \in Legacy
LoadInput(r) ==
  /\ step[r] = "load"
  /\ \/ /\ EligibleForDraft
        /\ Moves(r, IF req[r].fresh THEN "reserve" ELSE "lookup",
                 [req[r] EXCEPT !.artwork = design.artwork])
     \/ ~EligibleForDraft /\ Ends(r)
  /\ Only(r)

CanReserve == job.state = "NONE" /\ status = "DESIGN_APPROVED" /\ design.state = "APPROVED"
Reserve(r) ==
  /\ step[r] = "reserve"
  /\ \/ CanReserve /\ job' = [job EXCEPT !.state = "RESERVED"] /\ Goto(r, "lookup")
     \/ job.state = "FAILED" /\ Goto(r, "lookup") /\ UNCHANGED job
     \/ ~CanReserve /\ job.state # "FAILED" /\ Ends(r) /\ UNCHANGED job
  /\ UNCHANGED <<issueVars, designVars, order, eventVars, deaths>>

(* The gateway asks for an order under this Issue's code before it makes one:
   a draft that is there is taken as it is, any other order is refused. *)
Lookup(r) ==
  /\ step[r] = "lookup"
  /\ \/ req[r].artwork \notin Signed /\ Goto(r, "fail")
     \/ req[r].artwork \in Signed /\ order.state = "draft" /\ Goto(r, "attach")
     \/ req[r].artwork \in Signed /\ order.state = "none" /\ Goto(r, "post")
     \/ order.state \notin {"draft", "none"} /\ Goto(r, "fail")
  /\ Only(r)
(* update_existing=true: a draft made meanwhile gets this artwork; the answer
   may be lost although the order was made. *)
Post(r) ==
  /\ step[r] = "post"
  /\ \/ /\ order.state \in {"none", "draft"}
        /\ order' = [order EXCEPT !.state = "draft", !.artwork = req[r].artwork]
        /\ Goto(r, "attach") \/ Goto(r, "fail")
     \/ order.state \notin {"none", "draft"} /\ Goto(r, "fail") /\ UNCHANGED order
  /\ UNCHANGED <<issueVars, designVars, job, eventVars, deaths>>
GatewayFails(r) ==
  \/ step[r] \in {"lookup", "post"} /\ Goto(r, "fail") /\ Only(r)
  \/ step[r] \in {"ready", "charge"} /\ Ends(r) /\ Only(r)

Attachable == job.state \in {"RESERVED", "FAILED"}
(* The row takes the draft even when the Issue can no longer follow. *)
AttachDraft(r) ==
  /\ step[r] = "attach"
  /\ \/ /\ Attachable /\ job' = [state |-> "DRAFT", ordered |-> TRUE]
        /\ \/ /\ status = "DESIGN_APPROVED" /\ status' = "MANUFACTURING_DRAFT"
              /\ Ends(r)
           \/ status # "DESIGN_APPROVED" /\ Goto(r, "fail") /\ UNCHANGED status
     \/ ~Attachable /\ Goto(r, "fail") /\ UNCHANGED <<job, status>>
  /\ UNCHANGED <<flagged, designVars, order, eventVars, deaths>>
(* Mutant: a failure is written over whatever the row has become. *)
MarkFailedAlways(r) ==
  /\ step[r] = "fail" /\ job' = [job EXCEPT !.state = "FAILED"] /\ Ends(r)
  /\ UNCHANGED <<issueVars, designVars, order, eventVars, deaths>>
MarkFailed(r) ==
  /\ step[r] = "fail"
  /\ job' = IF Attachable THEN [job EXCEPT !.state = "FAILED"] ELSE job
  /\ Ends(r)
  /\ UNCHANGED <<issueVars, designVars, order, eventVars, deaths>>
-----------------------------------------------------------------------------
(* confirmDraft. *)
StartConfirm(r) == Begins(r, "found", Rest) /\ Only(r)
FindDraft(r) ==
  /\ step[r] = "found"
  /\ IF job.state = "DRAFT" THEN Goto(r, "check") ELSE Ends(r)
  /\ Only(r)
(* Mutant: the Issue is not asked again before the charge. *)
EligibleUnchecked == job.state = "DRAFT"
EligibleForProduction == status = "MANUFACTURING_DRAFT" /\ design.state = "APPROVED"
Check(r) ==
  /\ step[r] = "check"
  /\ IF EligibleForProduction THEN Goto(r, "ready") ELSE Ends(r)
  /\ Only(r)
Ready(r) ==
  /\ step[r] = "ready"
  /\ IF order.state = "draft" THEN Goto(r, "charge") ELSE Ends(r)
  /\ Only(r)
(* Printful takes the order into production and charges for it; the answer
   may be lost, and confirmDraft throws. *)
Charge(r) ==
  /\ step[r] = "charge"
  /\ \/ /\ order.state = "draft"
        /\ order' = [order EXCEPT !.state = "pending", !.charged = TRUE]
        /\ Goto(r, "confirm") \/ Ends(r)
     \/ order.state # "draft" /\ Ends(r) /\ UNCHANGED order
  /\ UNCHANGED <<issueVars, designVars, job, eventVars, deaths>>
MarkConfirmed(r) ==
  /\ step[r] = "confirm"
  /\ \/ /\ job.state = "DRAFT" /\ job' = [job EXCEPT !.state = "IN_PRODUCTION"]
        /\ status' = IF status = "MANUFACTURING_DRAFT" THEN "IN_PRODUCTION" ELSE status
     \/ job.state # "DRAFT" /\ UNCHANGED <<job, status>>
  /\ Ends(r)
  /\ UNCHANGED <<flagged, designVars, order, eventVars, deaths>>
-----------------------------------------------------------------------------
(* Printful: what happens to the order, and the event it signs for it. *)
Emits(e, s) ==
  /\ e \notin emitted
  /\ emitted' = emitted \cup {e} /\ unanswered' = unanswered \cup {e}
  /\ order' = [order EXCEPT !.state = s]
  /\ UNCHANGED <<issueVars, designVars, job, recorded, effects, requestVars, deaths>>
Ship     == order.state = "pending" /\ Emits("SENT", "shipped")
Deliver  == order.state = "shipped" /\ Emits("DELIVERED", "delivered")
Trouble  == order.state \in {"draft", "pending", "shipped"} /\ Emits("FAILED", "failed")
CancelOrder == order.state \in {"draft", "pending"} /\ Emits("CANCELED", "canceled")
UpdateOrder == order.state # "none" /\ Emits("UPDATED", order.state)

(* A webhook call, the first one or a repeated one. *)
StartEvent(r, e) ==
  /\ e \in emitted /\ Begins(r, "apply", [Rest EXCEPT !.event = e]) /\ Only(r)

(* targetStates: what an event makes of the job and of the Issue. *)
JobTarget(e) == IF e = "SENT" THEN "SHIPPED" ELSE IF e = "UPDATED" THEN job.state ELSE e
(* Mutant: a shipment is only noted on the job. *)
IssueTargetDelivered(e) ==
  IF e = "FAILED" THEN "EXCEPTION" ELSE IF e \in {"SENT", "UPDATED"} THEN status ELSE e
IssueTarget(e) ==
  IF e = "SENT" THEN "IN_TRANSIT" ELSE IF e = "FAILED" THEN "EXCEPTION"
  ELSE IF e = "UPDATED" THEN status ELSE e
(* Mutant: the trigger knows no order of the physical states. *)
AbortsNever(e) == FALSE
Aborts(e) == Raises(status, IssueTarget(e), job.state \in Started, flagged)

(* applyProviderEvent is one statement: event, job and Issue change together
   or, when the Issue trigger raises, not at all, and the call answers 500. *)
ApplyEvent(r) ==
  LET e == req[r].event IN
  /\ step[r] = "apply"
  /\ \/ /\ job.ordered /\ e \notin recorded /\ ~Aborts(e)
        /\ recorded' = recorded \cup {e}
        /\ job' = [job EXCEPT !.state = JobTarget(e)]
        /\ status' = After(status, IssueTarget(e), flagged)
        /\ Goto(r, "reward")
     \/ job.ordered /\ e \notin recorded /\ Aborts(e) /\ Ends(r)
        /\ UNCHANGED <<recorded, job, status>>
     \/ job.ordered /\ e \in recorded /\ Goto(r, "reward")
        /\ UNCHANGED <<recorded, job, status>>
     \/ ~job.ordered /\ Goto(r, "answer") /\ UNCHANGED <<recorded, job, status>>
  /\ UNCHANGED <<flagged, designVars, order, emitted, unanswered, effects, deaths>>

(* markDeliveredIssue and the lifecycle email; each may be repeated. *)
Effect(r, at, x, then) ==
  /\ step[r] = at
  /\ effects' = effects \cup x /\ Goto(r, then)
  /\ UNCHANGED <<issueVars, designVars, job, order, emitted, unanswered, recorded, deaths>>
MakeAvailable(r) ==
  Effect(r, "reward", IF req[r].event = "DELIVERED" THEN {"REWARD"} ELSE {}, "notify")
Notify(r) == Effect(r, "notify", {req[r].event} \cap Shipments, "answer")
(* Mutant: the call is answered before the effects of its event. *)
AnswerEarly(r) ==
  /\ step[r] \in {"reward", "answer"}
  /\ unanswered' = unanswered \ {req[r].event} /\ Ends(r)
  /\ UNCHANGED <<issueVars, designVars, job, order, emitted, recorded, effects, deaths>>
Answer(r) ==
  /\ step[r] = "answer"
  /\ unanswered' = unanswered \ {req[r].event} /\ Ends(r)
  /\ UNCHANGED <<issueVars, designVars, job, order, emitted, recorded, effects, deaths>>
-----------------------------------------------------------------------------
Die(r) ==
  /\ step[r] # "idle" /\ deaths < MaxDeaths
  /\ deaths' = deaths + 1 /\ Ends(r)
  /\ UNCHANGED <<issueVars, designVars, job, order, eventVars>>

Work(r) ==
  \/ FindJob(r) \/ LoadInput(r) \/ Reserve(r) \/ Lookup(r) \/ Post(r)
  \/ AttachDraft(r) \/ MarkFailed(r)
  \/ FindDraft(r) \/ Check(r) \/ Ready(r) \/ Charge(r) \/ MarkConfirmed(r)
  \/ ApplyEvent(r) \/ MakeAvailable(r) \/ Notify(r) \/ Answer(r)

Outside ==
  \/ \E a \in Artworks : Replace(a)
  \/ Approve \/ Flag \/ Quarantine
  \/ Ship \/ Deliver \/ Trouble \/ CancelOrder \/ UpdateOrder

Next ==
  \/ Outside
  \/ \E r \in Requests :
       \/ StartDraft(r) \/ StartConfirm(r) \/ \E e \in Events : StartEvent(r, e)
       \/ Work(r) \/ GatewayFails(r) \/ Die(r)

Spec == Init /\ [][Next]_vars

(* A running request goes on; Printful redelivers what was not answered. *)
Redelivers(e) == e \in unanswered /\ \E r \in Requests : StartEvent(r, e)
Fairness ==
  /\ \A r \in Requests : WF_vars(Work(r))
  /\ \A e \in Shipments : SF_vars(Redelivers(e))
FairSpec == Spec /\ Fairness
-----------------------------------------------------------------------------
(* Every variable keeps its type: rows of issues, design_jobs and
   manufacturing_jobs, the order, the events, and the running requests. *)
TypeOK ==
  /\ status \in IssueStatuses /\ flagged \in BOOLEAN
  /\ design \in [state : {"REVIEW", "APPROVED"}, artwork : Artworks]
  /\ approved \subseteq Artworks
  /\ job \in [state : JobStates, ordered : BOOLEAN]
  /\ order \in [state : OrderStates, artwork : Artworks \cup {Absent}, charged : BOOLEAN]
  /\ recorded \subseteq emitted /\ unanswered \subseteq emitted /\ emitted \subseteq Events
  /\ effects \subseteq Shipments \cup {"REWARD"}
  /\ step \in [Requests -> Steps]
  /\ req \in [Requests -> [fresh : BOOLEAN, artwork : Artworks \cup {Absent},
                           event : Events \cup {"none"}]]
  /\ deaths \in 0..MaxDeaths

(* Nothing is called produced, shipped or delivered that the factory has not
   taken: the job and the Issue follow the charge, and each later state the
   signed event it needs, in order (markConfirmed, applyProviderEvent). *)
FollowsFactoryTruth ==
  /\ job.state \in Produced \/ status \in Physical \cup {"DELIVERED"} => order.charged
  /\ status \in {"IN_TRANSIT", "DELIVERED"} => "SENT" \in recorded
  /\ status = "DELIVERED" <=> job.state = "DELIVERED"
  /\ status = "DELIVERED" => "DELIVERED" \in recorded

(* The factory is only charged for an artwork that was approved, and for an
   Issue that can no longer go back to design, whatever createDraft,
   confirmDraft and the designers' side do at once. *)
ChargedWasApproved ==
  order.charged => /\ order.artwork \in approved
                   /\ status \notin {"DESIGN_REVIEW", "DESIGN_APPROVED"}

(* A draft that was attached is only lost by what Printful says of it, never
   by a createDraft that failed beside it (markFailed, attachDraft). *)
AttachedDraftSurvives ==
  job.ordered /\ job.state \in {"NONE", "RESERVED", "FAILED"} => "FAILED" \in recorded

(* A shipment event that was answered has been recorded, the buyer's email is
   queued and the creator's reward available, over deaths, repetitions and
   statements the Issue trigger aborts (the webhook route). *)
AnsweredShipmentIsFinal ==
  \A e \in (emitted \ unanswered) \cap Shipments :
    /\ e \in recorded /\ e \in effects
    /\ e = "DELIVERED" => "REWARD" \in effects

(* Late, stale and repeated events and slow requests change nothing about an
   Issue that is delivered or canceled (applyProviderEvent, its trigger). *)
FinalIsFinal ==
  [][(status \in {"DELIVERED", "CANCELED"}) => UNCHANGED <<status, job>>]_vars

(* A delivery is shown in the end, although its events may come in the wrong
   order: the later one is refused until the earlier one was applied. *)
DeliveredUnshown == status = "IN_PRODUCTION" /\ order.state = "delivered"
ShownDelivered   == status = "DELIVERED"
DeliveryIsShown  == DeliveredUnshown ~> ShownDelivered
-----------------------------------------------------------------------------
(* Statements of the documents the code does not live up to. *)

(* The owner of an approved design who asks for a draft again and again gets
   at least as far as reserving one (the locator check of createDraft). *)
DraftIsTried ==
  status = "DESIGN_APPROVED"
    ~> (status # "DESIGN_APPROVED" \/ job.state # "NONE" \/ deaths > 0)
AskingSpec == FairSpec /\ SF_vars(\E r \in Requests : StartDraft(r))
=============================================================================
