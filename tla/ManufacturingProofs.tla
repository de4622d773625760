------------------------ MODULE ManufacturingProofs ------------------------
(***************************************************************************)
(* Theorems about Manufacturing, for any number of concurrent owner        *)
(* requests and webhook calls, any artworks and any number of deaths.      *)
(*                                                                         *)
(* Everything a request relies on between two of its statements only ever  *)
(* grows: what was approved, emitted, recorded or led to its effects stays *)
(* so, an order stays known and charged, and an Issue that has left its    *)
(* design does not return.  Grows says this of a step, and Fits what a     *)
(* request at each statement relies on.                                    *)
(***************************************************************************)
EXTENDS Manufacturing, TLAPS

Request == [fresh : BOOLEAN, artwork : Artworks \cup {Absent}, event : Events \cup {"none"}]
InDesign == {"DESIGN_REVIEW", "DESIGN_APPROVED"}

(* What a request that comes to statement s with w relies on.                *)
Fits(s, w) ==
  /\ s \in {"reserve", "lookup", "post", "attach", "fail"} => w.artwork \in approved
  /\ s \in {"apply", "reward", "notify", "answer"} => w.event \in emitted
  /\ s \in {"check", "ready", "charge", "confirm"} => job.ordered
  /\ s \in {"ready", "charge", "confirm"} => status \notin InDesign
  /\ s = "confirm" => order.charged
  /\ s \in {"reward", "notify"} => w.event \in recorded
  /\ s = "answer" /\ w.event \in Shipments => w.event \in recorded /\ w.event \in effects
  /\ s \in {"notify", "answer"} /\ w.event = "DELIVERED" => "REWARD" \in effects

RequestsOK ==
  /\ step \in [Requests -> Steps]
  /\ req \in [Requests -> Request]
  /\ \A r \in Requests : Fits(step[r], req[r])

RowsOK ==
  /\ status \in IssueStatuses /\ flagged \in BOOLEAN
  /\ design \in [state : {"REVIEW", "APPROVED"}, artwork : Artworks]
  /\ approved \subseteq Artworks
  /\ job \in [state : JobStates, ordered : BOOLEAN]
  /\ order \in [state : OrderStates, artwork : Artworks \cup {Absent}, charged : BOOLEAN]
EventsOK ==
  /\ recorded \subseteq emitted /\ unanswered \subseteq emitted /\ emitted \subseteq Events
  /\ effects \subseteq Shipments \cup {"REWARD"}
DeathsOK == deaths \in 0..MaxDeaths
TypeInv == RowsOK /\ EventsOK /\ DeathsOK /\ RequestsOK

(* A design says APPROVED of an artwork that was approved, and the order is  *)
(* made of one.                                                              *)
ApprovedInv ==
  /\ design.state = "APPROVED" => design.artwork \in approved
  /\ order.state # "none" => order.artwork \in approved

(* The order is charged once it has left the draft for production, and then  *)
(* the job knows it and the Issue is out of its design.                      *)
ChargeInv ==
  /\ order.charged => order.state \notin {"none", "draft"} /\ job.ordered /\ status \notin InDesign
  /\ order.state \in {"pending", "shipped", "delivered"} => order.charged
  /\ emitted \cap Shipments # {} => order.charged

(* The job is produced, and its Issue final, together with what they know.   *)
JobInv ==
  /\ job.state \in Started => job.ordered
  /\ status = "CANCELED" => job.state = "CANCELED"

StateInv == /\ ApprovedInv /\ ChargeInv /\ JobInv
            /\ FollowsFactoryTruth /\ AttachedDraftSurvives /\ AnsweredShipmentIsFinal

IInv == TypeInv /\ StateInv

Grows ==
  /\ approved \subseteq approved' /\ emitted \subseteq emitted'
  /\ recorded \subseteq recorded' /\ effects \subseteq effects'
  /\ job.ordered => job'.ordered
  /\ order.charged => order'.charged
  /\ status \notin InDesign => status' \notin InDesign
-----------------------------------------------------------------------------
(* The invariant holds in the initial state.                                 *)
LEMMA InitInv == FactoryAssumption /\ Init => IInv
<1> SUFFICES ASSUME FactoryAssumption, Init PROVE IInv
  OBVIOUS
<1>1. RowsOK
  <2>1. design \in [state : {"REVIEW", "APPROVED"}, artwork : Artworks]
    BY DEF Init
  <2> QED BY <2>1 DEF Init, RowsOK, IssueStatuses, PreProduction, JobStates, OrderStates
<1>5. EventsOK /\ DeathsOK
  BY DEF FactoryAssumption, Init, EventsOK, DeathsOK
<1>2. RequestsOK
  BY DEF Init, RequestsOK, Fits, Rest, Request, Steps
<1>3. ApprovedInv /\ ChargeInv /\ JobInv
  BY DEF Init, ApprovedInv, ChargeInv, JobInv, Started
<1>4. FollowsFactoryTruth /\ AttachedDraftSurvives /\ AnsweredShipmentIsFinal
  BY DEF Init, FollowsFactoryTruth, AttachedDraftSurvives, AnsweredShipmentIsFinal, Physical, Produced
<1> QED BY <1>1, <1>2, <1>3, <1>4, <1>5 DEF IInv, TypeInv, StateInv

(* What fitted a statement fits it after a step that only lets things grow.  *)
LEMMA GrowsKeepsFits ==
  ASSUME Grows, NEW s, NEW w, Fits(s, w)
  PROVE  Fits(s, w)'
BY DEF Grows, Fits

(* The requests stay in order when one moves on to what fits it.             *)
LEMMA MoveType ==
  ASSUME RequestsOK, Grows, NEW r \in Requests, NEW s \in Steps, NEW w \in Request,
         Moves(r, s, w), Fits(s, w)'
  PROVE  RequestsOK'
<1>1. step' \in [Requests -> Steps] /\ req' \in [Requests -> Request]
  BY DEF RequestsOK, Moves
<1>2. ASSUME NEW q \in Requests PROVE Fits(step[q], req[q])'
  <2>1. CASE q = r
    <3>1. step'[q] = s /\ req'[q] = w
      BY <2>1 DEF RequestsOK, Moves
    <3> QED BY <3>1 DEF Fits
  <2>2. CASE q # r
    <3>1. step'[q] = step[q] /\ req'[q] = req[q]
      BY <2>2 DEF RequestsOK, Moves
    <3>2. Fits(step[q], req[q])
      BY DEF RequestsOK
    <3> QED BY <3>1, <3>2 DEF Grows, Fits
  <2> QED BY <2>1, <2>2
<1> QED BY <1>1, <1>2 DEF RequestsOK

(* A request that ends relies on nothing.                                    *)
LEMMA EndType ==
  ASSUME RequestsOK, Grows, NEW r \in Requests, Ends(r)
  PROVE  RequestsOK'
<1>1. "idle" \in Steps /\ Rest \in Request /\ Fits("idle", Rest)'
  BY DEF Steps, Rest, Request, Fits
<1> QED BY <1>1, MoveType DEF Ends

(* A request that goes on with what it carries, which fits after the step.   *)
LEMMA GotoType ==
  ASSUME RequestsOK, Grows, NEW r \in Requests, NEW s \in Steps, NEW w, w = req[r],
         Goto(r, s), Fits(s, w)'
  PROVE  RequestsOK'
<1>1. w \in Request /\ Moves(r, s, w)
  BY DEF RequestsOK, Goto
<1> QED BY <1>1, MoveType

(* The same, when it fits before the step already.                           *)
LEMMA GoesOnType ==
  ASSUME RequestsOK, Grows, NEW r \in Requests, NEW s \in Steps,
         Goto(r, s), Fits(s, req[r])
  PROVE  RequestsOK'
<1>1. PICK w : w = req[r]
  OBVIOUS
<1>2. Fits(s, w)
  BY <1>1
<1>3. Fits(s, w)'
  BY <1>2, GrowsKeepsFits
<1> QED BY <1>1, <1>3, GotoType

(* Nothing of the requests changes.                                          *)
LEMMA StillType ==
  ASSUME RequestsOK, Grows, UNCHANGED requestVars
  PROVE  RequestsOK'
<1>1. ASSUME NEW q \in Requests PROVE Fits(step[q], req[q])'
  BY DEF RequestsOK, requestVars, Grows, Fits
<1> QED BY <1>1 DEF RequestsOK, requestVars
-----------------------------------------------------------------------------
(* A request that only reads or calls out disturbs nothing but itself.       *)
LEMMA OnlyGrows == ASSUME NEW r, Only(r) PROVE Grows
BY DEF Only, Grows, issueVars, designVars, eventVars

LEMMA OnlyInv ==
  ASSUME IInv, NEW r \in Requests, Only(r), RequestsOK'
  PROVE  IInv'
<1>1. RowsOK' /\ EventsOK' /\ DeathsOK'
  BY DEF IInv, TypeInv, RowsOK, EventsOK, DeathsOK, Only, issueVars, designVars, eventVars
<1>2. StateInv'
  BY DEF IInv, StateInv, ApprovedInv, ChargeInv, JobInv, FollowsFactoryTruth,
     AttachedDraftSurvives, AnsweredShipmentIsFinal, Only, issueVars, designVars, eventVars
<1> QED BY <1>1, <1>2 DEF IInv, TypeInv

(* What a request carries, and that it fits where the request is.            *)
LEMMA Carried ==
  ASSUME RequestsOK, NEW r \in Requests
  PROVE  /\ req[r] \in Request /\ step[r] \in Steps
         /\ Fits(step[r], req[r])
BY DEF RequestsOK

(* A slot at rest begins with what fits any first statement.                 *)
LEMMA BeginInv ==
  ASSUME IInv, NEW r \in Requests,
         \/ StartDraft(r) \/ StartConfirm(r) \/ \E e \in Events : StartEvent(r, e)
  PROVE  IInv'
<1>0. RequestsOK /\ EventsOK
  BY DEF IInv, TypeInv
<1>1. CASE StartDraft(r) \/ StartConfirm(r)
  <2>1. Only(r) /\ (Moves(r, "find", Rest) \/ Moves(r, "found", Rest))
    BY <1>1 DEF StartDraft, StartConfirm, Begins
  <2>2. Grows
    BY <2>1, OnlyGrows
  <2>3. /\ "find" \in Steps /\ "found" \in Steps /\ Rest \in Request
        /\ Fits("find", Rest)' /\ Fits("found", Rest)'
    BY DEF Steps, Rest, Request, Fits
  <2>4. RequestsOK'
    BY <1>0, <2>1, <2>2, <2>3, MoveType
  <2> QED BY <2>1, <2>4, OnlyInv
<1>2. CASE \E e \in Events : StartEvent(r, e)
  <2>1. PICK e \in Events : StartEvent(r, e)
    BY <1>2
  <2> DEFINE w == [Rest EXCEPT !.event = e]
  <2>2. Only(r) /\ Moves(r, "apply", w) /\ e \in emitted
    BY <2>1 DEF StartEvent, Begins
  <2>3. Grows
    BY <2>2, OnlyGrows
  <2>4. "apply" \in Steps /\ w \in Request /\ w.event = e
    BY DEF Steps, Rest, Request
  <2> HIDE DEF w
  <2>5. Fits("apply", w)'
    BY <2>2, <2>3, <2>4 DEF Fits, Grows
  <2>6. RequestsOK'
    BY <1>0, <2>2, <2>3, <2>4, <2>5, MoveType
  <2> QED BY <2>2, <2>6, OnlyInv
<1> QED BY <1>1, <1>2

(* The reads of createDraft: the artwork that goes on is an approved one.    *)
LEMMA ReadDraftInv ==
  ASSUME IInv, NEW r \in Requests, FindJob(r) \/ LoadInput(r)
  PROVE  IInv'
<1>0. RequestsOK /\ RowsOK /\ ApprovedInv /\ req[r] \in Request
  BY Carried DEF IInv, TypeInv, StateInv
<1>1. Only(r)
  BY DEF FindJob, LoadInput
<1>2. Grows
  BY <1>1, OnlyGrows
<1>3. CASE FindJob(r)
  <2>1. PICK w : w = [Rest EXCEPT !.fresh = job.state = "NONE"]
    OBVIOUS
  <2>2. Moves(r, "load", w) \/ Ends(r)
    BY <1>3, <2>1 DEF FindJob
  <2>3. "load" \in Steps /\ w \in Request /\ Fits("load", w)'
    BY <2>1 DEF Steps, Rest, Request, Fits
  <2>4. RequestsOK'
    BY <1>0, <1>2, <2>1, <2>2, <2>3, MoveType, EndType
  <2> QED BY <1>1, <2>4, OnlyInv
<1>4. CASE LoadInput(r)
  <2>1. PICK w, s : /\ w = [req[r] EXCEPT !.artwork = design.artwork]
                    /\ s = IF req[r].fresh THEN "reserve" ELSE "lookup"
    OBVIOUS
  <2>2. (EligibleForDraft /\ Moves(r, s, w)) \/ Ends(r)
    BY <1>4, <2>1 DEF LoadInput
  <2>3. s \in {"reserve", "lookup"} /\ s \in Steps
    BY <2>1 DEF Steps
  <2>4. w \in Request /\ w.artwork = design.artwork
    BY <1>0, <2>1 DEF Request, RowsOK
  <2>5. ASSUME EligibleForDraft PROVE Fits(s, w)'
    <3>1. w.artwork \in approved'
      BY <1>0, <1>2, <2>4, <2>5 DEF EligibleForDraft, ApprovedInv, Grows
    <3> QED BY <2>3, <3>1 DEF Fits
  <2>6. RequestsOK'
    BY <1>0, <1>2, <2>2, <2>3, <2>4, <2>5, MoveType, EndType
  <2> QED BY <1>1, <2>6, OnlyInv
<1> QED BY <1>3, <1>4

(* The lookup at Printful, the reads of confirmDraft, and a failed call.     *)
LEMMA ReadOnInv ==
  ASSUME IInv, NEW r \in Requests,
         \/ Lookup(r) \/ FindDraft(r) \/ Check(r) \/ Ready(r) \/ GatewayFails(r)
  PROVE  IInv'
<1>0. RequestsOK /\ JobInv /\ req[r] \in Request /\ step[r] \in Steps /\ Fits(step[r], req[r])
  BY Carried DEF IInv, TypeInv, StateInv
<1>1. Only(r)
  BY DEF Lookup, FindDraft, Check, Ready, GatewayFails
<1>2. Grows
  BY <1>1, OnlyGrows
<1>3. \/ Ends(r)
      \/ \E s \in {"fail", "attach", "post", "check", "ready", "charge"} :
           Goto(r, s) /\ Fits(s, req[r])
  <2>1. CASE Lookup(r)
    BY <1>0, <2>1 DEF Lookup, Fits
  <2>2. CASE FindDraft(r)
    BY <1>0, <2>2 DEF FindDraft, Fits, JobInv, Started
  <2>3. CASE Check(r)
    BY <1>0, <2>3 DEF Check, EligibleForProduction, Fits, InDesign
  <2>4. CASE Ready(r)
    BY <1>0, <2>4 DEF Ready, Fits
  <2>5. CASE GatewayFails(r)
    BY <1>0, <2>5 DEF GatewayFails, Fits
  <2> QED BY <2>1, <2>2, <2>3, <2>4, <2>5
<1>4. CASE Ends(r)
  <2>1. RequestsOK'
    BY <1>0, <1>2, <1>4, EndType
  <2> QED BY <1>1, <2>1, OnlyInv
<1>5. CASE \E s \in {"fail", "attach", "post", "check", "ready", "charge"} :
             Goto(r, s) /\ Fits(s, req[r])
  <2>1. PICK s \in {"fail", "attach", "post", "check", "ready", "charge"} :
          Goto(r, s) /\ Fits(s, req[r])
    BY <1>5
  <2>2. s \in Steps
    BY DEF Steps
  <2>3. RequestsOK'
    BY <1>0, <1>2, <2>1, <2>2, GoesOnType
  <2> QED BY <1>1, <2>3, OnlyInv
<1> QED BY <1>3, <1>4, <1>5
-----------------------------------------------------------------------------
(* The designers' side, a refund and a quarantine.                           *)
LEMMA IssueInv ==
  ASSUME IInv, (\E a \in Artworks : Replace(a)) \/ Approve \/ Flag \/ Quarantine
  PROVE  IInv'
<1>0. RowsOK /\ EventsOK /\ DeathsOK /\ RequestsOK /\ StateInv
  BY DEF IInv, TypeInv
<1>1. /\ UNCHANGED <<job, order, eventVars, requestVars, deaths>>
      /\ approved \subseteq approved'
  BY DEF Replace, Approve, Flag, Quarantine, designVars
<1>2. /\ status' \in IssueStatuses
      /\ status \notin InDesign => status' \notin InDesign
      /\ status' \in Physical \cup {"DELIVERED", "CANCELED"} <=> status \in Physical \cup {"DELIVERED", "CANCELED"}
      /\ status' # status => status' \notin Physical \cup {"DELIVERED", "CANCELED"}
      /\ status' \in InDesign => status \in InDesign
  BY <1>0 DEF RowsOK, Replace, Approve, Flag, Quarantine, IssueStatuses, PreProduction, Physical, InDesign
<1>3. Grows
  BY <1>1, <1>2 DEF Grows, eventVars
<1>4. RequestsOK'
  BY <1>0, <1>1, <1>3, StillType
<1>5. RowsOK'
  <2>1. flagged' \in BOOLEAN
    BY <1>0 DEF RowsOK, Replace, Approve, Flag, Quarantine
  <2>2. approved' \subseteq Artworks
    BY <1>0 DEF RowsOK, Replace, Approve, Flag, Quarantine, designVars
  <2>3. design' \in [state : {"REVIEW", "APPROVED"}, artwork : Artworks]
    <3>1. CASE \E a \in Artworks : Replace(a)
      BY <3>1 DEF Replace
    <3>2. CASE Approve
      BY <1>0, <3>2 DEF RowsOK, Approve
    <3>3. CASE Flag \/ Quarantine
      BY <1>0, <3>3 DEF RowsOK, Flag, Quarantine, designVars
    <3> QED BY <3>1, <3>2, <3>3
  <2> QED BY <1>0, <1>1, <1>2, <2>1, <2>2, <2>3 DEF RowsOK
<1>6. EventsOK' /\ DeathsOK'
  BY <1>0, <1>1 DEF EventsOK, DeathsOK, eventVars
<1>7. ApprovedInv'
  BY <1>0, <1>1 DEF StateInv, ApprovedInv, RowsOK, Replace, Approve, Flag, Quarantine, designVars
<1>8. ChargeInv' /\ JobInv'
  BY <1>0, <1>1, <1>2 DEF StateInv, ChargeInv, JobInv, eventVars
<1>9. FollowsFactoryTruth' /\ AttachedDraftSurvives' /\ AnsweredShipmentIsFinal'
  BY <1>0, <1>1, <1>2 DEF StateInv, FollowsFactoryTruth, AttachedDraftSurvives, AnsweredShipmentIsFinal,
     eventVars, Physical
<1> QED BY <1>4, <1>5, <1>6, <1>7, <1>8, <1>9 DEF IInv, TypeInv, StateInv

(* Printful: an order moves, and its event is signed.                        *)
LEMMA EmitInv ==
  ASSUME IInv, NEW e \in Events, NEW s \in OrderStates \ {"none"}, Emits(e, s),
         order.state # "none", order.charged => s # "draft",
         e \in Shipments => order.charged,
         s \in {"pending", "shipped", "delivered"} => order.charged
  PROVE  IInv'
<1>0. RowsOK /\ EventsOK /\ DeathsOK /\ RequestsOK /\ StateInv
  BY DEF IInv, TypeInv
<1>1. /\ UNCHANGED <<issueVars, designVars, job, recorded, effects, requestVars, deaths>>
      /\ emitted' = emitted \cup {e} /\ unanswered' = unanswered \cup {e} /\ e \notin emitted
      /\ order' = [order EXCEPT !.state = s]
  BY DEF Emits
<1>2. /\ order' \in [state : OrderStates, artwork : Artworks \cup {Absent}, charged : BOOLEAN]
      /\ order'.state = s /\ order'.artwork = order.artwork /\ order'.charged = order.charged
  BY <1>0, <1>1 DEF RowsOK
<1>3. Grows
  BY <1>1, <1>2 DEF Grows, issueVars, designVars
<1>4. RequestsOK'
  BY <1>0, <1>1, <1>3, StillType
<1>5. RowsOK' /\ EventsOK' /\ DeathsOK'
  BY <1>0, <1>1, <1>2 DEF RowsOK, EventsOK, DeathsOK, issueVars, designVars
<1>6. ApprovedInv' /\ ChargeInv' /\ JobInv'
  BY <1>0, <1>1, <1>2 DEF StateInv, ApprovedInv, ChargeInv, JobInv, issueVars, designVars, OrderStates
<1>7. FollowsFactoryTruth' /\ AttachedDraftSurvives'
  BY <1>0, <1>1, <1>2 DEF StateInv, FollowsFactoryTruth, AttachedDraftSurvives, issueVars
<1>8. AnsweredShipmentIsFinal'
  BY <1>0, <1>1 DEF StateInv, AnsweredShipmentIsFinal
<1> QED BY <1>4, <1>5, <1>6, <1>7, <1>8 DEF IInv, TypeInv, StateInv

(* What Printful does, with the events it signs for it.                      *)
LEMMA FactoryInv ==
  ASSUME IInv, Ship \/ Deliver \/ Trouble \/ CancelOrder \/ UpdateOrder
  PROVE  IInv'
<1>0. RowsOK /\ ChargeInv
  BY DEF IInv, TypeInv, StateInv
<1>1. CASE Ship
  BY <1>0, <1>1, EmitInv DEF Ship, ChargeInv, Events, OrderStates
<1>2. CASE Deliver
  BY <1>0, <1>2, EmitInv DEF Deliver, ChargeInv, Events, OrderStates
<1>3. CASE Trouble
  <2>1. Emits("FAILED", "failed") /\ order.state # "none"
    BY <1>3 DEF Trouble
  <2> QED BY <2>1, EmitInv DEF Events, Shipments, OrderStates
<1>4. CASE CancelOrder
  <2>1. Emits("CANCELED", "canceled") /\ order.state # "none"
    BY <1>4 DEF CancelOrder
  <2> QED BY <2>1, EmitInv DEF Events, Shipments, OrderStates
<1>5. CASE UpdateOrder
  <2>1. PICK s : s = order.state
    OBVIOUS
  <2>2. Emits("UPDATED", s) /\ s \in OrderStates \ {"none"}
    BY <1>0, <1>5, <2>1 DEF UpdateOrder, RowsOK
  <2> QED BY <1>0, <2>1, <2>2, EmitInv DEF ChargeInv, Events, Shipments
<1> QED BY <1>1, <1>2, <1>3, <1>4, <1>5
-----------------------------------------------------------------------------
(* The writes of createDraft to its row, of which the last frees the slot.   *)
LEMMA ReserveInv ==
  ASSUME IInv, NEW r \in Requests, Reserve(r)
  PROVE  IInv'
<1>0. /\ RowsOK /\ EventsOK /\ DeathsOK /\ RequestsOK /\ StateInv
      /\ step[r] = "reserve" /\ Fits("reserve", req[r]) /\ req[r].artwork \in approved
  BY Carried DEF IInv, TypeInv, Reserve, Fits
<1>1. /\ UNCHANGED <<issueVars, designVars, order, eventVars, deaths>>
      /\ Goto(r, "lookup") \/ Ends(r)
  BY DEF Reserve
<1>2. /\ job' \in [state : JobStates, ordered : BOOLEAN] /\ job'.ordered = job.ordered
      /\ job'.state # job.state => job.state = "NONE" /\ job'.state = "RESERVED"
  BY <1>0 DEF Reserve, CanReserve, RowsOK, JobStates
<1>3. Grows
  BY <1>1, <1>2 DEF Grows, issueVars, designVars, eventVars
<1>4. RequestsOK'
  BY <1>0, <1>1, <1>3, GoesOnType, EndType DEF Fits, Steps
<1>5. RowsOK' /\ EventsOK' /\ DeathsOK'
  BY <1>0, <1>1, <1>2 DEF RowsOK, EventsOK, DeathsOK, issueVars, designVars, eventVars
<1>6. ApprovedInv' /\ ChargeInv' /\ JobInv'
  BY <1>0, <1>1, <1>2 DEF StateInv, ApprovedInv, ChargeInv, JobInv, Started, issueVars, designVars, eventVars
<1>7. FollowsFactoryTruth' /\ AttachedDraftSurvives' /\ AnsweredShipmentIsFinal'
  BY <1>0, <1>1, <1>2 DEF StateInv, FollowsFactoryTruth, AttachedDraftSurvives, AnsweredShipmentIsFinal,
     Produced, issueVars, eventVars
<1> QED BY <1>4, <1>5, <1>6, <1>7 DEF IInv, TypeInv, StateInv

LEMMA MarkFailedInv ==
  ASSUME IInv, NEW r \in Requests, MarkFailed(r)
  PROVE  IInv'
<1>0. RowsOK /\ EventsOK /\ DeathsOK /\ RequestsOK /\ StateInv
  BY DEF IInv, TypeInv
<1>1. UNCHANGED <<issueVars, designVars, order, eventVars, deaths>> /\ Ends(r)
  BY DEF MarkFailed
<1>2. /\ job' \in [state : JobStates, ordered : BOOLEAN] /\ job'.ordered = job.ordered
      /\ job'.state # job.state => job.state \in {"RESERVED", "FAILED"} /\ job'.state = "FAILED"
  BY <1>0 DEF MarkFailed, Attachable, RowsOK, JobStates
<1>3. Grows
  BY <1>1, <1>2 DEF Grows, issueVars, designVars, eventVars
<1>4. RequestsOK'
  BY <1>0, <1>1, <1>3, EndType
<1>5. RowsOK' /\ EventsOK' /\ DeathsOK'
  BY <1>0, <1>1, <1>2 DEF RowsOK, EventsOK, DeathsOK, issueVars, designVars, eventVars
<1>6. ApprovedInv' /\ ChargeInv' /\ JobInv'
  BY <1>0, <1>1, <1>2 DEF StateInv, ApprovedInv, ChargeInv, JobInv, Started, issueVars, designVars, eventVars
<1>7. FollowsFactoryTruth' /\ AttachedDraftSurvives' /\ AnsweredShipmentIsFinal'
  BY <1>0, <1>1, <1>2 DEF StateInv, FollowsFactoryTruth, AttachedDraftSurvives, AnsweredShipmentIsFinal,
     Produced, issueVars, eventVars
<1> QED BY <1>4, <1>5, <1>6, <1>7 DEF IInv, TypeInv, StateInv

LEMMA AttachInv ==
  ASSUME IInv, NEW r \in Requests, AttachDraft(r)
  PROVE  IInv'
<1>0. /\ RowsOK /\ EventsOK /\ DeathsOK /\ RequestsOK /\ StateInv
      /\ step[r] = "attach" /\ Fits("attach", req[r]) /\ req[r].artwork \in approved
  BY Carried DEF IInv, TypeInv, AttachDraft, Fits
<1>1. /\ UNCHANGED <<flagged, designVars, order, eventVars, deaths>>
      /\ Goto(r, "fail") \/ Ends(r)
  BY DEF AttachDraft
<1>2. /\ job' \in [state : JobStates, ordered : BOOLEAN]
      /\ job.ordered => job'.ordered
      /\ \/ job' = job /\ status' = status
         \/ /\ job.state \in {"RESERVED", "FAILED"} /\ job'.state = "DRAFT" /\ job'.ordered
            /\ \/ status' = status
               \/ status = "DESIGN_APPROVED" /\ status' = "MANUFACTURING_DRAFT"
  <2>1. CASE Attachable
    <3>1. /\ job' = [state |-> "DRAFT", ordered |-> TRUE]
          /\ \/ status' = status
             \/ status = "DESIGN_APPROVED" /\ status' = "MANUFACTURING_DRAFT"
      BY <2>1 DEF AttachDraft
    <3>2. "DRAFT" \in JobStates
      BY DEF JobStates, Started
    <3> QED BY <2>1, <3>1, <3>2 DEF Attachable
  <2>2. CASE ~Attachable
    BY <1>0, <2>2 DEF AttachDraft, RowsOK
  <2> QED BY <2>1, <2>2
<1>3. Grows
  BY <1>1, <1>2 DEF Grows, designVars, eventVars, InDesign
<1>4. RequestsOK'
  BY <1>0, <1>1, <1>3, GoesOnType, EndType DEF Fits, Steps
<1>5. RowsOK' /\ EventsOK' /\ DeathsOK'
  <2>1. status' \in IssueStatuses
    BY <1>0, <1>2 DEF RowsOK, IssueStatuses, PreProduction
  <2>2. RowsOK'
    BY <1>0, <1>1, <1>2, <2>1 DEF RowsOK, designVars
  <2> QED BY <1>0, <1>1, <2>2 DEF EventsOK, DeathsOK, eventVars
<1>6. ApprovedInv' /\ ChargeInv' /\ JobInv'
  BY <1>0, <1>1, <1>2 DEF StateInv, ApprovedInv, ChargeInv, JobInv, Started, InDesign, designVars, eventVars
<1>7. FollowsFactoryTruth'
  BY <1>0, <1>1, <1>2 DEF StateInv, FollowsFactoryTruth, Produced, Physical, eventVars
<1>8. AttachedDraftSurvives' /\ AnsweredShipmentIsFinal'
  BY <1>0, <1>1, <1>2 DEF StateInv, AttachedDraftSurvives, AnsweredShipmentIsFinal, eventVars
<1> QED BY <1>4, <1>5, <1>6, <1>7, <1>8 DEF IInv, TypeInv, StateInv

(* The order made or changed at Printful carries an approved artwork.        *)
LEMMA PostInv ==
  ASSUME IInv, NEW r \in Requests, Post(r)
  PROVE  IInv'
<1>0. /\ RowsOK /\ EventsOK /\ DeathsOK /\ RequestsOK /\ StateInv
      /\ step[r] = "post" /\ Fits("post", req[r]) /\ req[r].artwork \in approved
  BY Carried DEF IInv, TypeInv, Post, Fits
<1>1. /\ UNCHANGED <<issueVars, designVars, job, eventVars, deaths>>
      /\ Goto(r, "attach") \/ Goto(r, "fail")
  BY DEF Post
<1>2. /\ order' \in [state : OrderStates, artwork : Artworks \cup {Absent}, charged : BOOLEAN]
      /\ order'.charged = order.charged
      /\ \/ order' = order
         \/ /\ order.state \in {"none", "draft"} /\ order'.state = "draft"
            /\ order'.artwork = req[r].artwork
  <2>1. CASE order' = order
    BY <1>0, <2>1 DEF RowsOK
  <2>2. CASE order' # order
    <3>1. PICK a \in approved : a = req[r].artwork
      BY <1>0
    <3>2. /\ order.state \in {"none", "draft"}
          /\ order' = [order EXCEPT !.state = "draft", !.artwork = a]
      BY <2>2, <3>1 DEF Post
    <3> QED BY <1>0, <3>1, <3>2 DEF RowsOK, OrderStates
  <2> QED BY <2>1, <2>2
<1>3. Grows
  BY <1>1, <1>2 DEF Grows, issueVars, designVars, eventVars
<1>4. RequestsOK'
  BY <1>0, <1>1, <1>3, GoesOnType DEF Fits, Steps
<1>5. RowsOK' /\ EventsOK' /\ DeathsOK'
  BY <1>0, <1>1, <1>2 DEF RowsOK, EventsOK, DeathsOK, issueVars, designVars, eventVars
<1>6. ApprovedInv' /\ ChargeInv' /\ JobInv'
  BY <1>0, <1>1, <1>2 DEF StateInv, ApprovedInv, ChargeInv, JobInv, issueVars, designVars, eventVars
<1>7. FollowsFactoryTruth' /\ AttachedDraftSurvives' /\ AnsweredShipmentIsFinal'
  BY <1>0, <1>1, <1>2 DEF StateInv, FollowsFactoryTruth, AttachedDraftSurvives, AnsweredShipmentIsFinal,
     issueVars, eventVars
<1> QED BY <1>4, <1>5, <1>6, <1>7 DEF IInv, TypeInv, StateInv
-----------------------------------------------------------------------------
(* The charge: the job knows the order, and the Issue is out of its design.  *)
LEMMA ChargedInv ==
  ASSUME IInv, NEW r \in Requests, Charge(r)
  PROVE  IInv'
<1>0. /\ RowsOK /\ EventsOK /\ DeathsOK /\ RequestsOK /\ StateInv
      /\ step[r] = "charge" /\ Fits("charge", req[r])
      /\ job.ordered /\ status \notin InDesign
  BY Carried DEF IInv, TypeInv, Charge, Fits
<1>1. /\ UNCHANGED <<issueVars, designVars, job, eventVars, deaths>>
      /\ Ends(r) \/ (Goto(r, "confirm") /\ order.state = "draft")
  BY DEF Charge
<1>2. /\ order' \in [state : OrderStates, artwork : Artworks \cup {Absent}, charged : BOOLEAN]
      /\ order'.artwork = order.artwork
      /\ \/ order' = order /\ order.state # "draft"
         \/ order.state = "draft" /\ order'.state = "pending" /\ order'.charged = TRUE
  BY <1>0 DEF Charge, RowsOK, OrderStates
<1>3. Grows
  BY <1>1, <1>2 DEF Grows, issueVars, designVars, eventVars
<1>4. RequestsOK'
  <2>1. PICK w : w = req[r]
    OBVIOUS
  <2>2. ASSUME Goto(r, "confirm") PROVE Fits("confirm", w)'
    <3>1. CASE Ends(r)
      BY <1>0, <2>2, <3>1 DEF Ends, Goto, Moves, RequestsOK
    <3>2. CASE order.state = "draft"
      <4>1. order'.charged
        BY <1>2, <3>2
      <4>2. job'.ordered /\ status' \notin InDesign
        BY <1>0, <1>3 DEF Grows
      <4> QED BY <4>1, <4>2 DEF Fits
    <3> QED BY <1>1, <3>1, <3>2
  <2> QED BY <1>0, <1>1, <1>3, <2>1, <2>2, GotoType, EndType DEF Steps
<1>5. RowsOK' /\ EventsOK' /\ DeathsOK'
  BY <1>0, <1>1, <1>2 DEF RowsOK, EventsOK, DeathsOK, issueVars, designVars, eventVars
<1>6. ApprovedInv' /\ ChargeInv' /\ JobInv'
  BY <1>0, <1>1, <1>2 DEF StateInv, ApprovedInv, ChargeInv, JobInv, issueVars, designVars, eventVars
<1>7. FollowsFactoryTruth' /\ AttachedDraftSurvives' /\ AnsweredShipmentIsFinal'
  BY <1>0, <1>1, <1>2 DEF StateInv, FollowsFactoryTruth, AttachedDraftSurvives, AnsweredShipmentIsFinal,
     issueVars, eventVars
<1> QED BY <1>4, <1>5, <1>6, <1>7 DEF IInv, TypeInv, StateInv

LEMMA ConfirmedInv ==
  ASSUME IInv, NEW r \in Requests, MarkConfirmed(r)
  PROVE  IInv'
<1>0. /\ RowsOK /\ EventsOK /\ DeathsOK /\ RequestsOK /\ StateInv
      /\ Fits("confirm", req[r]) /\ order.charged
  BY Carried DEF IInv, TypeInv, MarkConfirmed, Fits
<1>1. UNCHANGED <<flagged, designVars, order, eventVars, deaths>> /\ Ends(r)
  BY DEF MarkConfirmed
<1>2. /\ job' \in [state : JobStates, ordered : BOOLEAN] /\ job'.ordered = job.ordered
      /\ \/ job' = job /\ status' = status
         \/ /\ job.state = "DRAFT" /\ job'.state = "IN_PRODUCTION"
            /\ \/ status' = status
               \/ status = "MANUFACTURING_DRAFT" /\ status' = "IN_PRODUCTION"
  BY <1>0 DEF MarkConfirmed, RowsOK, JobStates, Started
<1>3. Grows
  BY <1>1, <1>2 DEF Grows, designVars, eventVars, InDesign
<1>4. RequestsOK'
  BY <1>0, <1>1, <1>3, EndType
<1>5. RowsOK' /\ EventsOK' /\ DeathsOK'
  BY <1>0, <1>1, <1>2 DEF RowsOK, EventsOK, DeathsOK, designVars, eventVars, IssueStatuses, Physical
<1>6. ApprovedInv' /\ ChargeInv' /\ JobInv'
  BY <1>0, <1>1, <1>2 DEF StateInv, ApprovedInv, ChargeInv, JobInv, Started, InDesign, designVars, eventVars
<1>7. FollowsFactoryTruth'
  BY <1>0, <1>1, <1>2 DEF StateInv, FollowsFactoryTruth, Produced, Physical, eventVars
<1>8. AttachedDraftSurvives' /\ AnsweredShipmentIsFinal'
  BY <1>0, <1>1, <1>2 DEF StateInv, AttachedDraftSurvives, AnsweredShipmentIsFinal, eventVars
<1> QED BY <1>4, <1>5, <1>6, <1>7, <1>8 DEF IInv, TypeInv, StateInv
-----------------------------------------------------------------------------
(* What an event that the Issue trigger lets through makes of the Issue: the *)
(* states of a shipment come in order, and a final Issue stays as it is.     *)
LEMMA Target ==
  ASSUME RowsOK, NEW e \in Events, ~Aborts(e)
  PROVE  LET to == After(status, IssueTarget(e), flagged) IN
         /\ to \in IssueStatuses
         /\ status \notin InDesign => to \notin InDesign
         /\ to \in InDesign => status = to
         /\ e = "UPDATED" => to = status
         /\ e = "SENT" => to = "IN_TRANSIT"
         /\ e = "DELIVERED" => to = "DELIVERED" /\ status \in {"IN_TRANSIT", "DELIVERED"}
         /\ e = "CANCELED" => to = "CANCELED"
         /\ e = "FAILED" => to \in Physical \cup {"EXCEPTION"}
         /\ to \in Physical => to = "IN_TRANSIT" \/ to = status
         /\ to = "IN_TRANSIT" => e = "SENT" \/ to = status
         /\ status = "DELIVERED" => to = "DELIVERED" /\ e \in {"DELIVERED", "UPDATED"}
         /\ status = "CANCELED" => to = "CANCELED" /\ e \in {"CANCELED", "UPDATED"}
<1> DEFINE to == After(status, IssueTarget(e), flagged)
<1>1. CASE e = "UPDATED"
  BY <1>1 DEF RowsOK, IssueTarget, After, KeptAsOverlay
<1>2. CASE e = "SENT"
  BY <1>2 DEF RowsOK, Aborts, Raises, Legal, NextStage, Leaves, Reworks, IssueTarget, After, KeptAsOverlay,
     IssueStatuses, PreProduction, Physical, InDesign
<1>3. CASE e = "DELIVERED"
  BY <1>3 DEF RowsOK, Aborts, Raises, Legal, NextStage, Leaves, Reworks, IssueTarget, After, KeptAsOverlay,
     IssueStatuses, PreProduction, Physical, InDesign
<1>4. CASE e = "CANCELED"
  BY <1>4 DEF RowsOK, Aborts, Raises, Legal, NextStage, Leaves, Reworks, IssueTarget, After, KeptAsOverlay,
     IssueStatuses, PreProduction, Physical, InDesign
<1>5. CASE e = "FAILED"
  BY <1>5 DEF RowsOK, Aborts, Raises, Legal, NextStage, Leaves, Reworks, IssueTarget, After, KeptAsOverlay,
     IssueStatuses, PreProduction, Physical, InDesign
<1> QED BY <1>1, <1>2, <1>3, <1>4, <1>5 DEF Events

(* An event is applied: job and Issue move together or not at all.           *)
LEMMA AppliedInv ==
  ASSUME IInv, NEW r \in Requests, NEW e \in Events, e = req[r].event, e \in emitted,
         job.ordered, e \notin recorded, ~Aborts(e),
         recorded' = recorded \cup {e}, job' = [job EXCEPT !.state = JobTarget(e)],
         status' = After(status, IssueTarget(e), flagged), Goto(r, "reward"),
         UNCHANGED <<flagged, designVars, order, emitted, unanswered, effects, deaths>>
  PROVE  IInv'
<1>0. RowsOK /\ EventsOK /\ DeathsOK /\ RequestsOK /\ StateInv
  BY DEF IInv, TypeInv
<1>1. UNCHANGED <<flagged, design, approved, order, emitted, unanswered, effects, deaths>>
  BY DEF designVars
<1>2. /\ status' \in IssueStatuses
      /\ status \notin InDesign => status' \notin InDesign
      /\ status' \in InDesign => status = status'
      /\ e = "UPDATED" => status' = status
      /\ e = "SENT" => status' = "IN_TRANSIT"
      /\ e = "DELIVERED" => status' = "DELIVERED" /\ status \in {"IN_TRANSIT", "DELIVERED"}
      /\ e = "CANCELED" => status' = "CANCELED"
      /\ e = "FAILED" => status' \in Physical \cup {"EXCEPTION"}
      /\ status' \in Physical => status' = "IN_TRANSIT" \/ status' = status
      /\ status' = "IN_TRANSIT" => e = "SENT" \/ status' = status
      /\ status = "DELIVERED" => status' = "DELIVERED" /\ e \in {"DELIVERED", "UPDATED"}
      /\ status = "CANCELED" => status' = "CANCELED" /\ e \in {"CANCELED", "UPDATED"}
  BY <1>0, Target
<1>3. /\ job' \in [state : JobStates, ordered : BOOLEAN] /\ job'.ordered
      /\ job'.state = JobTarget(e)
  BY <1>0 DEF RowsOK, JobTarget, JobStates, Started, Events
<1>4. /\ e = "UPDATED" => job'.state = job.state
      /\ e = "SENT" => job'.state = "SHIPPED"
      /\ e \notin {"SENT", "UPDATED"} => job'.state = e
  BY <1>3 DEF JobTarget
<1>5. Grows
  BY <1>1, <1>2, <1>3 DEF Grows
<1>6. RequestsOK'
  <2>1. PICK w : w = req[r]
    OBVIOUS
  <2>2. w.event \in recorded'
    BY <2>1
  <2>3. Fits("reward", w)'
    BY <1>1, <2>1, <2>2 DEF Fits
  <2> QED BY <1>0, <1>5, <2>1, <2>3, GotoType DEF Steps
<1>7. RowsOK' /\ EventsOK' /\ DeathsOK'
  BY <1>0, <1>1, <1>2, <1>3 DEF RowsOK, EventsOK, DeathsOK
<1>8. ApprovedInv'
  BY <1>0, <1>1 DEF StateInv, ApprovedInv
<1>9. ChargeInv'
  BY <1>0, <1>1, <1>2, <1>3 DEF StateInv, ChargeInv
<1>10. JobInv'
  BY <1>0, <1>2, <1>3, <1>4 DEF StateInv, JobInv, Physical, Events
<1>11. FollowsFactoryTruth'
  <2>1. e \in Shipments => order.charged
    BY <1>0 DEF StateInv, ChargeInv
  <2>2. job'.state \in Produced \/ status' \in Physical \cup {"DELIVERED"} => order'.charged
    BY <1>0, <1>1, <1>2, <1>4, <2>1 DEF StateInv, FollowsFactoryTruth, Physical, Produced, Events, Shipments
  <2>3. status' \in {"IN_TRANSIT", "DELIVERED"} => "SENT" \in recorded'
    BY <1>0, <1>2 DEF StateInv, FollowsFactoryTruth, Physical, Events
  <2>4. status' = "DELIVERED" <=> job'.state = "DELIVERED"
    BY <1>0, <1>2, <1>4 DEF StateInv, FollowsFactoryTruth, Physical, Events
  <2>5. status' = "DELIVERED" => "DELIVERED" \in recorded'
    BY <1>0, <1>2 DEF StateInv, FollowsFactoryTruth, Physical, Events
  <2> QED BY <2>2, <2>3, <2>4, <2>5 DEF FollowsFactoryTruth
<1>12. AttachedDraftSurvives'
  BY <1>0, <1>4 DEF StateInv, AttachedDraftSurvives, Events
<1>13. AnsweredShipmentIsFinal'
  BY <1>0, <1>1 DEF StateInv, AnsweredShipmentIsFinal
<1> QED BY <1>6, <1>7, <1>8, <1>9, <1>10, <1>11, <1>12, <1>13 DEF IInv, TypeInv, StateInv

LEMMA ApplyInv ==
  ASSUME IInv, NEW r \in Requests, ApplyEvent(r)
  PROVE  IInv'
<1> DEFINE e == req[r].event
<1>0. /\ RowsOK /\ EventsOK /\ RequestsOK /\ StateInv
      /\ step[r] = "apply" /\ Fits("apply", req[r])
  BY Carried DEF IInv, TypeInv, ApplyEvent
<1>1. e \in emitted /\ e \in Events
  BY <1>0 DEF Fits, EventsOK
<1>2. CASE job.ordered /\ e \notin recorded /\ ~Aborts(e)
  BY <1>1, <1>2, AppliedInv DEF ApplyEvent
<1>3. CASE ~(job.ordered /\ e \notin recorded /\ ~Aborts(e))
  <2>1. Only(r) /\ UNCHANGED <<recorded, job, status>>
    BY <1>3 DEF ApplyEvent, Only, issueVars, eventVars
  <2>2. Grows
    BY <2>1, OnlyGrows
  <2>3. \/ Ends(r)
        \/ Goto(r, "reward") /\ e \in recorded
        \/ Goto(r, "answer") /\ ~job.ordered
    BY <1>3 DEF ApplyEvent
  <2>4. ~job.ordered => e \notin Shipments
    BY <1>0, <1>1 DEF StateInv, ChargeInv
  <2>5. e \in recorded => Fits("reward", req[r])
    BY <1>1 DEF Fits
  <2>6. e \notin Shipments => Fits("answer", req[r])
    BY <1>1 DEF Fits, Shipments
  <2>7. RequestsOK'
    BY <1>0, <2>2, <2>3, <2>4, <2>5, <2>6, GoesOnType, EndType DEF Steps
  <2> QED BY <2>1, <2>7, OnlyInv
<1> QED BY <1>2, <1>3

(* The effects of a recorded event.                                          *)
LEMMA EffectInv ==
  ASSUME IInv, NEW r \in Requests, MakeAvailable(r) \/ Notify(r)
  PROVE  IInv'
<1>0. /\ RowsOK /\ EventsOK /\ DeathsOK /\ RequestsOK /\ StateInv
      /\ req[r] \in Request /\ Fits(step[r], req[r])
  BY Carried DEF IInv, TypeInv
<1>1. /\ UNCHANGED <<issueVars, designVars, job, order, emitted, unanswered, recorded, deaths>>
      /\ effects \subseteq effects' /\ effects' \subseteq Shipments \cup {"REWARD"}
  BY <1>0 DEF MakeAvailable, Notify, Effect, EventsOK
<1>2. Grows
  BY <1>1 DEF Grows, issueVars, designVars
<1>3. PICK w : w = req[r]
  OBVIOUS
<1>4. RequestsOK'
  <2>1. CASE MakeAvailable(r)
    <3>1. /\ Goto(r, "notify") /\ w.event \in emitted' /\ w.event \in recorded'
          /\ w.event = "DELIVERED" => "REWARD" \in effects'
      BY <1>0, <1>3, <2>1 DEF MakeAvailable, Effect, Fits
    <3>2. Fits("notify", w)'
      BY <3>1 DEF Fits
    <3> QED BY <1>0, <1>2, <1>3, <3>1, <3>2, GotoType DEF Steps
  <2>2. CASE Notify(r)
    <3>1. /\ Goto(r, "answer") /\ w.event \in emitted' /\ w.event \in recorded'
          /\ w.event = "DELIVERED" => "REWARD" \in effects'
          /\ w.event \in Shipments => w.event \in effects'
      BY <1>0, <1>3, <2>2 DEF Notify, Effect, Fits
    <3>2. Fits("answer", w)'
      BY <3>1 DEF Fits
    <3> QED BY <1>0, <1>2, <1>3, <3>1, <3>2, GotoType DEF Steps
  <2> QED BY <2>1, <2>2
<1>5. RowsOK' /\ EventsOK' /\ DeathsOK'
  BY <1>0, <1>1 DEF RowsOK, EventsOK, DeathsOK, issueVars, designVars
<1>6. StateInv'
  BY <1>0, <1>1 DEF StateInv, ApprovedInv, ChargeInv, JobInv, FollowsFactoryTruth, AttachedDraftSurvives,
     AnsweredShipmentIsFinal, issueVars, designVars
<1> QED BY <1>4, <1>5, <1>6 DEF IInv, TypeInv

(* The answer, after which Printful will not repeat the event.               *)
LEMMA AnswerInv ==
  ASSUME IInv, NEW r \in Requests, Answer(r)
  PROVE  IInv'
<1>0. /\ RowsOK /\ EventsOK /\ DeathsOK /\ RequestsOK /\ StateInv
      /\ step[r] = "answer" /\ Fits("answer", req[r])
  BY Carried DEF IInv, TypeInv, Answer
<1>1. /\ UNCHANGED <<issueVars, designVars, job, order, emitted, recorded, effects, deaths>>
      /\ unanswered' = unanswered \ {req[r].event} /\ Ends(r)
  BY DEF Answer
<1>2. Grows
  BY <1>1 DEF Grows, issueVars, designVars
<1>3. RequestsOK'
  BY <1>0, <1>1, <1>2, EndType
<1>4. RowsOK' /\ EventsOK' /\ DeathsOK'
  BY <1>0, <1>1 DEF RowsOK, EventsOK, DeathsOK, issueVars, designVars
<1>5. /\ ApprovedInv' /\ ChargeInv' /\ JobInv' /\ FollowsFactoryTruth' /\ AttachedDraftSurvives'
  BY <1>0, <1>1 DEF StateInv, ApprovedInv, ChargeInv, JobInv, FollowsFactoryTruth, AttachedDraftSurvives,
     issueVars, designVars
<1>6. AnsweredShipmentIsFinal'
  BY <1>0, <1>1 DEF StateInv, AnsweredShipmentIsFinal, Fits
<1> QED BY <1>3, <1>4, <1>5, <1>6 DEF IInv, TypeInv, StateInv

(* A request that dies leaves everything as its last statement left it.      *)
LEMMA DieInv ==
  ASSUME FactoryAssumption, IInv, NEW r \in Requests, Die(r)
  PROVE  IInv'
<1>0. RowsOK /\ EventsOK /\ DeathsOK /\ RequestsOK /\ StateInv
  BY DEF IInv, TypeInv
<1>1. UNCHANGED <<issueVars, designVars, job, order, eventVars>> /\ Ends(r)
  BY DEF Die
<1>2. Grows
  BY <1>1 DEF Grows, issueVars, designVars, eventVars
<1>3. RequestsOK'
  BY <1>0, <1>1, <1>2, EndType
<1>4. DeathsOK'
  BY <1>0 DEF FactoryAssumption, DeathsOK, Die
<1>5. RowsOK' /\ EventsOK'
  BY <1>0, <1>1 DEF RowsOK, EventsOK, issueVars, designVars, eventVars
<1>6. StateInv'
  BY <1>0, <1>1 DEF StateInv, ApprovedInv, ChargeInv, JobInv, FollowsFactoryTruth, AttachedDraftSurvives,
     AnsweredShipmentIsFinal, issueVars, designVars, eventVars
<1> QED BY <1>3, <1>4, <1>5, <1>6 DEF IInv, TypeInv
-----------------------------------------------------------------------------
(* Every step keeps the invariant.                                           *)
LEMMA NextInv ==
  ASSUME FactoryAssumption, IInv, [Next]_vars
  PROVE  IInv'
<1>1. CASE Outside
  BY <1>1, IssueInv, FactoryInv DEF Outside
<1>2. ASSUME NEW r \in Requests,
             \/ StartDraft(r) \/ StartConfirm(r) \/ (\E e \in Events : StartEvent(r, e))
             \/ Work(r) \/ GatewayFails(r) \/ Die(r)
      PROVE  IInv'
  <2>1. CASE StartDraft(r) \/ StartConfirm(r) \/ \E e \in Events : StartEvent(r, e)
    BY <2>1, BeginInv
  <2>2. CASE FindJob(r) \/ LoadInput(r)
    BY <2>2, ReadDraftInv
  <2>3. CASE Lookup(r) \/ FindDraft(r) \/ Check(r) \/ Ready(r) \/ GatewayFails(r)
    BY <2>3, ReadOnInv
  <2>4. CASE Reserve(r)
    BY <2>4, ReserveInv
  <2>5. CASE Post(r)
    BY <2>5, PostInv
  <2>6. CASE AttachDraft(r)
    BY <2>6, AttachInv
  <2>7. CASE MarkFailed(r)
    BY <2>7, MarkFailedInv
  <2>8. CASE Charge(r)
    BY <2>8, ChargedInv
  <2>9. CASE MarkConfirmed(r)
    BY <2>9, ConfirmedInv
  <2>10. CASE ApplyEvent(r)
    BY <2>10, ApplyInv
  <2>11. CASE MakeAvailable(r) \/ Notify(r)
    BY <2>11, EffectInv
  <2>12. CASE Answer(r)
    BY <2>12, AnswerInv
  <2>13. CASE Die(r)
    BY <2>13, DieInv
  <2> QED BY <1>2, <2>1, <2>2, <2>3, <2>4, <2>5, <2>6, <2>7, <2>8, <2>9, <2>10, <2>11, <2>12, <2>13 DEF Work
<1>3. CASE UNCHANGED vars
  <2>1. /\ RowsOK' /\ EventsOK' /\ DeathsOK' /\ RequestsOK'
    BY <1>3 DEF IInv, TypeInv, RowsOK, EventsOK, DeathsOK, RequestsOK, Fits, vars, issueVars, designVars,
       eventVars, requestVars
  <2>2. StateInv'
    BY <1>3 DEF IInv, StateInv, ApprovedInv, ChargeInv, JobInv, FollowsFactoryTruth, AttachedDraftSurvives,
       AnsweredShipmentIsFinal, vars, issueVars, designVars, eventVars
  <2> QED BY <2>1, <2>2 DEF IInv, TypeInv
<1> QED BY <1>1, <1>2, <1>3 DEF Next

(* The inductive invariant holds in every reachable state: beside the        *)
(* properties below, a running request only relies on what no other step can *)
(* take back (createDraft, confirmDraft, the webhook route).                 *)
THEOREM Invariant ==
  ASSUME FactoryAssumption
  PROVE  Spec => []IInv
<1>1. Init => IInv
  BY InitInv
<1>2. IInv /\ [Next]_vars => IInv'
  BY NextInv
<1> QED BY <1>1, <1>2, PTL DEF Spec

(* Every variable keeps its type, whatever requests, events and deaths come  *)
(* (manufacturing_jobs, issues, design_jobs, the order and its events).      *)
THEOREM TypeCorrect ==
  ASSUME FactoryAssumption
  PROVE  Spec => []TypeOK
<1>1. IInv => TypeOK
  BY DEF IInv, TypeInv, RowsOK, EventsOK, DeathsOK, RequestsOK, TypeOK, Request
<1> QED BY <1>1, Invariant, PTL

(* The job and the Issue never claim more than the factory has done: nothing *)
(* is produced, shipped or delivered before its charge and the signed events *)
(* that lead there (markConfirmed, applyProviderEvent).                      *)
THEOREM FactoryTruth ==
  ASSUME FactoryAssumption
  PROVE  Spec => []FollowsFactoryTruth
<1>1. IInv => FollowsFactoryTruth
  BY DEF IInv, StateInv
<1> QED BY <1>1, Invariant, PTL

(* The factory is charged for approved artwork only, and never for an Issue  *)
(* that can go back to its design (createDraft, confirmDraft).               *)
THEOREM ChargedApproved ==
  ASSUME FactoryAssumption
  PROVE  Spec => []ChargedWasApproved
<1>1. IInv => ChargedWasApproved
  BY DEF IInv, StateInv, ApprovedInv, ChargeInv, ChargedWasApproved, InDesign
<1> QED BY <1>1, Invariant, PTL

(* No failing createDraft takes back a draft another one attached.           *)
THEOREM DraftSurvives ==
  ASSUME FactoryAssumption
  PROVE  Spec => []AttachedDraftSurvives
<1>1. IInv => AttachedDraftSurvives
  BY DEF IInv, StateInv
<1> QED BY <1>1, Invariant, PTL

(* What Printful will not repeat has been recorded, mailed and rewarded (the *)
(* webhook route).                                                           *)
THEOREM AnsweredFinal ==
  ASSUME FactoryAssumption
  PROVE  Spec => []AnsweredShipmentIsFinal
<1>1. IInv => AnsweredShipmentIsFinal
  BY DEF IInv, StateInv
<1> QED BY <1>1, Invariant, PTL

(* Late, stale and repeated events and slow requests leave a delivered or    *)
(* canceled Issue and its job as they are (applyProviderEvent, its trigger). *)
THEOREM FinalStays ==
  ASSUME FactoryAssumption
  PROVE  Spec => FinalIsFinal
<1>1. ASSUME IInv, [Next]_vars, status \in {"DELIVERED", "CANCELED"}
      PROVE  UNCHANGED <<status, job>>
  <2>0. /\ RowsOK /\ EventsOK /\ RequestsOK /\ FollowsFactoryTruth /\ JobInv
        /\ job.state = status
    BY <1>1 DEF IInv, TypeInv, StateInv, FollowsFactoryTruth, JobInv
  <2>1. CASE Outside
    BY <1>1, <2>0, <2>1 DEF Outside, Replace, Approve, Flag, Quarantine, Ship, Deliver, Trouble, CancelOrder,
       UpdateOrder, Emits, issueVars, PreProduction
  <2>2. ASSUME NEW r \in Requests,
               \/ StartDraft(r) \/ StartConfirm(r) \/ (\E e \in Events : StartEvent(r, e))
               \/ Work(r) \/ GatewayFails(r) \/ Die(r)
        PROVE  UNCHANGED <<status, job>>
    <3>1. CASE ApplyEvent(r)
      <4>1. PICK e : e = req[r].event
        OBVIOUS
      <4>2. e \in Events
        BY <2>0, <3>1, <4>1, Carried DEF ApplyEvent, Fits, EventsOK
      <4>3. CASE job.ordered /\ e \notin recorded /\ ~Aborts(e)
        <5>1. /\ job' = [job EXCEPT !.state = JobTarget(e)]
              /\ status' = After(status, IssueTarget(e), flagged)
          BY <3>1, <4>1, <4>3 DEF ApplyEvent
        <5>2. status' = status /\ JobTarget(e) = job.state
          BY <1>1, <2>0, <4>2, <4>3, <5>1, Target DEF JobTarget
        <5> QED BY <2>0, <5>1, <5>2 DEF RowsOK
      <4>4. CASE ~(job.ordered /\ e \notin recorded /\ ~Aborts(e))
        BY <3>1, <4>1, <4>4 DEF ApplyEvent
      <4> QED BY <4>3, <4>4
    <3>2. CASE Reserve(r) \/ AttachDraft(r) \/ MarkFailed(r) \/ MarkConfirmed(r)
      BY <1>1, <2>0, <3>2 DEF Reserve, CanReserve, AttachDraft, MarkFailed, MarkConfirmed,
         Attachable, issueVars
    <3>3. CASE StartDraft(r) \/ StartConfirm(r) \/ (\E e \in Events : StartEvent(r, e)) \/ FindJob(r)
               \/ LoadInput(r) \/ Lookup(r) \/ FindDraft(r) \/ Check(r) \/ Ready(r) \/ GatewayFails(r)
      BY <3>3 DEF StartDraft, StartConfirm, StartEvent, FindJob, LoadInput, Lookup, FindDraft, Check, Ready,
         GatewayFails, Only, issueVars
    <3>4. CASE Post(r) \/ Charge(r) \/ MakeAvailable(r) \/ Notify(r) \/ Answer(r) \/ Die(r)
      BY <3>4 DEF Post, Charge, MakeAvailable, Notify, Effect, Answer, Die, issueVars
    <3> QED BY <2>2, <3>1, <3>2, <3>3, <3>4 DEF Work
  <2>3. CASE UNCHANGED vars
    BY <2>3 DEF vars, issueVars
  <2> QED BY <1>1, <2>1, <2>2, <2>3 DEF Next
<1>2. IInv /\ [Next]_vars => [(status \in {"DELIVERED", "CANCELED"}) => UNCHANGED <<status, job>>]_vars
  BY <1>1
<1> QED BY <1>2, Invariant, PTL DEF Spec, FinalIsFinal
=============================================================================
