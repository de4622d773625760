------------------------------ MODULE PaidOrders ------------------------------
(***************************************************************************)
(* The storefront checkout at Fourthwall and its webhook: a private        *)
(* session opens a cart for a price quote, the customer pays it at the     *)
(* provider, and the provider delivers an event for the order, again and   *)
(* again until it is answered with 200.  Deliveries of one event, of two   *)
(* events of one order and of two orders of one quote may run at once; the *)
(* inbox row of the event and the unique keys of the Issues are all that   *)
(* keeps them apart.                                                       *)
(*                                                                         *)
(* A statement reads what was committed when it began and writes over what *)
(* is there when it ends, so a reservation is two steps.                   *)
(***************************************************************************)
EXTENDS NoValue, Integers, FiniteSets

CONSTANTS
  Sessions, Quotes,
  SessionOf(_),   \* the private session a quote was made for
  CartTabs,       \* checkout requests that may run at once
  Orders, Events,
  Deliveries,     \* webhook requests that may run at once
  IssueCodes,     \* Issue codes the generator may draw
  TakenCodes,     \* those that Issues of other payments already have
  CodeAttempts,   \* ISSUE_CODE_ATTEMPTS
  MaxOrderFaults  \* bound on statements, calls and answers that fail

VARIABLES
  stage,      \* COMMITMENT_READY ("ready") or CHECKOUT_STARTED ("started")
  cart,       \* each checkout request: its quote and its next step
  cartLinks,  \* quotes whose checkout URL a customer was given
  orders,     \* the provider's orders: the quote id a placed one carries
  event,      \* the provider's events
  accepted,   \* the answers with 200 each event got
  inbox,      \* webhook_events.processing_status
  issues,     \* the Issues reserved for Fourthwall orders
  delivery,   \* each delivery: what it read and its next step
  orderFaults

sale_vars == <<stage, cart, cartLinks>>
provider_vars == <<orders, event>>
orderVars == <<sale_vars, provider_vars, accepted, inbox, issues, delivery, orderFaults>>

Unknown == "unknown"   \* a quote id the registry has no row for
Sample == "sample"     \* the order of a test notification

(* What the values of the constants must satisfy. *)
OrdersAssumption ==
  /\ \A q \in Quotes : SessionOf(q) \in Sessions
  /\ {None, Unknown, "none"} \cap Quotes = {}
  /\ CodeAttempts \in Int

NoCart == [quote |-> None, step |-> "idle"]
NoEvent == [order |-> None, quote |-> None, test |-> FALSE]
NoDelivery ==
  [event |-> None, step |-> "idle", left |-> CodeAttempts, mark |-> "RECEIVED",
   claimable |-> FALSE, seen |-> {}]

OrdersInit ==
  /\ stage = [x \in Sessions |-> "ready"]
  /\ cart = [t \in CartTabs |-> NoCart]
  /\ cartLinks = {}
  /\ orders = [o \in Orders |-> "none"]
  /\ event = [e \in Events |-> NoEvent]
  /\ accepted = [e \in Events |-> {}]
  /\ inbox = [e \in Events |-> "none"]
  /\ issues = {}
  /\ delivery = [d \in Deliveries |-> NoDelivery]
  /\ orderFaults = 0

OrdersFail == orderFaults < MaxOrderFaults /\ orderFaults' = orderFaults + 1

-----------------------------------------------------------------------------
(* The checkout of a quote.                                                  *)

StartCheckout(t, q) ==
  /\ cart[t].step = "idle"
  /\ stage[SessionOf(q)] = "ready"
  /\ cart' = [cart EXCEPT ![t] = [quote |-> q, step |-> "variant"]]
  /\ UNCHANGED <<stage, cartLinks, provider_vars, accepted, inbox, issues, delivery, orderFaults>>

(* What the provider may say of the quoted variant.                          *)
Variants == {"as quoted", "changed", "unavailable"}

Lookup(t) ==
  /\ cart[t].step = "variant"
  /\ \E v \in Variants :
       \/ v = "as quoted" /\ cart' = [cart EXCEPT ![t].step = "cart"] /\ UNCHANGED orderFaults
       \/ v # "as quoted" /\ cart' = [cart EXCEPT ![t] = NoCart] /\ OrdersFail
  /\ UNCHANGED <<stage, cartLinks, provider_vars, accepted, inbox, issues, delivery>>

CreateCart(t) ==
  /\ cart[t].step = "cart"
  /\ \/ cart' = [cart EXCEPT ![t].step = "advance"] /\ UNCHANGED orderFaults
     \/ cart' = [cart EXCEPT ![t] = NoCart] /\ OrdersFail
  /\ UNCHANGED <<stage, cartLinks, provider_vars, accepted, inbox, issues, delivery>>

(* The stage a session must still be in to start its checkout.               *)
StillReady(x) == stage[x] = "ready"

(* The cart's URL is answered only if this request moved the session.        *)
Advance(t) ==
  LET q == cart[t].quote
      x == SessionOf(q) IN
  /\ cart[t].step = "advance"
  /\ cart' = [cart EXCEPT ![t] = NoCart]
  /\ IF StillReady(x)
     THEN \/ /\ stage' = [stage EXCEPT ![x] = "started"]
             /\ cartLinks' = cartLinks \cup {q}
             /\ UNCHANGED orderFaults
          \/ /\ OrdersFail
             /\ stage' \in {stage, [stage EXCEPT ![x] = "started"]}
             /\ UNCHANGED cartLinks
     ELSE UNCHANGED <<stage, cartLinks, orderFaults>>
  /\ UNCHANGED <<provider_vars, accepted, inbox, issues, delivery>>

-----------------------------------------------------------------------------
(* The provider: orders of a cart, of the shop's own pages (no quote id) or  *)
(* of another installation (a quote unknown here), and the events of them.   *)

PlaceOrder(o) ==
  /\ orders[o] = "none"
  /\ \E q \in cartLinks \cup {None, Unknown} : orders' = [orders EXCEPT ![o] = q]
  /\ UNCHANGED <<sale_vars, event, accepted, inbox, issues, delivery, orderFaults>>

Emitted(e) == event[e] # NoEvent

(* The order an event is of; a test notification carries any quote.          *)
Emit(e) ==
  /\ ~Emitted(e)
  /\ \/ \E o \in Orders :
          /\ orders[o] # "none"
          /\ event' = [event EXCEPT ![e] = [order |-> o, quote |-> orders[o], test |-> FALSE]]
     \/ \E q \in Quotes :
          event' = [event EXCEPT ![e] = [order |-> Sample, quote |-> q, test |-> TRUE]]
  /\ UNCHANGED <<sale_vars, orders, accepted, inbox, issues, delivery, orderFaults>>

-----------------------------------------------------------------------------
(* The webhook.  A delivery whose signature, shop, type and version hold.    *)

Deliver(d, e) ==
  /\ delivery[d] = NoDelivery
  /\ Emitted(e)
  /\ \/ accepted[e] = {} /\ UNCHANGED orderFaults
     \/ accepted[e] # {} /\ OrdersFail
  /\ delivery' = [delivery EXCEPT ![d].event = e, ![d].step = "record"]
  /\ UNCHANGED <<sale_vars, provider_vars, accepted, inbox, issues>>

GoTo(d, step) ==
  delivery' = [delivery EXCEPT ![d].step = step, ![d].claimable = FALSE, ![d].seen = {}]
GoMark(d, mark) ==
  delivery' = [delivery EXCEPT ![d] =
                 [NoDelivery EXCEPT !.event = delivery[d].event, !.step = "mark", !.mark = mark]]
Stop(d) == delivery' = [delivery EXCEPT ![d] = NoDelivery]
NextCode(d) ==
  delivery' = [delivery EXCEPT ![d].step = "look", ![d].claimable = FALSE, ![d].seen = {}, ![d].left = @ - 1]
Accept(d, answer) ==
  /\ Stop(d)
  /\ accepted' = [accepted EXCEPT ![delivery[d].event] = @ \cup {answer}]

(* The inbox row is written once; the service does not look at its status.   *)
RecordEvent(d) ==
  LET e == delivery[d].event IN
  /\ delivery[d].step = "record"
  /\ inbox' = [inbox EXCEPT ![e] = IF @ = "none" THEN "RECEIVED" ELSE @]
  /\ IF event[e].test THEN GoMark(d, "IGNORED_TEST")
     ELSE IF event[e].quote \in {None, Unknown} THEN GoMark(d, "FAILED_TERMINAL")
     ELSE GoTo(d, "look")
  /\ UNCHANGED <<sale_vars, provider_vars, accepted, issues, orderFaults>>

(* Statuses a delivery may claim, and a variant that forgets the retryable.  *)
ClaimableFresh(e) == inbox[e] \in {"RECEIVED", "PROCESSING"}
Claimable(e) == inbox[e] \in {"RECEIVED", "PROCESSING", "FAILED_RETRYABLE"}

(* reservePaidOrder begins: its snapshot of the event and of the Issues.     *)
Look(d) ==
  /\ delivery[d].step = "look"
  /\ delivery' = [delivery EXCEPT ![d].step = "reserve",
                        ![d].claimable = Claimable(delivery[d].event), ![d].seen = issues]
  /\ UNCHANGED <<sale_vars, provider_vars, accepted, inbox, issues, orderFaults>>

Truth(q) == stage[SessionOf(q)] = "started"

(* The Issues of a set that a delivery's order, event or quote already has.  *)
Existing(seen, e) ==
  {i \in seen : i.order = event[e].order \/ i.event = e \/ i.quote = event[e].quote}

(* ON CONFLICT DO NOTHING against the rows there are when the insert runs.   *)
Insertable(code, e) ==
  Existing(issues, e) = {} /\ code \notin TakenCodes \cup {i.code : i \in issues}

Outcome(d, code) ==
  LET e == delivery[d].event
      claimed == delivery[d].claimable /\ Claimable(e)
      known == Existing(delivery[d].seen, e) # {} IN
  IF known THEN "duplicate"
  ELSE IF ~claimed THEN "unclaimable"
  ELSE IF ~Truth(event[e].quote) THEN "mismatch"
  ELSE IF Insertable(code, e) THEN "reserved" ELSE "collision"

(* The event's row after the statement.  Both claimed and processed update   *)
(* it, and PostgreSQL lets only one of the two take effect: the claim, when  *)
(* an Issue was inserted, for the insert reads it; either one otherwise.     *)
RowAfter(d, outcome) ==
  LET e == delivery[d].event
      claimed == delivery[d].claimable /\ Claimable(e) IN
  IF ~claimed THEN IF outcome = "duplicate" THEN {"PROCESSED"} ELSE {inbox[e]}
  ELSE IF outcome = "duplicate" THEN {"PROCESSING", "PROCESSED"} ELSE {"PROCESSING"}

(* What process() makes of the outcome, and a variant that takes a clash for *)
(* a duplicate.                                                              *)
AnsweredLoosely == {"reserved", "duplicate", "collision"}
AnsweredWith200 == {"reserved", "duplicate"}

ReserveOrder(d) ==
  LET e == delivery[d].event IN
  /\ delivery[d].step = "reserve"
  /\ \E code \in IssueCodes :
       LET outcome == Outcome(d, code) IN
       /\ \E s \in RowAfter(d, outcome) : inbox' = [inbox EXCEPT ![e] = s]
       /\ issues' = issues \cup
            (IF outcome = "reserved"
             THEN {[code |-> code, order |-> event[e].order, event |-> e, quote |-> event[e].quote]}
             ELSE {})
       /\ \/ /\ outcome \in AnsweredWith200
             /\ Accept(d, outcome)
          \/ /\ outcome = "mismatch"
             /\ GoMark(d, "FAILED_TERMINAL")
             /\ UNCHANGED accepted
          \/ /\ outcome = "collision"
             /\ IF delivery[d].left = 1 THEN GoMark(d, "FAILED_RETRYABLE") ELSE NextCode(d)
             /\ UNCHANGED accepted
          \/ /\ outcome = "unclaimable"
             /\ GoMark(d, "FAILED_RETRYABLE")
             /\ UNCHANGED accepted
       \* two codes drawn alike count as a fault, for they seldom are
       /\ IF outcome = "collision" /\ Existing(issues, e) = {} THEN OrdersFail ELSE UNCHANGED orderFaults
  /\ UNCHANGED <<sale_vars, provider_vars>>

(* The statement fails, or its answer is lost after it was committed.        *)
ReserveThrows(d) ==
  LET e == delivery[d].event IN
  /\ delivery[d].step = "reserve"
  /\ OrdersFail
  /\ \/ UNCHANGED <<inbox, issues>>
     \/ \E code \in IssueCodes :
          /\ Outcome(d, code) = "reserved"
          /\ inbox' = [inbox EXCEPT ![e] = "PROCESSING"]
          /\ issues' = issues \cup
               {[code |-> code, order |-> event[e].order, event |-> e, quote |-> event[e].quote]}
  /\ GoMark(d, "FAILED_RETRYABLE")
  /\ UNCHANGED <<sale_vars, provider_vars, accepted>>

(* updateFailureState asks nothing of the row.  A retryable failure is       *)
(* answered with 503 and delivered again, the others with 200.               *)
Mark(d) ==
  LET e == delivery[d].event IN
  /\ delivery[d].step = "mark"
  /\ inbox' = [inbox EXCEPT ![e] = delivery[d].mark]
  /\ IF delivery[d].mark = "FAILED_RETRYABLE"
     THEN Stop(d) /\ UNCHANGED accepted
     ELSE Accept(d, delivery[d].mark)
  /\ UNCHANGED <<sale_vars, provider_vars, issues, orderFaults>>

(* The request dies, or a statement outside reservePaidOrder fails: 500.     *)
DeliveryDies(d) ==
  /\ delivery[d].step # "idle"
  /\ OrdersFail
  /\ Stop(d)
  /\ UNCHANGED <<sale_vars, provider_vars, accepted, inbox, issues>>

-----------------------------------------------------------------------------
DeliveryStep(d) == RecordEvent(d) \/ Look(d) \/ ReserveOrder(d) \/ Mark(d)

OrdersNext ==
  \/ \E t \in CartTabs : (\E q \in Quotes : StartCheckout(t, q)) \/ Lookup(t) \/ CreateCart(t) \/ Advance(t)
  \/ \E o \in Orders : PlaceOrder(o)
  \/ \E e \in Events : Emit(e) \/ \E d \in Deliveries : Deliver(d, e)
  \/ \E d \in Deliveries : DeliveryStep(d) \/ ReserveThrows(d) \/ DeliveryDies(d)

OrdersSpec == OrdersInit /\ [][OrdersNext]_orderVars

(* The provider delivers what was not answered with 200 again, and a request *)
(* that runs takes its next step.                                            *)
Redeliver(d, e) == accepted[e] = {} /\ Deliver(d, e)
OrdersFairness ==
  /\ \A e \in Events : WF_orderVars(\E d \in Deliveries : Redeliver(d, e))
  /\ \A d \in Deliveries : WF_orderVars(DeliveryStep(d))

OrdersFairSpec == OrdersSpec /\ OrdersFairness

-----------------------------------------------------------------------------
SaleOf(i) == SessionOf(i.quote)

(* Every Issue is of an order the provider really took for that quote, and   *)
(* one private session never yields two, whatever tabs opened and paid:      *)
(* CheckoutStartService answers a cart only to the request that moved the    *)
(* session, and the registry has one Issue per order, event, quote and code. *)
OneIssuePerSale ==
  /\ \A i \in issues : i.order \in Orders /\ orders[i.order] = i.quote
  /\ \A i, j \in issues : i # j => SaleOf(i) # SaleOf(j) /\ i.code # j.code

(* PROCESSED, or an answer that tells the provider not to come back with a   *)
(* paid order of ours, means an Issue stands for that order's quote.         *)
ProcessedHasIssue ==
  \A e \in Events :
    (inbox[e] = "PROCESSED" \/ accepted[e] \ {"IGNORED_TEST"} # {})
    /\ event[e].quote \in Quotes
      => \E i \in issues : i.quote = event[e].quote

(* What the registry promises the provider and the customer of a sale.       *)
SalesHaveTheirIssue == OneIssuePerSale /\ ProcessedHasIssue

(* A paid order of ours that the provider reports gets its Issue in the end, *)
(* whatever statements fail and answers are lost on the way.                 *)
Reported(e) == Emitted(e) /\ ~event[e].test /\ event[e].quote \in Quotes
Issued(e) == \E i \in issues : i.quote = event[e].quote
PaidOrderIsIssued == \A e \in Events : Reported(e) ~> Issued(e)

(* An event whose Issue was reserved and that no delivery is working on any  *)
(* more is marked PROCESSED, as the registry's design says.                  *)
ReservedIsProcessed ==
  \A e \in Events :
    "reserved" \in accepted[e] /\ (\A d \in Deliveries : delivery[d].event # e)
      => inbox[e] = "PROCESSED"

=============================================================================
