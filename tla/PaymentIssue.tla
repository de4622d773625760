---------------------------- MODULE PaymentIssue ----------------------------
(***************************************************************************)
(* From provider truth to the canonical Issue: payment_attempts, the       *)
(* payment_provider_events and their triggers, the Issue registry and the  *)
(* referral conversion, driven by concurrent requests: redelivered Safepay *)
(* webhooks, the customer's browser return, the owner's refund             *)
(* reconciliation and paid-Issue recovery.                                 *)
(*                                                                         *)
(* Every SQL statement, with the triggers it fires, is one atomic step of  *)
(* the request that issues it; between two steps any other request, the    *)
(* provider or a crash may intervene.  The attempts start where            *)
(* PaymentService.start leaves them, REDIRECTED to the hosted checkout.    *)
(* Money is compared, never computed: an event's money is the attempt's    *)
(* own, the same money in the settlement currency, or another amount.      *)
(***************************************************************************)
EXTENDS Naturals, FiniteSets

CONSTANTS
  Attempts,   \* payment attempts with a provider reference
  Referred,   \* those whose quote froze a referral, with referrals enabled
  Requests,   \* slots for concurrent requests
  Moneys,     \* how a provider event's money may compare to the attempt's
  MaxFaults,  \* bound on the requests that die
  None        \* no request in a slot

ASSUME PaymentAssumption ==
  /\ Referred \subseteq Attempts
  /\ Moneys \subseteq {"exact", "converted", "wrong"}
  /\ MaxFaults \in Nat

VARIABLES
  status,      \* payment_attempts.status
  issue,       \* issues.status of the attempt's Issue, "NONE" before it exists
  code,        \* issues.payment_exception_code, "NONE" for NULL
  conversion,  \* referral_conversions.state, "NONE" before the row exists
  jobs,        \* what has been handed to the background: <<attempt, topic>>
  recorded,    \* webhook events in payment_provider_events
  charge,      \* external: what Safepay's tracker says
  emitted,     \* external: the webhook events Safepay has for the merchant
  unanswered,  \* external: those it redelivers until a 2xx answer
  step,        \* the next statement of each request
  req,         \* what each request works on
  faults,      \* requests that died so far
  lateIssue,   \* history: Issues reserved when the attempt was PAID no longer
  lateReward   \* history: conversions created when it was PAID no longer

dbVars       == <<status, issue, code, conversion, jobs, recorded>>
providerVars == <<charge, emitted>>
requestVars  == <<step, req>>
history      == <<lateIssue, lateReward>>
vars == <<dbVars, providerVars, unanswered, requestVars, faults, history>>

Statuses  == {"REDIRECTED", "PAID", "FAILED", "REFUNDED", "EXCEPTION"}
Codes     == {"NONE", "PAYMENT_EXCEPTION", "PAYMENT_REFUNDED"}
Topics    == {"DESIGN", "PAYMENT_RECEIVED", "SALE", "REVERSAL"}
Charges   == {"open", "captured", "mischarged", "partial", "refunded"}
Sources   == {"webhook", "return", "refund", "recovery"}
Steps     == {"idle", "verify", "verifyReturn", "verifyRefund", "record", "mark",
              "lookup", "truth", "reserve", "referral", "convert", "sale",
              "dispatch", "notify", "flagRefund", "reverse", "reversal",
              "flagException", "answer"}

Event == [attempt : Attempts, state : {"PAID", "FAILED", "REFUNDED"},
          money : Moneys \cup {"exact"}]

(* exact: the money the request will compare is the attempt's own. *)
Request == [source : Sources, event : Event, exact : BOOLEAN]

(* Types; a code and a reference to what works on it need their row. *)
TypeOK ==
  /\ status \in [Attempts -> Statuses]
  /\ issue \in [Attempts -> {"NONE", "RECEIVED", "EXCEPTION"}]
  /\ code \in [Attempts -> Codes]
  /\ \A a \in Attempts : code[a] # "NONE" => issue[a] # "NONE"
  /\ conversion \in [Attempts -> {"NONE", "PENDING", "REVERSED"}]
  /\ jobs \subseteq Attempts \X Topics
  /\ recorded \subseteq Event
  /\ charge \in [Attempts -> Charges]
  /\ emitted \subseteq Event
  /\ unanswered \subseteq emitted
  /\ step \in [Requests -> Steps]
  /\ req \in [Requests -> Request \cup {None}]
  /\ \A r \in Requests : step[r] # "idle" => req[r] \in Request
  /\ faults \in Nat
  /\ lateIssue \subseteq Attempts
  /\ lateReward \subseteq Attempts

Init ==
  /\ status = [a \in Attempts |-> "REDIRECTED"]
  /\ issue = [a \in Attempts |-> "NONE"]
  /\ code = [a \in Attempts |-> "NONE"]
  /\ conversion = [a \in Attempts |-> "NONE"]
  /\ jobs = {}
  /\ recorded = {}
  /\ charge = [a \in Attempts |-> "open"]
  /\ emitted = {}
  /\ unanswered = {}
  /\ step = [r \in Requests |-> "idle"]
  /\ req = [r \in Requests |-> None]
  /\ faults = 0
  /\ lateIssue = {}
  /\ lateReward = {}

-----------------------------------------------------------------------------
(* Safepay, as SafepayPaymentGateway meets it.  A tracker is captured once,  *)
(* may be declined before that, and refunded in full or in part after it.    *)
Emit(e) ==
  /\ emitted' = emitted \cup {e}
  /\ unanswered' = unanswered \cup {e}

Capture(a, m) ==
  /\ charge[a] = "open"
  /\ charge' = [charge EXCEPT ![a] = IF m = "wrong" THEN "mischarged" ELSE "captured"]
  /\ Emit([attempt |-> a, state |-> "PAID", money |-> m])
  /\ UNCHANGED <<dbVars, requestVars, faults, history>>

Decline(a) ==
  /\ charge[a] = "open"
  /\ [attempt |-> a, state |-> "FAILED", money |-> "exact"] \notin emitted
  /\ Emit([attempt |-> a, state |-> "FAILED", money |-> "exact"])
  /\ UNCHANGED <<charge, dbVars, requestVars, faults, history>>

(* The refund event carries refund_amount: the whole, perhaps converted, or  *)
(* a part of it.                                                             *)
Refund(a, m) ==
  /\ charge[a] = "captured"
  /\ charge' = [charge EXCEPT ![a] = IF m = "wrong" THEN "partial" ELSE "refunded"]
  /\ Emit([attempt |-> a, state |-> "REFUNDED", money |-> m])
  /\ UNCHANGED <<dbVars, requestVars, faults, history>>

(* verifyTracker and verifyRefundedTracker: the tracker's state, with the    *)
(* quoted money compared to the attempt's.                                   *)
TrackerPaidAnyMoney(a) == charge[a] \in {"captured", "mischarged"}
TrackerPaid(a) == charge[a] = "captured"
TrackerRefunded(a) == charge[a] = "refunded"
-----------------------------------------------------------------------------
Goto(r, s) == step' = [step EXCEPT ![r] = s] /\ UNCHANGED req

(* The request ends; unless it answered, the provider will deliver again. *)
End(r) ==
  /\ step' = [step EXCEPT ![r] = "idle"]
  /\ req' = [req EXCEPT ![r] = None]

Att(r) == req[r].event.attempt
At(r, s) == step[r] = s

OnlyRequests == UNCHANGED <<dbVars, providerVars, unanswered, faults, history>>
OnlyTable == UNCHANGED <<providerVars, unanswered, faults>>

(* PaymentService.handleWebhook up to the first write.  The attempt it loads *)
(* is used for its money alone, which never changes.                         *)
StartWebhook(r, e) ==
  /\ At(r, "idle") /\ e \in unanswered
  /\ req' = [req EXCEPT ![r] =
       [source |-> "webhook", event |-> e, exact |-> e.money = "exact"]]
  /\ step' = [step EXCEPT ![r] =
       IF e.state = "PAID" /\ e.money = "converted" THEN "verify" ELSE "record"]
  /\ OnlyRequests

(* A paid event in the settlement currency is checked with the Reporter. *)
Verify(r) ==
  /\ At(r, "verify")
  /\ step' = [step EXCEPT ![r] = "record"]
  /\ req' = [req EXCEPT ![r].exact = TrackerPaid(Att(r))]
  /\ OnlyRequests

(* PaymentService.reconcileTracker up to the Reporter call: the browser      *)
(* return.  Already PAID goes straight to finalization; any other final      *)
(* status is an exception, which a browser return only swallows.             *)
StartReturn(r, a) ==
  /\ At(r, "idle") /\ status[a] \in {"PAID", "REDIRECTED"}
  /\ req' = [req EXCEPT ![r] = [source |-> "return", exact |-> TRUE,
       event |-> [attempt |-> a, state |-> "PAID", money |-> "exact"]]]
  /\ step' = [step EXCEPT ![r] = IF status[a] = "PAID" THEN "lookup" ELSE "verifyReturn"]
  /\ OnlyRequests

VerifyReturn(r) ==
  /\ At(r, "verifyReturn")
  /\ IF TrackerPaid(Att(r)) THEN Goto(r, "mark") ELSE End(r)
  /\ OnlyRequests

(* OpsRefundService.reconcile and PaymentService.reconcileRefund: two reads  *)
(* with no write between them.                                               *)
StartRefundCheck(r, a) ==
  /\ At(r, "idle") /\ issue[a] # "NONE" /\ status[a] \in {"PAID", "REFUNDED"}
  /\ req' = [req EXCEPT ![r] = [source |-> "refund", exact |-> TRUE,
       event |-> [attempt |-> a, state |-> "REFUNDED", money |-> "exact"]]]
  /\ step' = [step EXCEPT ![r] = IF status[a] = "PAID" THEN "verifyRefund" ELSE "flagRefund"]
  /\ OnlyRequests

VerifyRefund(r) ==
  /\ At(r, "verifyRefund")
  /\ IF TrackerRefunded(Att(r)) THEN Goto(r, "mark") ELSE End(r)
  /\ OnlyRequests

(* OpsRecoveryService.resumePaidIssue. *)
StartRecovery(r, a) ==
  /\ At(r, "idle")
  /\ req' = [req EXCEPT ![r] = [source |-> "recovery", exact |-> TRUE,
       event |-> [attempt |-> a, state |-> "PAID", money |-> "exact"]]]
  /\ step' = [step EXCEPT ![r] = "lookup"]
  /\ OnlyRequests

-----------------------------------------------------------------------------
(* What a write of c into payment_exception_code leaves there: a refund      *)
(* overrides, anything else only fills a NULL.                               *)
MergeCode(old, c) ==
  IF c = "PAYMENT_REFUNDED" THEN c ELSE IF old = "NONE" THEN c ELSE old

(* The exception overlay on an Issue: the projection trigger and             *)
(* flagPaymentException do the same.  Every status this module gives an      *)
(* Issue is a pre-production one, which becomes EXCEPTION.                   *)
FlagCodeOnly(a, c) ==
  /\ code' = IF issue[a] = "NONE" THEN code ELSE [code EXCEPT ![a] = MergeCode(@, c)]
  /\ UNCHANGED issue
Flag(a, c) ==
  /\ code' = IF issue[a] = "NONE" THEN code ELSE [code EXCEPT ![a] = MergeCode(@, c)]
  /\ issue' = IF issue[a] = "NONE" THEN issue ELSE [issue EXCEPT ![a] = "EXCEPTION"]

(* UPDATE payment_attempts SET status = s, with its projection trigger,      *)
(* which fires only when the status becomes REFUNDED or EXCEPTION.           *)
SetStatus(a, s) ==
  /\ status' = [status EXCEPT ![a] = s]
  /\ IF s = status[a] \/ s \notin {"REFUNDED", "EXCEPTION"}
       THEN UNCHANGED <<issue, code>>
       ELSE Flag(a, IF s = "REFUNDED" THEN "PAYMENT_REFUNDED" ELSE "PAYMENT_EXCEPTION")

(* recordProviderEvent of a webhook: ON CONFLICT DO NOTHING, and the trigger *)
(* of the first insert quarantines an attempt whose money differs.           *)
Record(r) ==
  /\ At(r, "record")
  /\ recorded' = recorded \cup {req[r].event}
  /\ IF req[r].event \in recorded \/ req[r].exact
       THEN UNCHANGED <<status, issue, code>>
       ELSE SetStatus(Att(r), "EXCEPTION")
  /\ Goto(r, "mark")
  /\ UNCHANGED <<conversion, jobs, history>> /\ OnlyTable

(* The webhook route and the browser return finalize a 'duplicate' as they   *)
(* do a 'paid': the first delivery may have died before it had.              *)
DuplicateIsDone(r) == IF req[r].source = "webhook" THEN "answer" ELSE "lookup"
OnDuplicate(r) == "lookup"

(* markPaid and what its caller does with the outcome. *)
MarkPaid(r) ==
  LET a == Att(r) IN
  /\ At(r, "mark") /\ req[r].event.state = "PAID"
  /\ \/ /\ status[a] = "REDIRECTED" /\ req[r].exact
        /\ SetStatus(a, "PAID") /\ Goto(r, "lookup")
     \/ /\ status[a] = "PAID"
        /\ UNCHANGED <<status, issue, code>> /\ Goto(r, OnDuplicate(r))
     \/ /\ status[a] # "PAID"
        /\ status[a] = "REDIRECTED" => ~req[r].exact
        /\ IF status[a] = "REDIRECTED" THEN SetStatus(a, "EXCEPTION")
                                       ELSE UNCHANGED <<status, issue, code>>
        /\ IF req[r].source = "webhook" THEN Goto(r, "flagException") ELSE End(r)
  /\ UNCHANGED <<conversion, jobs, recorded, history>> /\ OnlyTable

(* markFailed: only an attempt still open to payment. *)
FailableWhenPaid(a) == status[a] \in {"REDIRECTED", "PAID"}
Failable(a) == status[a] = "REDIRECTED"

MarkFailed(r) ==
  LET a == Att(r) IN
  /\ At(r, "mark") /\ req[r].event.state = "FAILED"
  /\ SetStatus(a, IF Failable(a) THEN "FAILED" ELSE status[a])
  /\ Goto(r, "answer")
  /\ UNCHANGED <<conversion, jobs, recorded, history>> /\ OnlyTable

(* markRefunded: PAID with the same money, or it is an exception. *)
Refundable(r) == status[Att(r)] = "PAID" /\ req[r].exact

MarkRefunded(r) ==
  LET a == Att(r) IN
  /\ At(r, "mark") /\ req[r].event.state = "REFUNDED"
  /\ \/ Refundable(r) /\ SetStatus(a, "REFUNDED") /\ Goto(r, "flagRefund")
     \/ /\ status[a] = "REFUNDED"
        /\ UNCHANGED <<status, issue, code>> /\ Goto(r, "flagRefund")
     \/ /\ ~Refundable(r) /\ status[a] # "REFUNDED"
        /\ SetStatus(a, "EXCEPTION")
        /\ IF req[r].source = "webhook" THEN Goto(r, "flagException") ELSE End(r)
  /\ UNCHANGED <<conversion, jobs, recorded, history>> /\ OnlyTable

-----------------------------------------------------------------------------
(* finalizePaidAttempt, statement by statement. *)

(* findByPaymentAttemptId.  Recovery knows no referral step. *)
AfterReserve(r) == IF req[r].source = "recovery" THEN "dispatch" ELSE "referral"

Lookup(r) ==
  /\ At(r, "lookup")
  /\ Goto(r, IF issue[Att(r)] # "NONE" THEN AfterReserve(r) ELSE "truth")
  /\ OnlyRequests

(* loadPaidTruth: no row unless PAID, and reserveForPaidAttempt throws. *)
PaidTruthAnyStatus(a) == TRUE
PaidTruth(a) == status[a] = "PAID"

Truth(r) ==
  /\ At(r, "truth")
  /\ IF PaidTruth(Att(r)) THEN Goto(r, "reserve") ELSE End(r)
  /\ OnlyRequests

(* reserve: inserts the Issue unless the attempt has one.  It trusts the     *)
(* truth read before: the attempt's status is not looked at again.  A        *)
(* colliding Issue code is retried and leaves no trace.                      *)
Reserve(r) ==
  LET a == Att(r) IN
  /\ At(r, "reserve")
  /\ issue' = [issue EXCEPT ![a] = IF @ = "NONE" THEN "RECEIVED" ELSE @]
  /\ lateIssue' = IF issue[a] = "NONE" /\ status[a] # "PAID"
                    THEN lateIssue \cup {a} ELSE lateIssue
  /\ Goto(r, AfterReserve(r))
  /\ UNCHANGED <<status, code, conversion, jobs, recorded, lateReward>> /\ OnlyTable

(* loadPaidReferralTruth: nothing for an attempt that is not referred or not *)
(* PAID, and then no conversion.                                             *)
Referral(r) ==
  /\ At(r, "referral")
  /\ Goto(r, IF Att(r) \in Referred /\ status[Att(r)] = "PAID" THEN "convert" ELSE "dispatch")
  /\ OnlyRequests

(* createConversion: ON CONFLICT (payment_attempt_id) DO NOTHING. *)
Convert(r) ==
  LET a == Att(r) IN
  /\ At(r, "convert")
  /\ conversion' = [conversion EXCEPT ![a] = IF @ = "NONE" THEN "PENDING" ELSE @]
  /\ lateReward' = IF conversion[a] = "NONE" /\ status[a] # "PAID"
                     THEN lateReward \cup {a} ELSE lateReward
  /\ Goto(r, "sale")
  /\ UNCHANGED <<status, issue, code, jobs, recorded, lateIssue>> /\ OnlyTable

(* enqueue: a key that is already there stays as it is. *)
Hand(r, topics) ==
  /\ jobs' = jobs \cup {<<Att(r), t>> : t \in topics}
  /\ UNCHANGED <<status, issue, code, conversion, recorded, history>> /\ OnlyTable

Sale(r) == At(r, "sale") /\ Hand(r, {"SALE"}) /\ Goto(r, "dispatch")

(* dispatchPaidIssueDesign: a queued job or a reserved manual design job. *)
Dispatch(r) ==
  /\ At(r, "dispatch") /\ req[r].source # "recovery"
  /\ Hand(r, {"DESIGN"}) /\ Goto(r, "notify")

Notify(r) == At(r, "notify") /\ Hand(r, {"PAYMENT_RECEIVED"}) /\ Goto(r, "answer")

(* The recovery's Promise.all: either enqueue may fail without the other. *)
RecoverBoth(r) ==
  /\ At(r, "dispatch") /\ req[r].source = "recovery"
  /\ \E topics \in SUBSET {"DESIGN", "PAYMENT_RECEIVED"} : Hand(r, topics)
  /\ End(r)

-----------------------------------------------------------------------------
(* finalizeRefundedAttempt, statement by statement. *)
(* Mutant: the refund is done once the Issue is quarantined. *)
FlagRefundOnly(r) ==
  /\ At(r, "flagRefund")
  /\ Flag(Att(r), "PAYMENT_REFUNDED") /\ Goto(r, "answer")
  /\ UNCHANGED <<status, conversion, jobs, recorded, history>> /\ OnlyTable
FlagRefund(r) ==
  /\ At(r, "flagRefund")
  /\ Flag(Att(r), "PAYMENT_REFUNDED")
  /\ Goto(r, IF Att(r) \in Referred THEN "reverse" ELSE "answer")
  /\ UNCHANGED <<status, conversion, jobs, recorded, history>> /\ OnlyTable

(* reverseByPaymentAttemptId: no row, no reversal. *)
Reverse(r) ==
  LET a == Att(r) IN
  /\ At(r, "reverse")
  /\ conversion' = [conversion EXCEPT ![a] = IF @ = "PENDING" THEN "REVERSED" ELSE @]
  /\ Goto(r, IF conversion[a] = "NONE" THEN "answer" ELSE "reversal")
  /\ UNCHANGED <<status, issue, code, jobs, recorded, history>> /\ OnlyTable

Reversal(r) == At(r, "reversal") /\ Hand(r, {"REVERSAL"}) /\ Goto(r, "answer")

(* The webhook route on an exception outcome. *)
FlagException(r) ==
  /\ At(r, "flagException")
  /\ Flag(Att(r), "PAYMENT_EXCEPTION")
  /\ Goto(r, "answer")
  /\ UNCHANGED <<status, conversion, jobs, recorded, history>> /\ OnlyTable

(* The response.  A webhook's 200 ends the redelivery of its event. *)
Answer(r) ==
  /\ At(r, "answer")
  /\ unanswered' = IF req[r].source = "webhook" THEN unanswered \ {req[r].event}
                                                ELSE unanswered
  /\ End(r)
  /\ UNCHANGED <<dbVars, providerVars, faults, history>>

(* The process dies, a statement is rejected, or the answer is lost. *)
Crash(r) ==
  /\ ~At(r, "idle") /\ faults < MaxFaults
  /\ faults' = faults + 1
  /\ End(r)
  /\ UNCHANGED <<dbVars, providerVars, unanswered, history>>

-----------------------------------------------------------------------------
Provider(a) == Decline(a) \/ \E m \in Moneys : Capture(a, m) \/ Refund(a, m)

Start(r, a) == StartReturn(r, a) \/ StartRefundCheck(r, a) \/ StartRecovery(r, a)

Verification(r) == Verify(r) \/ VerifyReturn(r) \/ VerifyRefund(r)
Decision(r) == Record(r) \/ MarkPaid(r) \/ MarkFailed(r) \/ MarkRefunded(r)
Finalization(r) ==
  \/ Lookup(r) \/ Truth(r) \/ Reserve(r)
  \/ Referral(r) \/ Convert(r) \/ Sale(r)
  \/ Dispatch(r) \/ Notify(r) \/ RecoverBoth(r)
  \/ FlagRefund(r) \/ Reverse(r) \/ Reversal(r) \/ FlagException(r)

Run(r) == Verification(r) \/ Decision(r) \/ Finalization(r) \/ Answer(r)

Next ==
  \/ \E a \in Attempts : Provider(a)
  \/ \E r \in Requests : \/ \E e \in unanswered : StartWebhook(r, e)
                         \/ \E a \in Attempts : Start(r, a)
                         \/ Run(r)
                         \/ Crash(r)

(* The provider keeps delivering as long as an event is unanswered, though   *)
(* the slots may be busy in between, and a request that does not die runs to *)
(* its end.                                                                  *)
Fairness ==
  /\ \A r \in Requests : WF_vars(Run(r))
  /\ SF_vars(\E r \in Requests : \E e \in unanswered : StartWebhook(r, e))

Spec == Init /\ [][Next]_vars
FairSpec == Spec /\ Fairness

-----------------------------------------------------------------------------
Answered(e) == e \in emitted \ unanswered
Captured(a) == charge[a] \in {"captured", "partial", "refunded"}
Has(a, topics) == \A t \in topics : <<a, t>> \in jobs

(* The stored status never claims more than the provider confirmed: PAID     *)
(* only when the whole amount was captured, REFUNDED only when all of it was *)
(* given back, whatever events were duplicated, reordered or partial.        *)
StatusIsProviderTruth ==
  \A a \in Attempts : /\ status[a] = "PAID" => Captured(a)
                      /\ status[a] = "REFUNDED" => charge[a] = "refunded"

(* An Issue, and a creator's reward, exist only for money that was captured, *)
(* even when the status they were decided on has changed since.              *)
IssueFromPaidTruth ==
  \A a \in Attempts :
    issue[a] # "NONE" \/ conversion[a] # "NONE"
      => Captured(a) /\ status[a] \in {"PAID", "REFUNDED", "EXCEPTION"}

(* A payment event is answered only when its work is done: the provider      *)
(* stops redelivering, so nothing would ever finish it (finalization after   *)
(* 'duplicate' as after 'paid').                                             *)
AnsweredPaymentIsFinal ==
  \A e \in Event :
    (Answered(e) /\ e.state = "PAID" /\ status[e.attempt] = "PAID")
      => /\ issue[e.attempt] # "NONE"
         /\ Has(e.attempt, {"DESIGN", "PAYMENT_RECEIVED"})
         /\ e.attempt \in Referred => conversion[e.attempt] # "NONE" /\ Has(e.attempt, {"SALE"})

(* Captured money whose event was answered is on record, as PAID, refunded   *)
(* or as an exception for the owner, unless a declined first try of the same *)
(* tracker had closed the attempt as FAILED.                                 *)
CapturedMoneyOnRecord ==
  \A e \in Event :
    (Answered(e) /\ e.state = "PAID")
      => \/ status[e.attempt] \in {"PAID", "REFUNDED", "EXCEPTION"}
         \/ /\ status[e.attempt] = "FAILED" /\ issue[e.attempt] = "NONE"
            /\ [attempt |-> e.attempt, state |-> "FAILED", money |-> "exact"] \in recorded

(* An Issue whose payment was refunded or became an exception is stopped, in *)
(* the same statement (the projection trigger); only an Issue reserved after *)
(* that, on truth read before it, can escape.                                *)
ExceptionStopsIssue ==
  \A a \in Attempts :
    (status[a] \in {"REFUNDED", "EXCEPTION"} /\ issue[a] # "NONE" /\ a \notin lateIssue)
      => issue[a] = "EXCEPTION" /\ code[a] # "NONE"

(* Nothing is in flight. *)
Quiet == unanswered = {} /\ \A r \in Requests : step[r] = "idle"

(* "Finalization applies the required Issue quarantine/status, referral      *)
(* reversal, notification, and audit effects exactly once": a refunded       *)
(* attempt's Issue is quarantined once every event has been handled.         *)
RefundQuarantinesIssue ==
  Quiet => \A a \in Attempts :
    (status[a] = "REFUNDED" /\ issue[a] # "NONE") => issue[a] = "EXCEPTION"

(* Once every event has been handled the reward of a refunded attempt is     *)
(* reversed, whatever died on the way; only a conversion created after the   *)
(* refund, on truth read before it, can stand (reverseByPaymentAttemptId).   *)
RefundReversesReward ==
  Quiet => \A a \in Attempts :
    status[a] = "REFUNDED" /\ a \notin lateReward => conversion[a] # "PENDING"

(* A verified payment eventually becomes an Issue in the design pipeline     *)
(* with its receipt queued, unless it is undone first.                       *)
PaidFor(a) == status[a] = "PAID"
IssuedOrUndone(a) ==
  \/ issue[a] # "NONE" /\ Has(a, {"DESIGN", "PAYMENT_RECEIVED"})
  \/ status[a] \in {"REFUNDED", "EXCEPTION"}
PaidBecomesIssue == \A a \in Attempts : PaidFor(a) ~> IssuedOrUndone(a)
=============================================================================
