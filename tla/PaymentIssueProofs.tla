------------------------- MODULE PaymentIssueProofs -------------------------
(***************************************************************************)
(* Theorems about PaymentIssue, for any number of attempts and concurrent  *)
(* requests and any number of deaths.                                      *)
(***************************************************************************)
EXTENDS PaymentIssue, TLAPS

PaidSteps   == {"verify", "verifyReturn", "lookup", "truth", "reserve", "referral",
                "convert", "sale", "dispatch", "notify"}
RefundSteps == {"verifyRefund", "flagRefund", "reverse", "reversal"}

(* A request is where its event can have taken it, and a webhook works on an *)
(* event the provider has.                                                   *)
RequestOK ==
  \A r \in Requests : step[r] # "idle" =>
    /\ step[r] \in PaidSteps => req[r].event.state = "PAID"
    /\ step[r] \in RefundSteps => req[r].event.state = "REFUNDED"
    /\ req[r].source = "webhook" => req[r].event \in emitted

TypeInv == TypeOK /\ RequestOK

(* An event states what the tracker has been through.                        *)
ProviderInv ==
  \A e \in emitted :
    /\ e.state = "PAID" => IF e.money = "wrong" THEN charge[e.attempt] = "mischarged"
                                                ELSE Captured(e.attempt)
    /\ e.state = "REFUNDED" => charge[e.attempt] = IF e.money = "wrong" THEN "partial"
                                                                       ELSE "refunded"

(* What a request is about to write is money the provider confirmed.         *)
ExactInv ==
  \A r \in Requests :
    (step[r] \in {"record", "mark"} /\ req[r].exact) =>
      /\ req[r].event.state = "PAID" => Captured(Att(r))
      /\ req[r].event.state = "REFUNDED" => charge[Att(r)] = "refunded"

TruthInv == ProviderInv /\ ExactInv /\ StatusIsProviderTruth

Known == {"PAID", "REFUNDED", "EXCEPTION"}

(* The truth a reservation rests on may be stale, but it was the truth.      *)
Read(r) == Captured(Att(r)) /\ status[Att(r)] \in Known

ReadInv == \A r \in Requests : step[r] \in {"reserve", "convert"} => Read(r)

Declined(a) == [attempt |-> a, state |-> "FAILED", money |-> "exact"]

(* A failed attempt had a declined try, on record.                           *)
FailInv ==
  /\ \A e \in emitted : e.state = "FAILED" => e = Declined(e.attempt)
  /\ \A r \in Requests : (step[r] = "mark" /\ req[r].event.state = "FAILED") =>
       req[r].event = Declined(Att(r)) /\ req[r].event \in recorded
  /\ \A r \in Requests : (step[r] # "idle" /\ req[r].event.state = "FAILED") =>
       req[r].source = "webhook"
  /\ \A a \in Attempts : status[a] = "FAILED" => Declined(a) \in recorded

Converted(a) == (a \in Referred /\ status[a] = "PAID") =>
                  conversion[a] # "NONE" /\ Has(a, {"SALE"})
Final(a) == status[a] = "PAID" =>
  /\ issue[a] # "NONE"
  /\ Has(a, {"DESIGN", "PAYMENT_RECEIVED"})
  /\ a \in Referred => conversion[a] # "NONE" /\ Has(a, {"SALE"})

(* What a webhook has done for its payment when it comes to a statement.     *)
Done(r) ==
  (req[r].source = "webhook" /\ req[r].event.state = "PAID") =>
    /\ step[r] \notin {"verify", "record", "mark"} => status[Att(r)] # "REDIRECTED"
    /\ step[r] = "flagException" => status[Att(r)] # "PAID"
    /\ step[r] \in {"referral", "convert", "sale", "dispatch", "notify"} => issue[Att(r)] # "NONE"
    /\ step[r] = "sale" => conversion[Att(r)] # "NONE"
    /\ step[r] \in {"dispatch", "notify"} => Converted(Att(r))
    /\ step[r] = "notify" => Has(Att(r), {"DESIGN"})
    /\ step[r] = "answer" => Final(Att(r))

DoneInv == \A r \in Requests : step[r] # "idle" => Done(r)

AnswerInv ==
  \A e \in emitted \ unanswered : e.state = "PAID" =>
    status[e.attempt] # "REDIRECTED" /\ Final(e.attempt)

(* The initial state is well typed.                                          *)
LEMMA InitTypeInv == Init => TypeInv
BY PaymentAssumption DEF Init, TypeInv, TypeOK, RequestOK, Statuses, Codes, Charges, Steps, Topics

RowsOK ==
  /\ status \in [Attempts -> Statuses]
  /\ issue \in [Attempts -> {"NONE", "RECEIVED", "EXCEPTION"}]
  /\ code \in [Attempts -> Codes]
  /\ \A a \in Attempts : code[a] # "NONE" => issue[a] # "NONE"

(* The exception overlay keeps the rows well typed, a code only on a row.    *)
LEMMA SetStatusType ==
  ASSUME RowsOK, NEW a \in Attempts, NEW s \in Statuses, SetStatus(a, s)
  PROVE  RowsOK'
<1>1. CASE s = status[a] \/ s \notin {"REFUNDED", "EXCEPTION"}
  BY <1>1 DEF RowsOK, SetStatus
<1>2. CASE ~(s = status[a] \/ s \notin {"REFUNDED", "EXCEPTION"})
  BY <1>2 DEF RowsOK, SetStatus, Flag, MergeCode, Codes
<1> QED BY <1>1, <1>2

MovesOK ==
  /\ step \in [Requests -> Steps]
  /\ req \in [Requests -> Request \cup {None}]
  /\ \A r \in Requests : step[r] # "idle" => req[r] \in Request
  /\ RequestOK

(* A request that goes on or ends stays where its event can take it.         *)
LEMMA MoveType ==
  ASSUME MovesOK, NEW r \in Requests, step[r] # "idle", UNCHANGED emitted,
         \/ End(r)
         \/ \E s \in Steps :
              /\ Goto(r, s)
              /\ s \in PaidSteps => req[r].event.state = "PAID"
              /\ s \in RefundSteps => req[r].event.state = "REFUNDED"
  PROVE  MovesOK'
BY DEF MovesOK, RequestOK, Goto, End, Steps

(* No statement writes anything ill typed.                                   *)
LEMMA NextTypeInv == TypeInv /\ [Next]_vars => TypeInv'
<1> SUFFICES ASSUME TypeInv, [Next]_vars PROVE TypeInv'
  OBVIOUS
<1> USE PaymentAssumption DEF TypeInv, TypeOK, RequestOK, Statuses, Codes, Charges, Steps,
        PaidSteps, RefundSteps, Request, Event, Sources, At, Att, OnlyRequests, OnlyTable,
        dbVars, providerVars, requestVars, history
<1>1. ASSUME NEW a \in Attempts, NEW m \in Moneys, Capture(a, m) PROVE TypeInv'
  BY <1>1 DEF Capture, Emit
<1>2. ASSUME NEW a \in Attempts, Decline(a) PROVE TypeInv'
  BY <1>2 DEF Decline, Emit
<1>3. ASSUME NEW a \in Attempts, NEW m \in Moneys, Refund(a, m) PROVE TypeInv'
  BY <1>3 DEF Refund, Emit
<1>4. ASSUME NEW r \in Requests, NEW e \in unanswered, StartWebhook(r, e) PROVE TypeInv'
  BY <1>4 DEF StartWebhook
<1>5. ASSUME NEW r \in Requests, NEW a \in Attempts, StartReturn(r, a) PROVE TypeInv'
  BY <1>5 DEF StartReturn
<1>6. ASSUME NEW r \in Requests, NEW a \in Attempts, StartRefundCheck(r, a) PROVE TypeInv'
  BY <1>6 DEF StartRefundCheck
<1>7. ASSUME NEW r \in Requests, NEW a \in Attempts, StartRecovery(r, a) PROVE TypeInv'
  BY <1>7 DEF StartRecovery
<1>8. ASSUME NEW r \in Requests, Verify(r) PROVE TypeInv'
  <2>1. PICK b \in BOOLEAN : b = TrackerPaid(Att(r))
    BY DEF TrackerPaid
  <2>2. req[r] \in Request
    BY <1>8 DEF Verify
  <2>3. req' = [req EXCEPT ![r].exact = b] /\ step' = [step EXCEPT ![r] = "record"]
    BY <1>8, <2>1 DEF Verify
  <2>4. PICK q \in Request : q = req[r]
    BY <2>2
  <2>5. [q EXCEPT !.exact = b] \in Request
        /\ [q EXCEPT !.exact = b].source = q.source /\ [q EXCEPT !.exact = b].event = q.event
    OBVIOUS
  <2>6. req' = [req EXCEPT ![r] = [q EXCEPT !.exact = b]]
    BY <2>3, <2>4
  <2>7. req' \in [Requests -> Request \cup {None}] /\ req'[r] = [q EXCEPT !.exact = b]
    BY <2>5, <2>6
  <2> QED BY <1>8, <2>3, <2>4, <2>5, <2>6, <2>7 DEF Verify
<1>9. ASSUME NEW r \in Requests, VerifyReturn(r) PROVE TypeInv'
  BY <1>9 DEF VerifyReturn, Goto, End
<1>10. ASSUME NEW r \in Requests, VerifyRefund(r) PROVE TypeInv'
  BY <1>10 DEF VerifyRefund, Goto, End
<1>11. ASSUME NEW r \in Requests, Record(r) PROVE TypeInv'
  <2>1. step[r] # "idle" /\ Att(r) \in Attempts /\ RowsOK /\ MovesOK
    BY <1>11 DEF Record, RowsOK, MovesOK
  <2>2. RowsOK'
    BY <1>11, <2>1, SetStatusType DEF Record, RowsOK
  <2>3. MovesOK'
    BY <1>11, <2>1, MoveType DEF Record, At
  <2> QED BY <1>11, <2>2, <2>3 DEF Record, RowsOK, MovesOK
<1>12. ASSUME NEW r \in Requests, MarkPaid(r) PROVE TypeInv'
  <2>1. step[r] # "idle" /\ Att(r) \in Attempts /\ RowsOK /\ MovesOK
    BY <1>12 DEF MarkPaid, RowsOK, MovesOK
  <2>2. RowsOK'
    BY <1>12, <2>1, SetStatusType DEF MarkPaid, RowsOK
  <2>3. MovesOK'
    BY <1>12, <2>1, MoveType DEF MarkPaid, At, OnDuplicate
  <2> QED BY <1>12, <2>2, <2>3 DEF MarkPaid, RowsOK, MovesOK
<1>13. ASSUME NEW r \in Requests, MarkFailed(r) PROVE TypeInv'
  <2>1. step[r] # "idle" /\ Att(r) \in Attempts /\ RowsOK /\ MovesOK
    BY <1>13 DEF MarkFailed, RowsOK, MovesOK
  <2>2. RowsOK'
    BY <1>13, <2>1, SetStatusType DEF MarkFailed, RowsOK
  <2>3. MovesOK'
    BY <1>13, <2>1, MoveType DEF MarkFailed, At
  <2> QED BY <1>13, <2>2, <2>3 DEF MarkFailed, RowsOK, MovesOK
<1>14. ASSUME NEW r \in Requests, MarkRefunded(r) PROVE TypeInv'
  <2>1. step[r] # "idle" /\ Att(r) \in Attempts /\ RowsOK /\ MovesOK
    BY <1>14 DEF MarkRefunded, RowsOK, MovesOK
  <2>2. RowsOK'
    BY <1>14, <2>1, SetStatusType DEF MarkRefunded, RowsOK
  <2>3. MovesOK'
    BY <1>14, <2>1, MoveType DEF MarkRefunded, At
  <2> QED BY <1>14, <2>2, <2>3 DEF MarkRefunded, RowsOK, MovesOK
<1>15. ASSUME NEW r \in Requests, Lookup(r) PROVE TypeInv'
  BY <1>15 DEF Lookup, Goto, AfterReserve
<1>16. ASSUME NEW r \in Requests, Truth(r) PROVE TypeInv'
  BY <1>16 DEF Truth, Goto, End
<1>17. ASSUME NEW r \in Requests, Reserve(r) PROVE TypeInv'
  BY <1>17 DEF Reserve, Goto, AfterReserve
<1>18. ASSUME NEW r \in Requests, Referral(r) PROVE TypeInv'
  BY <1>18 DEF Referral, Goto
<1>19. ASSUME NEW r \in Requests, Convert(r) PROVE TypeInv'
  BY <1>19 DEF Convert, Goto
<1>20. ASSUME NEW r \in Requests, Sale(r) PROVE TypeInv'
  BY <1>20 DEF Sale, Goto, Hand, Topics
<1>21. ASSUME NEW r \in Requests, Dispatch(r) PROVE TypeInv'
  BY <1>21 DEF Dispatch, Goto, Hand, Topics
<1>22. ASSUME NEW r \in Requests, Notify(r) PROVE TypeInv'
  BY <1>22 DEF Notify, Goto, Hand, Topics
<1>23. ASSUME NEW r \in Requests, RecoverBoth(r) PROVE TypeInv'
  BY <1>23 DEF RecoverBoth, End, Hand, Topics
<1>24. ASSUME NEW r \in Requests, FlagRefund(r) PROVE TypeInv'
  BY <1>24 DEF FlagRefund, Goto, Flag, MergeCode
<1>25. ASSUME NEW r \in Requests, Reverse(r) PROVE TypeInv'
  BY <1>25 DEF Reverse, Goto
<1>26. ASSUME NEW r \in Requests, Reversal(r) PROVE TypeInv'
  BY <1>26 DEF Reversal, Goto, Hand, Topics
<1>27. ASSUME NEW r \in Requests, FlagException(r) PROVE TypeInv'
  BY <1>27 DEF FlagException, Goto, Flag, MergeCode
<1>28. ASSUME NEW r \in Requests, Answer(r) PROVE TypeInv'
  BY <1>28 DEF Answer, End
<1>29. ASSUME NEW r \in Requests, Crash(r) PROVE TypeInv'
  BY <1>29 DEF Crash, End
<1>30. CASE UNCHANGED vars
  BY <1>30 DEF vars
<1> QED BY <1>1, <1>2, <1>3, <1>4, <1>5, <1>6, <1>7, <1>8, <1>9, <1>10, <1>11, <1>12, <1>13,
           <1>14, <1>15, <1>16, <1>17, <1>18, <1>19, <1>20, <1>21, <1>22, <1>23, <1>24, <1>25,
           <1>26, <1>27, <1>28, <1>29, <1>30
        DEF Next, Provider, Start, Run, Verification, Decision, Finalization

-----------------------------------------------------------------------------
(* A request moves no other request.                                         *)
Alone(r) == \A q \in Requests \ {r} : step'[q] = step[q] /\ req'[q] = req[q]

(* What only grows: statuses never come back, rows, jobs and events stay.    *)
Grows(a) ==
  /\ status'[a] = "REDIRECTED" => status[a] = "REDIRECTED"
  /\ status'[a] = "PAID" => status[a] \in {"REDIRECTED", "PAID"}
  /\ status[a] \in Known => status'[a] \in Known
  /\ Captured(a) => Captured(a)'
  /\ charge[a] = "refunded" => charge'[a] = "refunded"
  /\ issue[a] # "NONE" => issue'[a] # "NONE"
  /\ conversion[a] # "NONE" => conversion'[a] # "NONE"

Growth == /\ \A a \in Attempts : Grows(a)
          /\ jobs \subseteq jobs' /\ recorded \subseteq recorded'
          /\ emitted \subseteq emitted'

(* A step of a request, whichever.                                           *)
Step(r) == \/ \E e \in unanswered : StartWebhook(r, e)
           \/ \E a \in Attempts : Start(r, a)
           \/ Run(r)
           \/ Crash(r)

(* Whatever its statement, a request moves only itself.                      *)
LEMMA StepAlone ==
  ASSUME TypeInv, NEW r \in Requests, Step(r)
  PROVE  Alone(r) /\ UNCHANGED <<charge, emitted>>
<1> USE DEF TypeInv, TypeOK, Alone, Goto, End, OnlyRequests, OnlyTable, Hand,
        dbVars, providerVars, history
<1>1. ASSUME NEW e \in unanswered, StartWebhook(r, e) PROVE Alone(r) /\ UNCHANGED <<charge, emitted>>
  BY <1>1 DEF StartWebhook
<1>2. ASSUME NEW a \in Attempts, Start(r, a) PROVE Alone(r) /\ UNCHANGED <<charge, emitted>>
  BY <1>2 DEF Start, StartReturn, StartRefundCheck, StartRecovery
<1>3. CASE Verification(r)
  BY <1>3 DEF Verification, Verify, VerifyReturn, VerifyRefund
<1>4. CASE Decision(r)
  BY <1>4 DEF Decision, Record, MarkPaid, MarkFailed, MarkRefunded
<1>5. CASE Finalization(r)
  BY <1>5 DEF Finalization, Lookup, Truth, Reserve, Referral, Convert, Sale, Dispatch, Notify,
              RecoverBoth, FlagRefund, Reverse, Reversal, FlagException
<1>6. CASE Answer(r) \/ Crash(r)
  BY <1>6 DEF Answer, Crash
<1> QED BY <1>1, <1>2, <1>3, <1>4, <1>5, <1>6 DEF Step, Run

(* Every step only adds: truth once known, rows, jobs and events stay.       *)
LEMMA NextGrowth == TypeInv /\ [Next]_vars => Growth
<1> SUFFICES ASSUME TypeInv, [Next]_vars PROVE Growth
  OBVIOUS
<1> USE DEF TypeInv, TypeOK, Growth, Grows, Known, Captured, OnlyRequests, OnlyTable,
        dbVars, providerVars, requestVars, history
<1>1. ASSUME NEW a \in Attempts, Provider(a) PROVE Growth
  BY <1>1 DEF Provider, Capture, Decline, Refund, Emit
<1>2. ASSUME NEW r \in Requests, NEW e \in unanswered, StartWebhook(r, e) PROVE Growth
  BY <1>2 DEF StartWebhook
<1>3. ASSUME NEW r \in Requests, NEW a \in Attempts, Start(r, a) PROVE Growth
  BY <1>3 DEF Start, StartReturn, StartRefundCheck, StartRecovery
<1>4. ASSUME NEW r \in Requests, Verification(r) PROVE Growth
  BY <1>4 DEF Verification, Verify, VerifyReturn, VerifyRefund, Goto, End
<1>5. ASSUME NEW r \in Requests, Decision(r) PROVE Growth
  <2> USE DEF SetStatus, Flag
  <2>1. CASE Record(r)
    BY <2>1 DEF Record
  <2>2. CASE MarkPaid(r)
    BY <2>2 DEF MarkPaid
  <2>3. CASE MarkFailed(r)
    BY <2>3 DEF MarkFailed, Failable
  <2>4. CASE MarkRefunded(r)
    BY <2>4 DEF MarkRefunded, Refundable
  <2> QED BY <1>5, <2>1, <2>2, <2>3, <2>4 DEF Decision
<1>6. ASSUME NEW r \in Requests, Finalization(r) PROVE Growth
  <2>1. CASE Lookup(r) \/ Truth(r) \/ Referral(r)
    BY <2>1 DEF Lookup, Truth, Referral
  <2>2. CASE Reserve(r) \/ Convert(r)
    BY <2>2 DEF Reserve, Convert
  <2>3. CASE Sale(r) \/ Dispatch(r) \/ Notify(r) \/ RecoverBoth(r) \/ Reversal(r)
    BY <2>3 DEF Sale, Dispatch, Notify, RecoverBoth, Reversal, Hand
  <2>4. CASE FlagRefund(r) \/ FlagException(r)
    BY <2>4 DEF FlagRefund, FlagException, Flag
  <2>5. CASE Reverse(r)
    BY <2>5 DEF Reverse
  <2> QED BY <1>6, <2>1, <2>2, <2>3, <2>4, <2>5 DEF Finalization
<1>7. ASSUME NEW r \in Requests, Answer(r) \/ Crash(r) PROVE Growth
  BY <1>7 DEF Answer, Crash
<1>8. CASE UNCHANGED vars
  BY <1>8 DEF vars
<1> QED BY <1>1, <1>2, <1>3, <1>4, <1>5, <1>6, <1>7, <1>8 DEF Next, Run

(* Every reachable state is well typed.                                      *)
THEOREM TypeCorrect == Spec => []TypeOK
<1>1. TypeInv => TypeOK BY DEF TypeInv
<1> QED BY <1>1, InitTypeInv, NextTypeInv, PTL DEF Spec

-----------------------------------------------------------------------------
(* The statements after the decision, and the ends of a request, leave the   *)
(* attempt and the provider alone and never lead back to a decision.         *)
LEMMA AfterDecision ==
  ASSUME TypeInv, NEW r \in Requests, Finalization(r) \/ Answer(r) \/ Crash(r)
  PROVE  /\ UNCHANGED <<status, charge, emitted, recorded>>
         /\ step'[r] \notin {"verify", "verifyReturn", "verifyRefund", "record", "mark"}
         /\ step'[r] # "idle" => req'[r] = req[r]
<1> USE DEF TypeInv, TypeOK, Goto, End, OnlyRequests, OnlyTable, Hand,
        dbVars, providerVars, history
<1>1. CASE Finalization(r)
  BY <1>1 DEF Finalization, Lookup, Truth, Reserve, Referral, Convert, Sale, Dispatch, Notify,
              RecoverBoth, FlagRefund, Reverse, Reversal, FlagException, AfterReserve
<1>2. CASE Answer(r) \/ Crash(r)
  BY <1>2 DEF Answer, Crash
<1> QED BY <1>1, <1>2

(* A verified check returns to the very event it was about.                  *)
LEMMA VerifyResult ==
  ASSUME TypeInv, NEW r \in Requests, Verify(r)
  PROVE  /\ step' = [step EXCEPT ![r] = "record"]
         /\ req'[r].event = req[r].event /\ req'[r].source = req[r].source
         /\ req'[r].exact = TrackerPaid(Att(r))
         /\ req'[r] \in Request
<1>1. PICK q \in Request : q = req[r]
  BY DEF Verify, At, TypeInv, TypeOK
<1>2. PICK b \in BOOLEAN : b = TrackerPaid(Att(r))
  BY DEF TrackerPaid
<1>3. req' = [req EXCEPT ![r] = [q EXCEPT !.exact = b]]
  BY <1>1, <1>2 DEF Verify
<1>4. /\ [q EXCEPT !.exact = b].source = q.source
      /\ [q EXCEPT !.exact = b].event = q.event
      /\ [q EXCEPT !.exact = b].exact = b
      /\ [q EXCEPT !.exact = b] \in Request
  BY DEF Request
<1>5. req'[r] = [q EXCEPT !.exact = b]
  BY <1>3 DEF TypeInv, TypeOK
<1> QED BY <1>1, <1>2, <1>4, <1>5 DEF Verify

(* No step writes a status the provider has not confirmed.                   *)
LEMMA NextTruthInv == TypeInv /\ TruthInv /\ [Next]_vars => TruthInv'
<1> SUFFICES ASSUME TypeInv, TruthInv, [Next]_vars PROVE TruthInv'
  OBVIOUS
<1>0. TypeInv' /\ Growth
  BY NextTypeInv, NextGrowth
<1> USE DEF TruthInv
<1>1. ASSUME NEW a \in Attempts, Provider(a) PROVE TruthInv'
  <2> USE DEF TypeInv, TypeOK, dbVars, requestVars, Captured
  <2>1. ProviderInv'
    <3> USE DEF ProviderInv
    <3>1. ASSUME NEW m \in Moneys, Capture(a, m) PROVE ProviderInv'
      <4>1. \A e \in emitted : e \in Event
        OBVIOUS
      <4>2. emitted' = emitted \cup {[attempt |-> a, state |-> "PAID", money |-> m]}
            /\ charge[a] = "open"
            /\ charge' = [charge EXCEPT ![a] = IF m = "wrong" THEN "mischarged" ELSE "captured"]
        BY <3>1 DEF Capture, Emit
      <4> QED BY <4>1, <4>2 DEF Event
    <3>2. CASE Decline(a)
      BY <3>2 DEF Decline, Emit
    <3>3. ASSUME NEW m \in Moneys, Refund(a, m) PROVE ProviderInv'
      <4>1. \A e \in emitted : e \in Event
        OBVIOUS
      <4>2. emitted' = emitted \cup {[attempt |-> a, state |-> "REFUNDED", money |-> m]}
            /\ charge[a] = "captured"
            /\ charge' = [charge EXCEPT ![a] = IF m = "wrong" THEN "partial" ELSE "refunded"]
        BY <3>3 DEF Refund, Emit
      <4> QED BY <4>1, <4>2 DEF Event
    <3> QED BY <1>1, <3>1, <3>2, <3>3 DEF Provider
  <2>2. ExactInv'
    <3>1. UNCHANGED <<step, req>>
      BY <1>1 DEF Provider, Capture, Decline, Refund
    <3>2. \A b \in Attempts :
            /\ Captured(b) => Captured(b)'
            /\ charge[b] = "refunded" => charge'[b] = "refunded"
      BY <1>0 DEF Growth, Grows
    <3>3. \A r \in Requests : step[r] \in {"record", "mark"} => Att(r) \in Attempts
      BY DEF Att, Request, Event
    <3> HIDE DEF TypeInv, TypeOK
    <3> QED BY <3>1, <3>2, <3>3 DEF ExactInv, Att
  <2>3. StatusIsProviderTruth'
    BY <1>0, <1>1 DEF Provider, Capture, Decline, Refund, StatusIsProviderTruth, Growth, Grows
  <2> QED BY <2>1, <2>2, <2>3
<1>2. ASSUME NEW r \in Requests, Step(r) PROVE TruthInv'
  <2>0. Alone(r) /\ UNCHANGED <<charge, emitted>>
    BY <1>2, StepAlone
  <2>1. ProviderInv'
    BY <2>0 DEF ProviderInv, Captured
  <2>2. ASSUME step'[r] \in {"record", "mark"} /\ req'[r].exact
        PROVE  /\ req'[r].event.state = "PAID" => Captured(req'[r].event.attempt)
               /\ req'[r].event.state = "REFUNDED" => charge[req'[r].event.attempt] = "refunded"
    <3>1. CASE Finalization(r) \/ Answer(r) \/ Crash(r)
      BY <3>1, <2>2, AfterDecision
    <3>2. ASSUME NEW e \in unanswered, StartWebhook(r, e) PROVE <2>2!2
      BY <2>2, <3>2 DEF StartWebhook, ProviderInv, TypeInv, TypeOK
    <3>3. ASSUME NEW a \in Attempts, Start(r, a) PROVE FALSE
      BY <2>2, <3>3 DEF Start, StartReturn, StartRefundCheck, StartRecovery, TypeInv, TypeOK
    <3>4. CASE Verify(r)
      BY <1>0, <2>2, <3>4, VerifyResult
         DEF Verify, At, Att, TrackerPaid, Captured, TypeInv, RequestOK, PaidSteps
    <3>5. CASE VerifyReturn(r) \/ VerifyRefund(r)
      BY <2>2, <3>5 DEF VerifyReturn, VerifyRefund, Goto, End, At, Att, TrackerPaid, TrackerRefunded,
                  Captured, TypeInv, TypeOK, RequestOK, PaidSteps, RefundSteps
    <3>6. CASE Record(r)
      BY <2>2, <3>6 DEF Record, Goto, At, Att, ExactInv, TypeInv, TypeOK
    <3>7. CASE MarkPaid(r) \/ MarkFailed(r) \/ MarkRefunded(r)
      BY <2>2, <3>7 DEF MarkPaid, MarkFailed, MarkRefunded, Goto, End, OnDuplicate, TypeInv, TypeOK
    <3> QED BY <1>2, <3>1, <3>2, <3>3, <3>4, <3>5, <3>6, <3>7
            DEF Step, Run, Verification, Decision
  <2>3. ExactInv'
    BY <2>0, <2>2 DEF ExactInv, Att, Alone, Captured
  <2>4. ASSUME NEW a \in Attempts
        PROVE  /\ status'[a] = "PAID" => Captured(a)
               /\ status'[a] = "REFUNDED" => charge[a] = "refunded"
    <3> USE DEF StatusIsProviderTruth
    <3>1. CASE UNCHANGED status
      BY <3>1
    <3>2. CASE Record(r)
      BY <3>2 DEF Record, SetStatus, TypeInv, TypeOK
    <3>3. CASE MarkPaid(r)
      BY <3>3 DEF MarkPaid, SetStatus, ExactInv, At, Att, TypeInv, TypeOK
    <3>4. CASE MarkFailed(r)
      BY <3>4 DEF MarkFailed, SetStatus, TypeInv, TypeOK
    <3>5. CASE MarkRefunded(r)
      BY <3>5 DEF MarkRefunded, Refundable, SetStatus, ExactInv, At, Att, TypeInv, TypeOK
    <3>6. CASE Finalization(r) \/ Answer(r) \/ Crash(r)
      BY <3>1, <3>6, AfterDecision
    <3>7. ASSUME NEW e \in unanswered, StartWebhook(r, e) PROVE UNCHANGED status
      BY <3>7 DEF StartWebhook, OnlyRequests, dbVars
    <3>8. ASSUME NEW b \in Attempts, Start(r, b) PROVE UNCHANGED status
      BY <3>8 DEF Start, StartReturn, StartRefundCheck, StartRecovery, OnlyRequests, dbVars
    <3>9. CASE Verification(r)
      BY <3>1, <3>9 DEF Verification, Verify, VerifyReturn, VerifyRefund, OnlyRequests, dbVars
    <3> QED BY <1>2, <3>1, <3>2, <3>3, <3>4, <3>5, <3>6, <3>7, <3>8, <3>9
            DEF Step, Run, Decision
  <2>5. StatusIsProviderTruth'
    BY <2>0, <2>4 DEF StatusIsProviderTruth, Captured
  <2> QED BY <2>1, <2>3, <2>5
<1>3. CASE UNCHANGED vars
  BY <1>3 DEF vars, dbVars, providerVars, requestVars, ProviderInv, ExactInv,
              StatusIsProviderTruth, Captured, Att
<1> QED BY <1>1, <1>2, <1>3 DEF Next, Step

(* PAID only for money that was captured whole, REFUNDED only for all of it  *)
(* given back, whatever events come twice, late, partial or converted.       *)
THEOREM StatusIsProviderTruthHolds == Spec => []StatusIsProviderTruth
<1>1. Init => TruthInv
  BY DEF Init, TruthInv, ProviderInv, ExactInv, StatusIsProviderTruth
<1>2. TruthInv => StatusIsProviderTruth
  BY DEF TruthInv
<1> QED BY <1>1, <1>2, InitTypeInv, NextTypeInv, NextTruthInv, PTL DEF Spec

-----------------------------------------------------------------------------
(* The attempt and the rows of a request that is not idle are in the tables. *)
LEMMA AttType ==
  ASSUME TypeInv, NEW r \in Requests, step[r] # "idle"
  PROVE  Att(r) \in Attempts /\ req[r] \in Request /\ req[r].event \in Event
BY DEF TypeInv, TypeOK, Att, Request, Event

(* A request about to insert a row has read PAID on its way there.           *)
LEMMA NextReadInv == TypeInv /\ TruthInv /\ ReadInv /\ [Next]_vars => ReadInv'
<1> SUFFICES ASSUME TypeInv, TruthInv, ReadInv, [Next]_vars PROVE ReadInv'
  OBVIOUS
<1>0. TypeInv' /\ Growth
  BY NextTypeInv, NextGrowth
<1>1. ASSUME NEW r \in Requests, step'[r] \in {"reserve", "convert"},
             req'[r] = req[r], step[r] # "idle",
             step[r] \in {"reserve", "convert"} \/ status[Att(r)] = "PAID"
      PROVE  Read(r)'
  <2>1. PICK a \in Attempts : a = Att(r)
    BY <1>1, AttType
  <2>2. Captured(a) /\ status[a] \in Known
    BY <1>1, <2>1 DEF ReadInv, Read, TruthInv, StatusIsProviderTruth, Known
  <2>3. Captured(a)' /\ status'[a] \in Known
    BY <1>0, <2>2 DEF Growth, Grows
  <2>4. Att(r)' = a
    BY <1>1, <2>1 DEF Att
  <2> QED BY <2>3, <2>4 DEF Read, Captured
<1>2. ASSUME NEW a \in Attempts, Provider(a) PROVE UNCHANGED <<step, req>>
  BY <1>2 DEF Provider, Capture, Decline, Refund, requestVars
<1>3. ASSUME NEW r \in Requests, Step(r), step'[r] \in {"reserve", "convert"}
      PROVE  req'[r] = req[r] /\ step[r] # "idle" /\ status[Att(r)] = "PAID"
  <2> USE <1>3 DEF TypeInv, TypeOK, Goto, End, At
  <2>1. CASE Truth(r) \/ Referral(r)
    BY <2>1 DEF Truth, Referral, PaidTruth
  <2>2. CASE Lookup(r) \/ Reserve(r) \/ Convert(r) \/ Sale(r) \/ Dispatch(r) \/ Notify(r)
             \/ RecoverBoth(r) \/ FlagRefund(r) \/ Reverse(r) \/ Reversal(r) \/ FlagException(r)
    BY <2>2 DEF Lookup, Reserve, Convert, Sale, Dispatch, Notify, RecoverBoth,
                FlagRefund, Reverse, Reversal, FlagException, AfterReserve
  <2>3. CASE Answer(r) \/ Crash(r)
    BY <2>3 DEF Answer, Crash
  <2>4. CASE Verification(r)
    BY <2>4 DEF Verification, Verify, VerifyReturn, VerifyRefund
  <2>5. CASE Decision(r)
    BY <2>5 DEF Decision, Record, MarkPaid, MarkFailed, MarkRefunded, OnDuplicate
  <2>6. ASSUME NEW e \in unanswered, StartWebhook(r, e) PROVE FALSE
    BY <2>6 DEF StartWebhook
  <2>7. ASSUME NEW a \in Attempts, Start(r, a) PROVE FALSE
    BY <2>7 DEF Start, StartReturn, StartRefundCheck, StartRecovery
  <2> QED BY <2>1, <2>2, <2>3, <2>4, <2>5, <2>6, <2>7 DEF Step, Run, Finalization
<1>4. ASSUME NEW r \in Requests, step'[r] \in {"reserve", "convert"}
      PROVE  Read(r)'
  <2>1. ASSUME NEW q \in Requests, Step(q) PROVE Read(r)'
    <3>1. CASE q = r
      BY <1>1, <1>3, <1>4, <2>1, <3>1
    <3>2. CASE q # r
      BY <1>1, <1>4, <2>1, <3>2, StepAlone DEF Alone
    <3> QED BY <3>1, <3>2
  <2>2. CASE UNCHANGED vars
    BY <1>1, <1>4, <2>2 DEF vars, requestVars
  <2>3. ASSUME NEW a \in Attempts, Provider(a) PROVE Read(r)'
    BY <1>1, <1>2, <1>4, <2>3
  <2> QED BY <2>1, <2>2, <2>3 DEF Next, Step
<1> QED BY <1>4 DEF ReadInv

(* Only reserve and createConversion make a row.                             *)
LEMMA NewRow ==
  ASSUME TypeInv, [Next]_vars, NEW a \in Attempts,
         issue[a] = "NONE" /\ conversion[a] = "NONE",
         issue'[a] # "NONE" \/ conversion'[a] # "NONE"
  PROVE  \E r \in Requests : step[r] \in {"reserve", "convert"} /\ Att(r) = a
<1> USE DEF TypeInv, TypeOK, OnlyRequests, dbVars, At
<1>1. ASSUME NEW b \in Attempts, Provider(b) PROVE FALSE
  BY <1>1 DEF Provider, Capture, Decline, Refund
<1>2. ASSUME NEW r \in Requests, NEW e \in unanswered, StartWebhook(r, e) PROVE FALSE
  BY <1>2 DEF StartWebhook
<1>3. ASSUME NEW r \in Requests, NEW b \in Attempts, Start(r, b) PROVE FALSE
  BY <1>3 DEF Start, StartReturn, StartRefundCheck, StartRecovery
<1>4. ASSUME NEW r \in Requests, Verification(r) PROVE FALSE
  BY <1>4 DEF Verification, Verify, VerifyReturn, VerifyRefund
<1>5. ASSUME NEW r \in Requests, Decision(r) PROVE FALSE
  BY <1>5 DEF Decision, Record, MarkPaid, MarkFailed, MarkRefunded, SetStatus, Flag
<1>6. ASSUME NEW r \in Requests, Reserve(r) \/ Convert(r)
      PROVE  step[r] \in {"reserve", "convert"} /\ Att(r) = a
  BY <1>6 DEF Reserve, Convert
<1>7. ASSUME NEW r \in Requests,
             \/ Lookup(r) \/ Truth(r) \/ Referral(r) \/ Sale(r) \/ Dispatch(r)
             \/ Notify(r) \/ RecoverBoth(r) \/ FlagRefund(r) \/ Reverse(r)
             \/ Reversal(r) \/ FlagException(r) \/ Answer(r) \/ Crash(r)
      PROVE  FALSE
  BY <1>7 DEF Lookup, Truth, Referral, Sale, Dispatch, Notify, RecoverBoth, FlagRefund, Reverse,
              Reversal, FlagException, Answer, Crash, Hand, Flag
<1>8. CASE UNCHANGED vars
  BY <1>8 DEF vars
<1> QED BY <1>1, <1>2, <1>3, <1>4, <1>5, <1>6, <1>7, <1>8 DEF Next, Run, Finalization

(* An Issue and a reward exist only for money that was captured.             *)
THEOREM IssueFromPaidTruthHolds == Spec => []IssueFromPaidTruth
<1>1. Init => TruthInv /\ ReadInv /\ IssueFromPaidTruth
  BY DEF Init, TruthInv, ProviderInv, ExactInv, StatusIsProviderTruth, ReadInv, IssueFromPaidTruth
<1>2. TypeInv /\ TruthInv /\ ReadInv /\ IssueFromPaidTruth /\ [Next]_vars => IssueFromPaidTruth'
  <2> SUFFICES ASSUME TypeInv, ReadInv, IssueFromPaidTruth, [Next]_vars
               PROVE  IssueFromPaidTruth'
    OBVIOUS
  <2>1. ASSUME NEW a \in Attempts, issue'[a] # "NONE" \/ conversion'[a] # "NONE"
        PROVE  Captured(a) /\ status[a] \in Known
    <3>1. CASE issue[a] # "NONE" \/ conversion[a] # "NONE"
      BY <3>1 DEF IssueFromPaidTruth, Known
    <3>2. CASE issue[a] = "NONE" /\ conversion[a] = "NONE"
      <4>1. PICK r \in Requests : step[r] \in {"reserve", "convert"} /\ Att(r) = a
        BY <2>1, <3>2, NewRow
      <4> QED BY <4>1 DEF ReadInv, Read
    <3> QED BY <3>1, <3>2
  <2>2. Growth
    BY NextGrowth
  <2> QED BY <2>1, <2>2 DEF Growth, Grows, IssueFromPaidTruth, Captured, Known
<1> QED BY <1>1, <1>2, InitTypeInv, NextTypeInv, NextTruthInv, NextReadInv, PTL DEF Spec

-----------------------------------------------------------------------------
(* A statement that lands on an exceptional status takes the Issue with it.  *)
LEMMA SetStatusStops ==
  ASSUME TypeInv, ExceptionStopsIssue, NEW a \in Attempts, NEW s \in Statuses, SetStatus(a, s),
         UNCHANGED lateIssue
  PROVE  ExceptionStopsIssue'
BY DEF TypeInv, TypeOK, ExceptionStopsIssue, SetStatus, Flag, MergeCode, Statuses

(* So does writing the overlay without a status.                             *)
LEMMA FlagStops ==
  ASSUME TypeInv, ExceptionStopsIssue, NEW a \in Attempts,
         NEW c \in {"PAYMENT_REFUNDED", "PAYMENT_EXCEPTION"}, Flag(a, c),
         UNCHANGED <<status, lateIssue>>
  PROVE  ExceptionStopsIssue'
BY DEF TypeInv, TypeOK, ExceptionStopsIssue, Flag, MergeCode

(* A refunded or exceptional payment stops its Issue in the same statement;  *)
(* only an Issue reserved after that on earlier truth escapes.               *)
THEOREM ExceptionStopsIssueHolds == Spec => []ExceptionStopsIssue
<1>1. Init => ExceptionStopsIssue
  BY DEF Init, ExceptionStopsIssue
<1>2. TypeInv /\ ExceptionStopsIssue /\ [Next]_vars => ExceptionStopsIssue'
  <2> SUFFICES ASSUME TypeInv, ExceptionStopsIssue, [Next]_vars PROVE ExceptionStopsIssue'
    OBVIOUS
  <2>1. CASE UNCHANGED <<status, issue, code, lateIssue>>
    BY <2>1 DEF ExceptionStopsIssue
  <2> USE DEF OnlyRequests, OnlyTable, dbVars, history
  <2>2. ASSUME NEW a \in Attempts, Provider(a) PROVE ExceptionStopsIssue'
    BY <2>1, <2>2 DEF Provider, Capture, Decline, Refund
  <2>3. ASSUME NEW r \in Requests, NEW e \in unanswered, StartWebhook(r, e)
        PROVE  ExceptionStopsIssue'
    BY <2>1, <2>3 DEF StartWebhook
  <2>4. ASSUME NEW r \in Requests, NEW a \in Attempts, Start(r, a) PROVE ExceptionStopsIssue'
    BY <2>1, <2>4 DEF Start, StartReturn, StartRefundCheck, StartRecovery
  <2>5. ASSUME NEW r \in Requests, Verification(r) PROVE ExceptionStopsIssue'
    BY <2>1, <2>5 DEF Verification, Verify, VerifyReturn, VerifyRefund
  <2>6. ASSUME NEW r \in Requests, Decision(r) PROVE ExceptionStopsIssue'
    <3>1. Att(r) \in Attempts
      BY <2>6, AttType DEF Decision, Record, MarkPaid, MarkFailed, MarkRefunded, At
    <3>2. status[Att(r)] \in Statuses
      BY <3>1 DEF TypeInv, TypeOK
    <3> USE <2>1, <3>1, <3>2, SetStatusStops DEF Statuses
    <3>3. CASE Record(r)
      BY <3>3 DEF Record
    <3>4. CASE MarkPaid(r)
      BY <3>4 DEF MarkPaid
    <3>5. CASE MarkFailed(r)
      BY <3>5 DEF MarkFailed
    <3>6. CASE MarkRefunded(r)
      BY <3>6 DEF MarkRefunded
    <3> QED BY <2>6, <3>3, <3>4, <3>5, <3>6 DEF Decision
  <2>7. ASSUME NEW r \in Requests, Reserve(r) PROVE ExceptionStopsIssue'
    <3>1. Att(r) \in Attempts
      BY <2>7, AttType DEF Reserve, At
    <3> QED BY <2>7, <3>1 DEF Reserve, ExceptionStopsIssue, TypeInv, TypeOK
  <2>8. ASSUME NEW r \in Requests, FlagRefund(r) \/ FlagException(r) PROVE ExceptionStopsIssue'
    <3>1. Att(r) \in Attempts
      BY <2>8, AttType DEF FlagRefund, FlagException, At
    <3> QED BY <2>8, <3>1, FlagStops DEF FlagRefund, FlagException
  <2>9. ASSUME NEW r \in Requests,
               \/ Lookup(r) \/ Truth(r) \/ Referral(r) \/ Convert(r) \/ Sale(r)
               \/ Dispatch(r) \/ Notify(r) \/ RecoverBoth(r) \/ Reverse(r) \/ Reversal(r)
               \/ Answer(r) \/ Crash(r)
        PROVE  ExceptionStopsIssue'
    BY <2>1, <2>9 DEF Lookup, Truth, Referral, Convert, Sale, Dispatch, Notify, RecoverBoth,
                      Reverse, Reversal, Answer, Crash, Hand
  <2>10. CASE UNCHANGED vars
    BY <2>1, <2>10 DEF vars
  <2> QED BY <2>2, <2>3, <2>4, <2>5, <2>6, <2>7, <2>8, <2>9, <2>10 DEF Next, Run, Finalization
<1> QED BY <1>1, <1>2, InitTypeInv, NextTypeInv, PTL DEF Spec

-----------------------------------------------------------------------------
(* What is done for a payment stays done.                                    *)
LEMMA FinalStable ==
  ASSUME Growth, NEW a \in Attempts, status[a] # "REDIRECTED"
  PROVE  /\ status'[a] # "REDIRECTED"
         /\ Converted(a) => Converted(a)'
         /\ Final(a) => Final(a)'
<1>1. Grows(a) /\ jobs \subseteq jobs'
  BY DEF Growth
<1>2. /\ status'[a] # "REDIRECTED"
      /\ status'[a] = "PAID" => status[a] = "PAID"
      /\ issue[a] # "NONE" => issue'[a] # "NONE"
      /\ conversion[a] # "NONE" => conversion'[a] # "NONE"
  BY <1>1 DEF Grows
<1>3. Has(a, {"SALE"}) => Has(a, {"SALE"})'
  BY <1>1 DEF Has
<1>4. Has(a, {"DESIGN", "PAYMENT_RECEIVED"}) => Has(a, {"DESIGN", "PAYMENT_RECEIVED"})'
  BY <1>1 DEF Has
<1> QED BY <1>2, <1>3, <1>4 DEF Converted, Final

(* Other requests do not disturb what a webhook has done.                    *)
LEMMA DoneStable ==
  ASSUME TypeInv, Growth, NEW r \in Requests, step[r] # "idle", Done(r),
         step'[r] = step[r], req'[r] = req[r]
  PROVE  Done(r)'
<1>1. PICK a \in Attempts : a = Att(r)
  BY AttType
<1>2. Att(r)' = a
  BY <1>1 DEF Att
<1>3. Grows(a) /\ jobs \subseteq jobs'
  BY DEF Growth
<1>4. Has(a, {"DESIGN"}) => Has(a, {"DESIGN"})'
  BY <1>3 DEF Has
<1>5. status[a] # "REDIRECTED" => /\ status'[a] # "REDIRECTED"
                                  /\ Converted(a) => Converted(a)'
                                  /\ Final(a) => Final(a)'
  BY FinalStable
<1> QED BY <1>1, <1>2, <1>3, <1>4, <1>5 DEF Done, Grows

(* Each statement of a webhook leaves behind what the next relies on.        *)
LEMMA StepDone ==
  ASSUME TypeInv, Growth, NEW r \in Requests, step[r] # "idle" => Done(r),
         Step(r), step'[r] # "idle"
  PROVE  Done(r)'
<1> USE DEF OnlyRequests, OnlyTable, dbVars, history
<1>1. ASSUME NEW e \in unanswered, StartWebhook(r, e) PROVE Done(r)'
  BY <1>1 DEF StartWebhook, Done, TypeInv, TypeOK
<1>2. ASSUME NEW a \in Attempts, Start(r, a) PROVE Done(r)'
  BY <1>2 DEF Start, StartReturn, StartRefundCheck, StartRecovery, Done, TypeInv, TypeOK
<1>3. CASE Verification(r)
  <2>1. CASE Verify(r)
    BY <2>1 DEF Verify, Done, TypeInv, TypeOK
  <2>2. CASE VerifyReturn(r) \/ VerifyRefund(r)
    <3>1. step'[r] = "mark"
      BY <2>2 DEF VerifyReturn, VerifyRefund, Goto, End, TypeInv, TypeOK
    <3> QED BY <3>1 DEF Done
  <2> QED BY <1>3, <2>1, <2>2 DEF Verification
<1>4. CASE Record(r)
  BY <1>4 DEF Record, Goto, Done, TypeInv, TypeOK
<1>5. CASE \/ MarkPaid(r) \/ MarkFailed(r) \/ MarkRefunded(r)
           \/ Finalization(r) \/ Answer(r) \/ Crash(r)
  <2>0. step[r] # "idle" /\ req' = req
    <3> USE DEF Goto, End, At, Hand, TypeInv, TypeOK
    <3>1. CASE MarkPaid(r) \/ MarkFailed(r) \/ MarkRefunded(r)
      BY <3>1 DEF MarkPaid, MarkFailed, MarkRefunded
    <3>2. CASE Finalization(r)
      BY <3>2 DEF Finalization, Lookup, Truth, Reserve, Referral, Convert, Sale, Dispatch, Notify,
                  RecoverBoth, FlagRefund, Reverse, Reversal, FlagException
    <3>3. CASE Answer(r) \/ Crash(r)
      BY <3>3 DEF Answer, Crash
    <3> QED BY <1>5, <3>1, <3>2, <3>3
  <2>1. PICK a \in Attempts : a = Att(r)
    BY <2>0, AttType
  <2>2. Att(r)' = a /\ req'[r] = req[r] /\ Done(r)
    BY <2>0, <2>1 DEF Att
  <2>3. /\ Grows(a) /\ jobs \subseteq jobs'
        /\ status[a] # "REDIRECTED" => /\ status'[a] # "REDIRECTED"
                                       /\ Converted(a) => Converted(a)'
                                       /\ Final(a) => Final(a)'
    BY FinalStable DEF Growth
  <2>4. CASE MarkPaid(r)
    BY <2>1, <2>2, <2>4
       DEF MarkPaid, SetStatus, Goto, End, OnDuplicate, Done, TypeInv, TypeOK
  <2>5. CASE MarkFailed(r) \/ MarkRefunded(r)
    BY <2>2, <2>5 DEF MarkFailed, MarkRefunded, Done
  <2>6. CASE Lookup(r) \/ Truth(r) \/ Reserve(r)
    BY <2>1, <2>2, <2>6
       DEF Lookup, Truth, Reserve, AfterReserve, At, Goto, End, Done, TypeInv, TypeOK
  <2>7. CASE Referral(r)
    BY <2>1, <2>2, <2>7 DEF Referral, At, Goto, Done, Converted, TypeInv, TypeOK
  <2>8. CASE Convert(r)
    BY <2>1, <2>2, <2>8 DEF Convert, At, Goto, Done, TypeInv, TypeOK
  <2>9. CASE Sale(r)
    BY <2>1, <2>2, <2>9 DEF Sale, At, Goto, Hand, Has, Done, Converted, TypeInv, TypeOK
  <2>10. CASE Dispatch(r)
    BY <2>1, <2>2, <2>3, <2>10 DEF Dispatch, At, Goto, Hand, Has, Done, TypeInv, TypeOK
  <2>11. CASE Notify(r)
    BY <2>1, <2>2, <2>11 DEF Notify, At, Goto, Hand, Has, Done, Final, Converted, TypeInv, TypeOK
  <2>12. CASE RecoverBoth(r) \/ Answer(r) \/ Crash(r)
    BY <2>0, <2>12 DEF RecoverBoth, Answer, Crash, End, TypeInv, TypeOK
  <2>13. CASE FlagRefund(r) \/ Reverse(r) \/ Reversal(r)
    BY <2>0, <2>2, <2>13 DEF FlagRefund, Reverse, Reversal, At, Done, TypeInv, RequestOK, RefundSteps
  <2>14. CASE FlagException(r)
    BY <2>1, <2>2, <2>14 DEF FlagException, At, Goto, Done, Final, TypeInv, TypeOK
  <2> QED BY <1>5, <2>4, <2>5, <2>6, <2>7, <2>8, <2>9, <2>10, <2>11, <2>12, <2>13, <2>14
          DEF Finalization
<1> QED BY <1>1, <1>2, <1>3, <1>4, <1>5 DEF Step, Run, Decision

(* No step, of whichever request, undoes what a webhook has done.            *)
LEMMA NextDoneInv == TypeInv /\ DoneInv /\ [Next]_vars => DoneInv'
<1> SUFFICES ASSUME TypeInv, DoneInv, [Next]_vars, NEW r \in Requests, step'[r] # "idle"
             PROVE  Done(r)'
  BY DEF DoneInv
<1>1. Growth
  BY NextGrowth
<1>2. CASE step'[r] = step[r] /\ req'[r] = req[r]
  BY <1>1, <1>2, DoneStable DEF DoneInv
<1>3. ASSUME NEW q \in Requests, Step(q) PROVE Done(r)'
  <2>1. CASE q = r
    BY <1>1, <1>3, <2>1, StepDone DEF DoneInv
  <2>2. CASE q # r
    BY <1>2, <1>3, <2>2, StepAlone DEF Alone
  <2> QED BY <2>1, <2>2
<1>4. ASSUME NEW a \in Attempts, Provider(a) PROVE UNCHANGED <<step, req>>
  BY <1>4 DEF Provider, Capture, Decline, Refund, requestVars
<1>5. CASE UNCHANGED vars
  BY <1>2, <1>5 DEF vars, requestVars
<1> QED BY <1>2, <1>3, <1>4, <1>5 DEF Next, Step

(* An event leaves the redelivery only when a webhook answers it.            *)
LEMMA NextAnswered ==
  ASSUME TypeInv, [Next]_vars, NEW e \in emitted' \ unanswered', e \notin emitted \ unanswered
  PROVE  \E r \in Requests : /\ step[r] = "answer" /\ req[r].source = "webhook"
                             /\ req[r].event = e
<1> USE DEF OnlyRequests, OnlyTable, Hand, dbVars, providerVars, history
<1>1. ASSUME NEW a \in Attempts, Provider(a) PROVE FALSE
  BY <1>1 DEF Provider, Capture, Decline, Refund, Emit
<1>2. ASSUME NEW r \in Requests, Answer(r)
      PROVE  step[r] = "answer" /\ req[r].source = "webhook" /\ req[r].event = e
  BY <1>2 DEF Answer, At
<1>3. ASSUME NEW r \in Requests, NEW f \in unanswered, StartWebhook(r, f) PROVE FALSE
  BY <1>3 DEF StartWebhook
<1>4. ASSUME NEW r \in Requests, NEW a \in Attempts, Start(r, a) PROVE FALSE
  BY <1>4 DEF Start, StartReturn, StartRefundCheck, StartRecovery
<1>5. ASSUME NEW r \in Requests, Verification(r) \/ Crash(r) PROVE FALSE
  BY <1>5 DEF Verification, Verify, VerifyReturn, VerifyRefund, Crash
<1>6. ASSUME NEW r \in Requests, Decision(r) PROVE FALSE
  BY <1>6 DEF Decision, Record, MarkPaid, MarkFailed, MarkRefunded
<1>7. ASSUME NEW r \in Requests, Finalization(r) PROVE FALSE
  BY <1>7 DEF Finalization, Lookup, Truth, Reserve, Referral, Convert, Sale, Dispatch, Notify,
              RecoverBoth, FlagRefund, Reverse, Reversal, FlagException
<1>8. CASE UNCHANGED vars
  BY <1>8 DEF vars
<1> QED BY <1>1, <1>2, <1>3, <1>4, <1>5, <1>6, <1>7, <1>8 DEF Next, Run

(* What is answered was final and stays final.                               *)
LEMMA NextAnswerInv == TypeInv /\ DoneInv /\ AnswerInv /\ [Next]_vars => AnswerInv'
<1> SUFFICES ASSUME TypeInv, DoneInv, AnswerInv, [Next]_vars,
                    NEW e \in emitted' \ unanswered', e.state = "PAID"
             PROVE  status'[e.attempt] # "REDIRECTED" /\ Final(e.attempt)'
  BY DEF AnswerInv
<1>1. Growth
  BY NextGrowth
<1>2. PICK a \in Attempts : a = e.attempt
  BY NextTypeInv DEF TypeInv, TypeOK, Event
<1>3. status[a] # "REDIRECTED" /\ Final(a)
  <2>1. CASE e \in emitted \ unanswered
    BY <1>2, <2>1 DEF AnswerInv
  <2>2. CASE e \notin emitted \ unanswered
    <3>1. PICK r \in Requests : /\ step[r] = "answer" /\ req[r].source = "webhook"
                                /\ req[r].event = e
      BY <2>2, NextAnswered
    <3> QED BY <1>2, <3>1 DEF DoneInv, Done, Att
  <2> QED BY <2>1, <2>2
<1>4. status'[a] # "REDIRECTED" /\ Final(a)'
  BY <1>1, <1>3, FinalStable
<1> QED BY <1>2, <1>4

AnswerBase == TypeInv /\ DoneInv /\ AnswerInv

(* The invariant behind the redelivery.                                      *)
LEMMA SpecAnswers == Spec => []AnswerBase
<1>1. Init => AnswerBase
  BY InitTypeInv DEF Init, AnswerBase, DoneInv, AnswerInv
<1>2. AnswerBase /\ [Next]_vars => AnswerBase'
  BY NextTypeInv, NextDoneInv, NextAnswerInv DEF AnswerBase
<1> QED BY <1>1, <1>2, PTL DEF Spec

(* The provider stops redelivering a payment only when its Issue, its design *)
(* work, its receipt and its referral are there: nothing else would finish.  *)
THEOREM AnsweredPaymentIsFinalHolds == Spec => []AnsweredPaymentIsFinal
<1>1. AnswerBase => AnsweredPaymentIsFinal
  BY DEF AnswerBase, AnswerInv, AnsweredPaymentIsFinal, Answered, Final
<1> QED BY <1>1, SpecAnswers, PTL

-----------------------------------------------------------------------------
(* FAILED is only ever written on the word of a recorded decline.            *)
LEMMA NextFailInv == TypeInv /\ FailInv /\ [Next]_vars => FailInv'
<1> SUFFICES ASSUME TypeInv, FailInv, [Next]_vars PROVE FailInv'
  OBVIOUS
<1>0. Growth
  BY NextGrowth
<1>1. ASSUME NEW a \in Attempts, Provider(a) PROVE FailInv'
  <2>1. UNCHANGED <<step, req, recorded, status>>
    BY <1>1 DEF Provider, Capture, Decline, Refund, dbVars, requestVars
  <2>2. \A e \in emitted' : e.state = "FAILED" => e = Declined(e.attempt)
    BY <1>1 DEF Provider, Capture, Decline, Refund, Emit, Declined, FailInv
  <2> QED BY <2>1, <2>2 DEF FailInv, Att
<1>2. ASSUME NEW r \in Requests, Step(r) PROVE FailInv'
  <2>0. Alone(r) /\ UNCHANGED <<charge, emitted>>
    BY <1>2, StepAlone
  <2> DEFINE Goal ==
         /\ (step'[r] = "mark" /\ req'[r].event.state = "FAILED") =>
              req'[r].event = Declined(req'[r].event.attempt) /\ req'[r].event \in recorded'
         /\ (step'[r] # "idle" /\ req'[r].event.state = "FAILED") => req'[r].source = "webhook"
         /\ \A a \in Attempts :
              status'[a] = "FAILED" => status[a] = "FAILED" \/ Declined(a) \in recorded
  <2>1. Goal
    <3> USE DEF OnlyRequests, OnlyTable, dbVars, history
    <3>1. CASE Finalization(r) \/ Answer(r) \/ Crash(r)
      <4>1. step[r] # "idle"
        BY <3>1 DEF Finalization, Lookup, Truth, Reserve, Referral, Convert, Sale, Dispatch, Notify,
              RecoverBoth, FlagRefund, Reverse, Reversal, FlagException, Answer, Crash, At
      <4> QED BY <3>1, <4>1, AfterDecision DEF FailInv
    <3>2. ASSUME NEW e \in unanswered, StartWebhook(r, e) PROVE Goal
      BY <3>2 DEF StartWebhook, TypeInv, TypeOK
    <3>3. ASSUME NEW a \in Attempts, Start(r, a) PROVE Goal
      BY <3>3 DEF Start, StartReturn, StartRefundCheck, StartRecovery, TypeInv, TypeOK
    <3>4. CASE Verify(r)
      <4>1. UNCHANGED status /\ At(r, "verify")
        BY <3>4 DEF Verify
      <4>2. req[r].event.state = "PAID"
        BY <4>1 DEF At, TypeInv, RequestOK, PaidSteps
      <4> QED BY <3>4, <4>1, <4>2, VerifyResult
    <3>5. CASE VerifyReturn(r) \/ VerifyRefund(r)
      BY <3>5 DEF VerifyReturn, VerifyRefund, Goto, End, At,
                  TypeInv, TypeOK, RequestOK, PaidSteps, RefundSteps
    <3>6. CASE Record(r)
      <4>1. req'[r] = req[r] /\ req[r].event \in recorded' /\ step[r] = "record"
        BY <3>6 DEF Record, Goto, At
      <4>2. \A a \in Attempts : status'[a] = "FAILED" => status[a] = "FAILED"
        BY <3>6 DEF Record, SetStatus, TypeInv, TypeOK
      <4>3. req[r].event.state = "FAILED" => req[r].source = "webhook" /\ req[r].event \in emitted
        BY <4>1 DEF FailInv, TypeInv, RequestOK
      <4> QED BY <4>1, <4>2, <4>3 DEF FailInv
    <3>7. CASE MarkPaid(r) \/ MarkRefunded(r)
      BY <3>7 DEF MarkPaid, MarkRefunded, SetStatus, At, Goto, End, TypeInv, TypeOK
    <3>8. CASE MarkFailed(r)
      <4>1. req'[r] = req[r] /\ step'[r] = "answer" /\ step[r] = "mark"
        BY <3>8 DEF MarkFailed, Goto, At, TypeInv, TypeOK
      <4>2. Declined(Att(r)) \in recorded
        BY <3>8, <4>1 DEF MarkFailed, FailInv
      <4>3. \A a \in Attempts : status'[a] = "FAILED" => status[a] = "FAILED" \/ a = Att(r)
        BY <3>8 DEF MarkFailed, SetStatus, TypeInv, TypeOK
      <4> QED BY <4>1, <4>2, <4>3 DEF FailInv
    <3> QED BY <1>2, <3>1, <3>2, <3>3, <3>4, <3>5, <3>6, <3>7, <3>8
            DEF Step, Run, Verification, Decision
  <2>2. recorded \subseteq recorded'
    BY <1>0 DEF Growth
  <2> QED BY <2>0, <2>1, <2>2 DEF FailInv, Alone, Att
<1>3. CASE UNCHANGED vars
  BY <1>3 DEF vars, dbVars, providerVars, requestVars, FailInv, Att
<1> QED BY <1>1, <1>2, <1>3 DEF Next, Step

(* So every FAILED attempt has one.                                          *)
LEMMA SpecFails == Spec => []FailInv
<1>1. Init => FailInv
  BY DEF Init, FailInv
<1> QED BY <1>1, InitTypeInv, NextTypeInv, NextFailInv, PTL DEF Spec

(* Captured money whose event was answered is on record, unless a declined   *)
(* first try of the same tracker had closed the attempt, and then there is   *)
(* no Issue for it either.                                                   *)
THEOREM CapturedMoneyOnRecordHolds == Spec => []CapturedMoneyOnRecord
<1>1. AnswerBase /\ FailInv /\ IssueFromPaidTruth => CapturedMoneyOnRecord
  <2> SUFFICES ASSUME AnswerBase, FailInv, IssueFromPaidTruth,
                      NEW e \in Event, Answered(e), e.state = "PAID"
               PROVE  \/ status[e.attempt] \in Known
                      \/ /\ status[e.attempt] = "FAILED" /\ issue[e.attempt] = "NONE"
                         /\ Declined(e.attempt) \in recorded
    BY DEF CapturedMoneyOnRecord, Known, Declined
  <2>1. PICK a \in Attempts : a = e.attempt
    BY DEF Event
  <2>2. status[a] # "REDIRECTED" /\ status[a] \in Statuses
    BY <2>1 DEF AnswerBase, AnswerInv, Answered, TypeInv, TypeOK
  <2>3. status[a] = "FAILED" => issue[a] = "NONE" /\ Declined(a) \in recorded
    BY DEF IssueFromPaidTruth, FailInv
  <2> QED BY <2>1, <2>2, <2>3 DEF Statuses, Known
<1> QED BY <1>1, SpecAnswers, SpecFails, IssueFromPaidTruthHolds, PTL

-----------------------------------------------------------------------------
(* A refund is over for the reward: the status cannot become REFUNDED again, *)
(* and the conversion it found is reversed.                                  *)
Gone(a) ==
  /\ status[a] \notin {"REDIRECTED", "PAID"}
  /\ status[a] = "REFUNDED" /\ a \notin lateReward => conversion[a] # "PENDING"

(* What a webhook has done for its refund when it comes to a statement.      *)
Undone(r) ==
  (req[r].source = "webhook" /\ req[r].event.state = "REFUNDED") =>
    /\ step[r] \notin {"record", "mark"} => status[Att(r)] \notin {"REDIRECTED", "PAID"}
    /\ step[r] \in {"flagException", "reversal", "answer"} => Gone(Att(r))

UndoneInv == \A r \in Requests : step[r] # "idle" => Undone(r)

(* Conversions are made for referred attempts only.                          *)
ReferredInv ==
  /\ \A a \in Attempts : conversion[a] # "NONE" => a \in Referred
  /\ \A r \in Requests : step[r] = "convert" => Att(r) \in Referred

(* A refund has its event, and once that is answered the reward is gone.     *)
RefundInv ==
  /\ \A a \in Attempts : charge[a] = "refunded" =>
       \E e \in emitted : e.attempt = a /\ e.state = "REFUNDED"
  /\ \A e \in emitted \ unanswered : e.state = "REFUNDED" => Gone(e.attempt)

(* A conversion is only ever created by Convert, and no other statement      *)
(* makes it pending again.                                                   *)
LEMMA NextConversion ==
  ASSUME TypeInv, ReferredInv, [Next]_vars
  PROVE  /\ ReferredInv'
         /\ lateReward \subseteq lateReward'
         /\ \A a \in Attempts : conversion'[a] = "PENDING" =>
              conversion[a] = "PENDING" \/ status[a] = "PAID" \/ a \in lateReward'
<1> DEFINE Goal == /\ ReferredInv'
                   /\ lateReward \subseteq lateReward'
                   /\ \A a \in Attempts : conversion'[a] = "PENDING" =>
                        conversion[a] = "PENDING" \/ status[a] = "PAID" \/ a \in lateReward'
<1> USE DEF OnlyRequests, OnlyTable, Hand, dbVars, providerVars, requestVars, history, Goto, End
<1>1. ASSUME UNCHANGED <<conversion, lateReward>>,
             \A r \in Requests : step'[r] = "convert" =>
               \/ step[r] = "convert" /\ req'[r] = req[r]
               \/ req'[r].event.attempt \in Referred
      PROVE  Goal
  BY <1>1 DEF ReferredInv, Att
<1>2. ASSUME NEW a \in Attempts, Provider(a) PROVE Goal
  BY <1>1, <1>2 DEF Provider, Capture, Decline, Refund
<1>3. ASSUME NEW r \in Requests, NEW e \in unanswered, StartWebhook(r, e) PROVE Goal
  BY <1>1, <1>3 DEF StartWebhook, TypeInv, TypeOK
<1>4. ASSUME NEW r \in Requests, NEW a \in Attempts, Start(r, a) PROVE Goal
  BY <1>1, <1>4 DEF Start, StartReturn, StartRefundCheck, StartRecovery, TypeInv, TypeOK
<1>5. ASSUME NEW r \in Requests, Verification(r) PROVE Goal
  BY <1>1, <1>5 DEF Verification, Verify, VerifyReturn, VerifyRefund, TypeInv, TypeOK
<1>6. ASSUME NEW r \in Requests, Decision(r) PROVE Goal
  BY <1>1, <1>6 DEF Decision, Record, MarkPaid, MarkFailed, MarkRefunded, OnDuplicate, TypeInv, TypeOK
<1>7. ASSUME NEW r \in Requests, Finalization(r) PROVE Goal
  <2>1. CASE Referral(r)
    BY <1>1, <2>1 DEF Referral, Att, TypeInv, TypeOK
  <2>2. CASE Convert(r)
    <3>1. PICK a \in Attempts : a = Att(r)
      BY <2>2, AttType DEF Convert, At
    <3>2. a \in Referred
      BY <2>2, <3>1 DEF Convert, At, ReferredInv
    <3> QED BY <2>2, <3>1, <3>2 DEF Convert, ReferredInv, Att, TypeInv, TypeOK
  <2>3. CASE Reverse(r)
    <3>1. PICK a \in Attempts : a = Att(r)
      BY <2>3, AttType DEF Reverse, At
    <3> QED BY <2>3, <3>1 DEF Reverse, ReferredInv, Att, TypeInv, TypeOK
  <2>4. CASE Lookup(r) \/ Truth(r) \/ Reserve(r)
    BY <1>1, <2>4 DEF Lookup, Truth, Reserve, AfterReserve, TypeInv, TypeOK
  <2>5. CASE Sale(r) \/ Dispatch(r) \/ Notify(r) \/ RecoverBoth(r) \/ Reversal(r)
    BY <1>1, <2>5 DEF Sale, Dispatch, Notify, RecoverBoth, Reversal, TypeInv, TypeOK
  <2>6. CASE FlagRefund(r) \/ FlagException(r)
    BY <1>1, <2>6 DEF FlagRefund, FlagException, TypeInv, TypeOK
  <2> QED BY <1>7, <2>1, <2>2, <2>3, <2>4, <2>5, <2>6 DEF Finalization
<1>8. ASSUME NEW r \in Requests, Answer(r) \/ Crash(r) PROVE Goal
  BY <1>1, <1>8 DEF Answer, Crash, TypeInv, TypeOK
<1>9. CASE UNCHANGED vars
  BY <1>1, <1>9 DEF vars
<1> QED BY <1>2, <1>3, <1>4, <1>5, <1>6, <1>7, <1>8, <1>9 DEF Next, Run

(* What a refund has settled stays settled: the status does not return, and  *)
(* a conversion created now is a late one.                                   *)
LEMMA GoneStable ==
  ASSUME TypeInv, ReferredInv, [Next]_vars, NEW a \in Attempts,
         status[a] \notin {"REDIRECTED", "PAID"}
  PROVE  /\ status'[a] \notin {"REDIRECTED", "PAID"}
         /\ status'[a] = "REFUNDED" => status[a] = "REFUNDED"
         /\ Gone(a) => Gone(a)'
<1>1. Grows(a)
  BY NextGrowth DEF Growth
<1>2. status'[a] = "REFUNDED" => status[a] = "REFUNDED"
  <2> USE DEF OnlyRequests, OnlyTable, dbVars, history
  <2>1. ASSUME NEW b \in Attempts, Provider(b) PROVE UNCHANGED status
    BY <2>1 DEF Provider, Capture, Decline, Refund
  <2>2. ASSUME NEW r \in Requests,
               \/ \E e \in unanswered : StartWebhook(r, e)
               \/ \E b \in Attempts : Start(r, b)
               \/ Verification(r)
        PROVE  UNCHANGED status
    BY <2>2 DEF StartWebhook, Start, StartReturn, StartRefundCheck, StartRecovery,
                Verification, Verify, VerifyReturn, VerifyRefund
  <2>3. ASSUME NEW r \in Requests, Decision(r) PROVE status'[a] = "REFUNDED" => status[a] = "REFUNDED"
    <3> USE DEF SetStatus, TypeInv, TypeOK
    <3>1. CASE Record(r)
      BY <3>1 DEF Record
    <3>2. CASE MarkPaid(r)
      BY <3>2 DEF MarkPaid
    <3>3. CASE MarkFailed(r)
      BY <3>3 DEF MarkFailed, Failable
    <3>4. CASE MarkRefunded(r)
      BY <3>4 DEF MarkRefunded, Refundable
    <3> QED BY <2>3, <3>1, <3>2, <3>3, <3>4 DEF Decision
  <2>4. ASSUME NEW r \in Requests, Finalization(r) \/ Answer(r) \/ Crash(r) PROVE UNCHANGED status
    BY <2>4, AfterDecision
  <2>5. CASE UNCHANGED vars
    BY <2>5 DEF vars
  <2> QED BY <2>1, <2>2, <2>3, <2>4, <2>5 DEF Next, Run
<1>3. status'[a] \notin {"REDIRECTED", "PAID"}
  BY <1>1 DEF Grows
<1> QED BY <1>2, <1>3, NextConversion DEF Gone

(* Each statement of a refund's webhook leaves what the next relies on: past *)
(* the decision the attempt is no longer PAID, past the reversal its reward  *)
(* is gone.                                                                  *)
LEMMA NextUndone ==
  ASSUME TypeInv, ReferredInv, UndoneInv, [Next]_vars
  PROVE  UndoneInv'
<1> SUFFICES ASSUME NEW r \in Requests, step'[r] # "idle",
                    req'[r].source = "webhook", req'[r].event.state = "REFUNDED"
             PROVE  Undone(r)'
  BY DEF UndoneInv, Undone
<1>1. CASE step'[r] = step[r] /\ req'[r] = req[r]
  <2>1. PICK a \in Attempts : a = Att(r)
    BY <1>1, AttType
  <2>2. Att(r)' = a
    BY <1>1, <2>1 DEF Att
  <2> QED BY <1>1, <2>1, <2>2, GoneStable DEF UndoneInv, Undone
<1>2. ASSUME Step(r) PROVE Undone(r)'
  <2> USE DEF OnlyRequests, OnlyTable, Hand, Goto, End, At, dbVars, history
  <2>1. ASSUME NEW e \in unanswered, StartWebhook(r, e) PROVE Undone(r)'
    BY <2>1 DEF StartWebhook, Undone, TypeInv, TypeOK
  <2>2. ASSUME NEW a \in Attempts, Start(r, a) PROVE Undone(r)'
    BY <2>2 DEF Start, StartReturn, StartRefundCheck, StartRecovery, TypeInv, TypeOK
  <2>3. CASE Verify(r)
    BY <2>3, VerifyResult DEF Verify, Undone, TypeInv, TypeOK
  <2>4. CASE VerifyReturn(r) \/ VerifyRefund(r)
    BY <2>4 DEF VerifyReturn, VerifyRefund, Undone, TypeInv, TypeOK
  <2>5. CASE Record(r)
    BY <2>5 DEF Record, Undone, TypeInv, TypeOK
  <2>6. CASE \/ MarkPaid(r) \/ MarkFailed(r) \/ MarkRefunded(r)
             \/ Finalization(r) \/ Answer(r) \/ Crash(r)
    <3>1. step[r] # "idle" /\ req'[r] = req[r]
      <4>1. CASE MarkPaid(r) \/ MarkFailed(r) \/ MarkRefunded(r)
        BY <4>1 DEF MarkPaid, MarkFailed, MarkRefunded, TypeInv, TypeOK
      <4>2. CASE Finalization(r) \/ Answer(r) \/ Crash(r)
        <5>1. step[r] # "idle"
          BY <4>2 DEF Finalization, Lookup, Truth, Reserve, Referral, Convert, Sale, Dispatch, Notify,
                RecoverBoth, FlagRefund, Reverse, Reversal, FlagException, Answer, Crash
        <5> QED BY <4>2, <5>1, AfterDecision
      <4> QED BY <2>6, <4>1, <4>2
    <3>2. PICK a \in Attempts : a = Att(r)
      BY <3>1, AttType
    <3>3. Att(r)' = a /\ Undone(r)
      BY <3>1, <3>2 DEF Att, UndoneInv
    <3>4. CASE MarkRefunded(r)
      BY <3>1, <3>2, <3>3, <3>4 DEF MarkRefunded, SetStatus, Undone, Gone, TypeInv, TypeOK
    <3>5. CASE MarkPaid(r) \/ MarkFailed(r)
      BY <3>1, <3>5 DEF MarkPaid, MarkFailed
    <3>6. CASE Finalization(r) \/ Answer(r) \/ Crash(r)
      <4>0. /\ status[a] \notin {"REDIRECTED", "PAID"} => status'[a] \notin {"REDIRECTED", "PAID"}
            /\ status[a] \notin {"REDIRECTED", "PAID"} /\ Gone(a) => Gone(a)'
        BY GoneStable
      <4>1. CASE FlagRefund(r)
        <5>1. step'[r] = IF a \in Referred THEN "reverse" ELSE "answer"
          BY <3>2, <4>1 DEF FlagRefund, TypeInv, TypeOK
        <5>2. status[a] \notin {"REDIRECTED", "PAID"}
          BY <3>1, <3>2, <3>3, <4>1 DEF FlagRefund, Undone
        <5>3. a \notin Referred => Gone(a)
          BY <5>2 DEF Gone, ReferredInv
        <5> QED BY <3>3, <4>0, <5>1, <5>2, <5>3 DEF Undone
      <4>2. CASE Reverse(r)
        <5>1. status'[a] \notin {"REDIRECTED", "PAID"}
          BY <3>1, <3>2, <3>3, <4>0, <4>2 DEF Reverse, Undone
        <5>2. conversion'[a] # "PENDING"
          BY <3>2, <4>2 DEF Reverse, TypeInv, TypeOK
        <5> QED BY <3>3, <5>1, <5>2 DEF Undone, Gone
      <4>3. CASE Reversal(r) \/ FlagException(r)
        <5>1. step[r] \in {"reversal", "flagException"}
          BY <4>3 DEF Reversal, FlagException
        <5>2. Gone(a)
          BY <3>1, <3>2, <3>3, <5>1 DEF Undone
        <5> QED BY <3>3, <4>0, <5>2 DEF Undone, Gone
      <4>4. CASE \/ Lookup(r) \/ Truth(r) \/ Reserve(r) \/ Referral(r) \/ Convert(r)
                 \/ Sale(r) \/ Dispatch(r) \/ Notify(r) \/ RecoverBoth(r)
        <5>1. step[r] \in PaidSteps
          BY <4>4 DEF Lookup, Truth, Reserve, Referral, Convert, Sale, Dispatch, Notify, RecoverBoth,
                PaidSteps
        <5> QED BY <3>1, <5>1 DEF TypeInv, RequestOK
      <4>5. CASE Answer(r) \/ Crash(r)
        BY <4>5 DEF Answer, Crash, TypeInv, TypeOK
      <4> QED BY <3>6, <4>1, <4>2, <4>3, <4>4, <4>5 DEF Finalization
    <3> QED BY <2>6, <3>4, <3>5, <3>6
  <2> QED BY <1>2, <2>1, <2>2, <2>3, <2>4, <2>5, <2>6 DEF Step, Run, Verification, Decision
<1>3. ASSUME NEW q \in Requests, Step(q) PROVE Undone(r)'
  <2>1. CASE q = r
    BY <1>2, <1>3, <2>1
  <2>2. CASE q # r
    BY <1>1, <1>3, <2>2, StepAlone DEF Alone
  <2> QED BY <2>1, <2>2
<1>4. ASSUME NEW a \in Attempts, Provider(a) PROVE UNCHANGED <<step, req>>
  BY <1>4 DEF Provider, Capture, Decline, Refund, requestVars
<1>5. CASE UNCHANGED vars
  BY <1>1, <1>5 DEF vars, requestVars
<1> QED BY <1>1, <1>3, <1>4, <1>5 DEF Next, Step

(* Every refund leaves the provider with an event, and an answered one has   *)
(* been through the reversal.                                                *)
LEMMA NextRefundInv ==
  ASSUME TypeInv, ReferredInv, UndoneInv, RefundInv, [Next]_vars
  PROVE  RefundInv'
<1>1. \A a \in Attempts : charge'[a] = "refunded" =>
        \E e \in emitted' : e.attempt = a /\ e.state = "REFUNDED"
  <2>1. ASSUME NEW b \in Attempts, Provider(b), NEW a \in Attempts, charge'[a] = "refunded"
        PROVE  \E e \in emitted' : e.attempt = a /\ e.state = "REFUNDED"
    <3>1. CASE charge[a] = "refunded"
      BY <2>1, <3>1, NextGrowth DEF RefundInv, Growth
    <3>2. CASE charge[a] # "refunded"
      <4>1. PICK m \in Moneys : Refund(b, m)
        BY <2>1, <3>2 DEF Provider, Capture, Decline, TypeInv, TypeOK
      <4>2. a = b /\ [attempt |-> b, state |-> "REFUNDED", money |-> m] \in emitted'
        BY <2>1, <3>2, <4>1 DEF Refund, Emit, TypeInv, TypeOK
      <4> QED BY <4>2
    <3> QED BY <3>1, <3>2
  <2>2. ASSUME NEW r \in Requests, Step(r) PROVE UNCHANGED <<charge, emitted>>
    BY <2>2, StepAlone
  <2>3. CASE UNCHANGED vars
    BY <2>3 DEF vars, providerVars, RefundInv
  <2> QED BY <2>1, <2>2, <2>3 DEF Next, Step, RefundInv
<1>2. ASSUME NEW e \in emitted' \ unanswered', e.state = "REFUNDED"
      PROVE  Gone(e.attempt)'
  <2>1. PICK a \in Attempts : a = e.attempt
    BY NextTypeInv DEF TypeInv, TypeOK, Event
  <2>2. Gone(a)
    <3>1. CASE e \in emitted \ unanswered
      BY <1>2, <2>1, <3>1 DEF RefundInv
    <3>2. CASE e \notin emitted \ unanswered
      <4>1. PICK r \in Requests : /\ step[r] = "answer" /\ req[r].source = "webhook"
                                  /\ req[r].event = e
        BY <3>2, NextAnswered
      <4> QED BY <1>2, <2>1, <4>1 DEF UndoneInv, Undone, Att
    <3> QED BY <3>1, <3>2
  <2>3. Gone(a)'
    BY <2>2, GoneStable DEF Gone
  <2> QED BY <2>1, <2>3
<1> QED BY <1>1, <1>2 DEF RefundInv

RewardBase == TypeInv /\ ReferredInv /\ UndoneInv /\ RefundInv

(* The invariant behind the reversal.                                        *)
LEMMA SpecRewards == Spec => []RewardBase
<1>1. Init => RewardBase
  BY InitTypeInv DEF Init, RewardBase, ReferredInv, UndoneInv, RefundInv
<1>2. RewardBase /\ [Next]_vars => RewardBase'
  BY NextTypeInv, NextConversion, NextUndone, NextRefundInv DEF RewardBase
<1> QED BY <1>1, <1>2, PTL DEF Spec

(* Once every event has been handled the reward of a refunded attempt is     *)
(* reversed, however many requests ran at once and died on the way, whoever  *)
(* recorded the refund: the refund's own event is redelivered until a        *)
(* webhook has been through the reversal (reverseByPaymentAttemptId).        *)
THEOREM RefundReversesRewardHolds == Spec => []RefundReversesReward
<1>1. RewardBase /\ StatusIsProviderTruth => RefundReversesReward
  <2> SUFFICES ASSUME RewardBase, StatusIsProviderTruth, Quiet, NEW a \in Attempts,
                      status[a] = "REFUNDED", a \notin lateReward
               PROVE  conversion[a] # "PENDING"
    BY DEF RefundReversesReward
  <2>1. charge[a] = "refunded"
    BY DEF StatusIsProviderTruth
  <2>2. PICK e \in emitted : e.attempt = a /\ e.state = "REFUNDED"
    BY <2>1 DEF RewardBase, RefundInv
  <2>3. Gone(a)
    BY <2>2 DEF RewardBase, RefundInv, Quiet
  <2> QED BY <2>3 DEF Gone
<1> QED BY <1>1, SpecRewards, StatusIsProviderTruthHolds, PTL
=============================================================================
