----------------------------- MODULE MCPatience -----------------------------
(***************************************************************************)
(* Small instances, side by side, of everything that is retried until it   *)
(* works: a customer's tab in the interview, at the checkout and at the    *)
(* contact, the mails of the jobs, and the webhooks of Fourthwall.  Init   *)
(* chooses one part.  Deliveries has its own variables, which stay as they *)
(* begin in the other parts; those share the variables v1, v2, ..., of     *)
(* which a part leaves the rest at Unused.  The fairness is each part's    *)
(* own, of its actions while it is the chosen part.                        *)
(***************************************************************************)
EXTENDS Deliveries, Sequences, TLC

CONSTANTS
  t1, object, size, red, blue, mine, theirs, home, first, p1, p2,
  m1, w1, w2, x1, q1, o1, e1, e2, d1, d2, c1, c2, c3

VARIABLES part, v1, v2, v3, v4, v5, v6, v7, v8, v9, v10, v11, v12

Unused == "unused"

(* Variables a part does not need. *)
From12 == v12 = Unused
From11 == v11 = Unused /\ From12
From10 == v10 = Unused /\ From11
From9 == v9 = Unused /\ From10
From1 ==
  /\ v1 = Unused /\ v2 = Unused /\ v3 = Unused /\ v4 = Unused /\ v5 = Unused /\ v6 = Unused
  /\ v7 = Unused /\ v8 = Unused /\ From9

Seven == [v \in {object} \X {size} \X {red, blue} |-> 7]
Tight == [k \in {"email", "experience"} |-> 1]
SessionOfQuote(q) == x1

Asks == INSTANCE Interview WITH
  Tabs <- {t1}, QuestionCount <- 2, Prompts <- {p1, p2}, MaxRetired <- 1, MaxExperiences <- 2, Expirable <- {1},
  MaxLosses <- 1,
  experiences <- v1, active <- v2, tokens <- v3, cookie <- v4, page <- v5, step <- v6, req <- v7, losses <- v8

Sale == INSTANCE Checkout WITH
  Tabs <- {t1}, Objects <- {object}, Sizes <- {size}, Colours <- {red, blue}, Price <- Seven,
  Codes <- {}, Terms <- <<>>, Emails <- {mine, theirs}, Addresses <- {home},
  Withdrawable <- {<<object, size, red>>}, MaxQuotes <- 5, MaxAttempts <- 3, MaxExpired <- 2, MaxLosses <- 1,
  MayExpire <- TRUE,
  stage <- v1, expired <- v2, selection <- v3, available <- v4, quotes <- v5, email <- v6, address <- v7,
  attempts <- v8, held <- v9, step <- v10, req <- v11, losses <- v12

Otp == INSTANCE ContactCodes WITH
  Devices <- {t1}, Orders <- {first}, ContactEmails <- {mine, theirs}, OtpAttempts <- 2, Limits <- Tight,
  MaxChallenges <- 2, MaxMisses <- 0, Expirable <- {}, MaxCodeLosses <- 1,
  challenges <- v1, contact <- v2, paid <- v3, proofs <- v4, counts <- v5, heldCode <- v6, codeStep <- v7,
  codeReq <- v8, codeLosses <- v9

Hooks == INSTANCE PaidOrders WITH
  Sessions <- {x1}, Quotes <- {q1}, SessionOf <- SessionOfQuote, CartTabs <- {t1}, Orders <- {o1},
  Events <- {e1, e2}, Deliveries <- {d1, d2}, IssueCodes <- {c1, c2, c3}, TakenCodes <- {c3},
  CodeAttempts <- 2, MaxOrderFaults <- 1,
  stage <- v1, cart <- v2, cartLinks <- v3, orders <- v4, event <- v5, accepted <- v6, inbox <- v7,
  issues <- v8, delivery <- v9, orderFaults <- v10

Init ==
  /\ MailInit
  /\ \/ part = "interview" /\ Asks!Init /\ From9
     \/ part = "checkout" /\ Sale!Init
     \/ part = "contact" /\ Otp!ContactInit /\ From10
     \/ part = "mail" /\ From1
     \/ part = "webhook" /\ Hooks!OrdersInit /\ From11

others == <<v1, v2, v3, v4, v5, v6, v7, v8, v9, v10, v11, v12>>

Next ==
  /\ UNCHANGED part
  /\ \/ /\ \/ part = "interview" /\ Asks!Next /\ UNCHANGED <<v9, v10, v11, v12>>
           \/ part = "checkout" /\ Sale!Next
           \/ part = "contact" /\ Otp!PatientNext /\ UNCHANGED <<v10, v11, v12>>
           \/ part = "webhook" /\ Hooks!OrdersNext /\ UNCHANGED <<v11, v12>>
        /\ UNCHANGED mailVars
     \/ part = "mail" /\ MailNext /\ UNCHANGED others

vars == <<part, mailVars, others>>

Asking(A) == part = "interview" /\ A /\ UNCHANGED <<part, mailVars, v9, v10, v11, v12>>
Buying(A) == part = "checkout" /\ A /\ UNCHANGED <<part, mailVars>>
Proving(A) == part = "contact" /\ A /\ UNCHANGED <<part, mailVars, v10, v11, v12>>
Mailing(A) == part = "mail" /\ A /\ UNCHANGED <<part, others>>
Telling(A) == part = "webhook" /\ A /\ UNCHANGED <<part, mailVars, v11, v12>>

(* What the customer does next at each stage of the checkout: of these, only *)
(* one can happen at a time, and each is done once.                          *)
NextStage ==
  \/ Sale!AskObject(t1) \/ Sale!AskSize(t1) \/ Sale!AskBase(t1)
  \/ Sale!FirstContact(t1) \/ Sale!FirstShipping(t1)

(* A fair action of each part: as only one part moves, fairness of the       *)
(* disjunction is fairness of the one that can happen.                       *)
Fairness ==
  /\ WF_vars(Asking(Asks!Server(t1)) \/ Buying(Sale!Serve(t1)) \/ Proving(Otp!ServeContact(t1))
             \/ Mailing(Work(w1)) \/ Telling(Hooks!DeliveryStep(d1)))
  /\ WF_vars(Mailing(Work(w2)) \/ Telling(Hooks!DeliveryStep(d2)) \/ Buying(Sale!ExpireQuote)
             \/ Proving(Otp!Cool))
  /\ WF_vars(Mailing(\E s \in {w1, w2} : TakeJob(s, m1)) \/ Proving(Otp!Lapse)
             \/ Telling(\E d \in {d1, d2} : Hooks!Redeliver(d, e1)))
  /\ WF_vars(Mailing(RetryNotification(m1))
             \/ Telling(\E d \in {d1, d2} : Hooks!Redeliver(d, e2)))
  /\ SF_vars(Asking(Asks!Load(t1)) \/ Buying(NextStage) \/ Proving(Otp!AskServed(t1)))
  /\ SF_vars(Asking(Asks!Continue(t1)) \/ Buying(Sale!AskResume(t1)) \/ Proving(Otp!TypeRight(t1)))
  /\ SF_vars(Asking(Asks!Answer(t1)) \/ Buying(Sale!AskPay(t1)))

FairSpec == Init /\ [][Next]_vars /\ Fairness

ASSUME PatienceAssumption ==
  /\ Asks!InterviewAssumption /\ Sale!CheckoutAssumption /\ Otp!ContactAssumption
  /\ MailAssumption /\ Hooks!OrdersAssumption

-----------------------------------------------------------------------------
(* The properties of the parts; JobMailIsSent and SentIsMailed are           *)
(* Deliveries'.                                                              *)

(* Interview, Checkout, ContactCodes: a customer who keeps trying completes  *)
(* the interview, reaches the payment page, proves the contact, and does not *)
(* lose the session on the way; what is stored is well typed throughout.     *)
PersistentCustomerProceeds ==
  /\ [](/\ part = "interview" => Asks!InterviewTypeOK /\ Asks!NotStranded
        /\ part = "checkout" => Sale!CheckoutTypeOK
        /\ part = "contact" => Otp!ContactTypeOK)
  /\ <>(\/ part = "interview" /\ Asks!Finished
        \/ part = "checkout" /\ Sale!Reached
        \/ part = "contact" /\ Otp!Verified
        \/ part \in {"mail", "webhook"})

(* PaidOrders: a paid order the provider reports gets its Issue in the end;  *)
(* its events are alike, and one stands for both.                            *)
PaidOrderIsIssued ==
  part = "webhook" /\ Hooks!Reported(e1) ~> part = "webhook" /\ Hooks!Issued(e1)
=============================================================================
