----------------------------- MODULE Checkout ------------------------------
(***************************************************************************)
(* From a finished profile to the payment page: the object, size and base  *)
(* of one private session, its price quotes, the contact and address, the  *)
(* referral code, and the start of the payment.                            *)
(*                                                                         *)
(* Several tabs of the customer work on the one session.  A tab has one    *)
(* request on the way at a time and holds the last quote an answer gave it.*)
(* Each SQL statement that another tab can disturb is one step; a request  *)
(* may die before any of them, or its answer be lost.  The contact's row   *)
(* is written in one step (the ContactCodes module has its one-time codes);*)
(* what the provider does with an attempt is Settle (PaymentIssue has it). *)
(***************************************************************************)
EXTENDS NoValue, Naturals, Sequences, FiniteSets

CONSTANTS
  Tabs,                     \* tabs working on the session
  Objects, Sizes, Colours,  \* of the catalogue
  Price,                    \* of each variant, in minor units
  Codes,                    \* active referral codes
  Terms,                    \* of each code: discount mode, its value, creator's email
  Emails, Addresses,        \* what the customer may enter
  MaxQuotes,                \* bound on quotes
  MaxAttempts,              \* bound on payment attempts
  MaxExpired,               \* bound on the quotes whose hour runs out
  MaxLosses,                \* bound on lost requests, lost answers, gateway errors
  Withdrawable,             \* bound: variants the catalogue may withdraw
  MayExpire                 \* whether the session's thirty days may run out

Variants == Objects \X Sizes \X Colours

(* What the values of the constants must satisfy. *)
CheckoutAssumption ==
  /\ Price \in [Variants -> Nat \ {0}]
  /\ Terms \in [Codes -> [mode : {"PERCENT", "FIXED"}, value : Nat \ {0}, owner : Emails]]
  /\ MaxQuotes \in Nat /\ MaxAttempts \in Nat /\ MaxExpired \in Nat /\ MaxLosses \in Nat
  /\ MayExpire \in BOOLEAN
  /\ None \notin Objects \cup Sizes \cup Colours \cup Codes \cup Emails \cup Addresses

VARIABLES
  stage,      \* experiences.stage, from PROFILE_COMPLETE
  expired,    \* experiences.expires_at has passed
  selection,  \* experience_physical_selection: object, size, colour
  available,  \* variants the catalogue offers
  quotes,     \* checkout_quotes of the session, by created_at
  email,      \* verified_contacts
  address,    \* shipping_snapshots
  attempts,   \* payment_attempts of the session
  held,       \* the quote each tab holds, 0 for none
  step,       \* the next statement of each tab's request
  req,        \* what the request works on
  losses      \* requests lost so far

orderVars == <<stage, expired, selection, available>>
partyVars == <<email, address>>
requestVars == <<held, step, req>>
vars == <<orderVars, quotes, partyVars, attempts, requestVars, losses>>

Stages == {"PROFILE_COMPLETE", "OBJECT_SELECTED", "SIZE_CONFIRMED",
           "COMMITMENT_READY", "CHECKOUT_STARTED"}
Statuses == {"CREATED", "REDIRECTED", "PAID", "FAILED"}
Steps == {"idle", "object", "size", "quote", "base", "latest", "restore", "ship",
          "compare", "discount", "replace", "check", "reusable", "create",
          "gateway", "attach", "advance"}

(* hour: the quote whose creation began the hour this one is good for.      *)
Quote ==
  [variant : Variants, gross : Nat, amount : Nat, code : Codes \cup {None},
   hour : 1..MaxQuotes, live : BOOLEAN]
(* The address and email are those the row had when the attempt was made.   *)
Attempt ==
  [quote : 1..MaxQuotes, amount : Nat, status : Statuses, url : BOOLEAN,
   address : Addresses, email : Emails]
Request ==
  [choice  : Objects \cup Sizes \cup Colours \cup Addresses \cup Codes \cup {None},
   quote   : 0..MaxQuotes,
   stage   : Stages,
   attempt : 0..MaxAttempts]

(* Types, and what refers to a row: the row is there. *)
CheckoutTypeOK ==
  /\ stage \in Stages
  /\ expired \in BOOLEAN
  /\ selection \in (Objects \cup {None}) \X (Sizes \cup {None}) \X (Colours \cup {None})
  /\ available \subseteq Variants
  /\ quotes \in Seq(Quote) /\ Len(quotes) <= MaxQuotes
  /\ email \in Emails \cup {None}
  /\ address \in Addresses \cup {None}
  /\ attempts \in Seq(Attempt) /\ Len(attempts) <= MaxAttempts
  /\ \A a \in 1..Len(attempts) : attempts[a].quote \in 1..Len(quotes)
  /\ held \in [Tabs -> 0..Len(quotes)]
  /\ step \in [Tabs -> Steps]
  /\ req \in [Tabs -> Request]
  /\ \A t \in Tabs : req[t].attempt <= Len(attempts) /\ req[t].quote <= Len(quotes)
  /\ losses \in 0..MaxLosses

NoRequest == [choice |-> None, quote |-> 0, stage |-> "PROFILE_COMPLETE", attempt |-> 0]

Init ==
  /\ stage = "PROFILE_COMPLETE"
  /\ expired = FALSE
  /\ selection = <<None, None, None>>
  /\ available = Variants
  /\ quotes = <<>>
  /\ email = None
  /\ address = None
  /\ attempts = <<>>
  /\ held = [t \in Tabs |-> 0]
  /\ step = [t \in Tabs |-> "idle"]
  /\ req = [t \in Tabs |-> NoRequest]
  /\ losses = 0

-----------------------------------------------------------------------------
(* What the statements read and write.                                       *)

Latest == Len(quotes)

(* The trigger of migration 0015: once an attempt may be charged, neither    *)
(* the contact nor the address it refers to changes.  A variant that forgets *)
(* the attempts whose page is not open yet.                                  *)
FrozenOnceRedirected == \E a \in 1..Len(attempts) : attempts[a].status \in {"REDIRECTED", "PAID"}
Frozen == \E a \in 1..Len(attempts) : attempts[a].status # "FAILED"

(* A new quote at the variant's price.                                       *)
PlainQuote(variant) ==
  [variant |-> variant, gross |-> Price[variant], amount |-> Price[variant],
   code |-> None, hour |-> Len(quotes) + 1, live |-> TRUE]

(* discountFor: nothing unless the discount leaves a price above zero; the   *)
(* variant takes it anyway.                                                  *)
DiscountUncapped(gross, code) ==
  IF Terms[code].mode = "PERCENT"
  THEN (gross * Terms[code].value) \div 10000
  ELSE Terms[code].value
DiscountFor(gross, code) ==
  IF DiscountUncapped(gross, code) < gross THEN DiscountUncapped(gross, code) ELSE 0

(* currentGross: the price before any discount; and a variant that takes the *)
(* price already discounted.                                                 *)
CurrentGrossOfAmount(q) == quotes[q].amount
CurrentGross(q) == quotes[q].gross

(* Whether resume may hand out the quote again; variants that forget to      *)
(* compare the variant or the hour.                                          *)
CurrentIfLive(q) == q # 0 /\ quotes[q].live
CurrentIfSame(q) == q # 0 /\ quotes[q].variant = selection
Current(q) == CurrentIfLive(q) /\ CurrentIfSame(q)

(* The active attempt ON CONFLICT DO NOTHING meets, for this quote only.     *)
ActiveFor(q) ==
  {a \in 1..Len(attempts) :
     attempts[a].quote = q /\ attempts[a].status \in {"CREATED", "REDIRECTED", "PAID"}}

(* Whether the page of the attempt was opened.                               *)
HasUrl(a) == attempts[a].url

(* A stage changes only from the stage expected, while the session lives.    *)
Advances(from, to) == stage = from /\ ~expired /\ stage' = to

(* The request goes on with its next statement.                              *)
Go(t, next) == step' = [step EXCEPT ![t] = next] /\ UNCHANGED <<held, req, losses>>

(* The request ends, and its answer hands the tab a quote, or is lost.       *)
Answer(t, quote) ==
  /\ step' = [step EXCEPT ![t] = "idle"]
  /\ req' = [req EXCEPT ![t] = NoRequest]
  /\ \/ held' = [held EXCEPT ![t] = quote] /\ UNCHANGED losses
     \/ losses < MaxLosses /\ losses' = losses + 1 /\ UNCHANGED held

(* The request ends with nothing the tab keeps.                              *)
End(t) ==
  /\ step' = [step EXCEPT ![t] = "idle"]
  /\ req' = [req EXCEPT ![t] = NoRequest]
  /\ UNCHANGED <<held, losses>>

(* A request arrives, and its first statement finds the live session.        *)
Ask(t, stages, next, request) ==
  /\ step[t] = "idle"
  /\ ~expired /\ stage \in stages
  /\ step' = [step EXCEPT ![t] = next]
  /\ req' = [req EXCEPT ![t] = request]
  /\ UNCHANGED <<orderVars, quotes, partyVars, attempts, held, losses>>

Choose(choice) == [NoRequest EXCEPT !.choice = choice]

-----------------------------------------------------------------------------
(* The physical form.                                                        *)

(* ObjectSelectionService.select: an object with some size on offer.         *)
AskObject(t) ==
  \E o \in Objects :
    /\ \E v \in available : v[1] = o
    /\ Ask(t, {"PROFILE_COMPLETE"}, "object", Choose(o))

WriteObject(t) ==
  /\ step[t] = "object"
  /\ \/ /\ Advances("PROFILE_COMPLETE", "OBJECT_SELECTED")
        /\ selection' = <<req[t].choice, None, None>>
     \/ ~(stage = "PROFILE_COMPLETE" /\ ~expired) /\ UNCHANGED <<stage, selection>>
  /\ End(t)
  /\ UNCHANGED <<expired, available, quotes, partyVars, attempts>>

(* SizeSelectionService.confirm: a size on offer for the stored object.      *)
AskSize(t) ==
  \E s \in Sizes :
    /\ \E v \in available : v[1] = selection[1] /\ v[2] = s
    /\ Ask(t, {"OBJECT_SELECTED"}, "size", Choose(s))

WriteSize(t) ==
  /\ step[t] = "size"
  /\ \/ /\ Advances("OBJECT_SELECTED", "SIZE_CONFIRMED")
        /\ selection' = [selection EXCEPT ![2] = req[t].choice]
     \/ ~(stage = "OBJECT_SELECTED" /\ ~expired) /\ UNCHANGED <<stage, selection>>
  /\ End(t)
  /\ UNCHANGED <<expired, available, quotes, partyVars, attempts>>

(* BaseSelectionService.confirm writes the quote before it claims the stage. *)
AskBase(t) ==
  \E c \in Colours :
    /\ <<selection[1], selection[2], c>> \in available
    /\ Ask(t, {"SIZE_CONFIRMED"}, "quote", Choose(c))

InsertBaseQuote(t) ==
  /\ step[t] = "quote"
  /\ Len(quotes) < MaxQuotes
  /\ quotes' = Append(quotes, PlainQuote(<<selection[1], selection[2], req[t].choice>>))
  /\ step' = [step EXCEPT ![t] = "base"]
  /\ req' = [req EXCEPT ![t].quote = Len(quotes) + 1]
  /\ UNCHANGED <<orderVars, partyVars, attempts, held, losses>>

(* The loser of a race leaves its quote behind; nobody is told its id.       *)
ConfirmBase(t) ==
  /\ step[t] = "base"
  /\ \/ /\ Advances("SIZE_CONFIRMED", "COMMITMENT_READY")
        /\ selection' = [selection EXCEPT ![3] = req[t].choice]
        /\ Answer(t, req[t].quote)
     \/ /\ ~(stage = "SIZE_CONFIRMED" /\ ~expired)
        /\ End(t)
        /\ UNCHANGED <<stage, selection>>
  /\ UNCHANGED <<expired, available, quotes, partyVars, attempts>>

-----------------------------------------------------------------------------
(* Reload: ExperienceResumeService.read at COMMITMENT_READY.                 *)

AskResume(t) ==
  /\ selection \in available
  /\ Ask(t, {"COMMITMENT_READY"}, "latest", NoRequest)

ReadLatest(t) ==
  /\ step[t] = "latest"
  /\ \/ Current(Latest) /\ Answer(t, Latest)
     \/ ~Current(Latest) /\ Go(t, "restore")
  /\ UNCHANGED <<orderVars, quotes, partyVars, attempts>>

RestoreQuote(t) ==
  /\ step[t] = "restore"
  /\ Len(quotes) < MaxQuotes
  /\ quotes' = Append(quotes, PlainQuote(selection))
  /\ Answer(t, Len(quotes) + 1)
  /\ UNCHANGED <<orderVars, partyVars, attempts>>

-----------------------------------------------------------------------------
(* Contact, address, referral code.                                          *)

(* verifyContact: the first insert always succeeds; a later one is an update *)
(* the trigger may refuse.  No stage is checked.                             *)
VerifyContact(t) ==
  /\ step[t] = "idle"
  /\ ~expired /\ stage \in {"COMMITMENT_READY", "CHECKOUT_STARTED"}
  /\ email = None \/ ~Frozen
  /\ email' \in Emails
  /\ UNCHANGED <<orderVars, quotes, address, attempts, requestVars, losses>>

(* ShippingService.save: its look and its upsert.                            *)
AskShipping(t) ==
  \E a \in Addresses :
    /\ email # None
    /\ Ask(t, {"COMMITMENT_READY"}, "ship", Choose(a))

WriteShipping(t) ==
  /\ step[t] = "ship"
  /\ address' = IF address = None \/ ~Frozen THEN req[t].choice ELSE address
  /\ End(t)
  /\ UNCHANGED <<orderVars, quotes, email, attempts>>

(* ReferralService.applyToQuote: the stage, then the latest quote, then the  *)
(* contact and the rule, then the replacement.                               *)
AskApply(t) ==
  \E c \in Codes :
    /\ held[t] # 0
    /\ Ask(t, {"COMMITMENT_READY"}, "compare", [NoRequest EXCEPT !.choice = c, !.quote = held[t]])

Compare(t) ==
  /\ step[t] = "compare"
  /\ IF req[t].quote = Latest THEN Go(t, "discount") ELSE End(t)
  /\ UNCHANGED <<orderVars, quotes, partyVars, attempts>>

(* The hash of an address that verified_contacts keeps is keyed, the one of  *)
(* a creator's address is not.                                               *)
EmailLookupHash(mail) == <<"hmac", mail>>
CreatorHash(mail) == <<"sha256", mail>>

(* unchanged(): no contact, the customer's own code, or nothing to take off. *)
Discountable(q, code) ==
  /\ email # None
  /\ CreatorHash(Terms[code].owner) # EmailLookupHash(email)
  /\ DiscountFor(CurrentGross(q), code) > 0

Discount(t) ==
  /\ step[t] = "discount"
  /\ IF Discountable(req[t].quote, req[t].choice) THEN Go(t, "replace") ELSE End(t)
  /\ UNCHANGED <<orderVars, quotes, partyVars, attempts>>

Replacement(q, code) ==
  [quotes[q] EXCEPT !.code = code, !.gross = CurrentGross(q),
                    !.amount = CurrentGross(q) - DiscountFor(CurrentGross(q), code)]

Replace(t) ==
  /\ step[t] = "replace"
  /\ Len(quotes) < MaxQuotes
  /\ quotes' = Append(quotes, Replacement(req[t].quote, req[t].choice))
  /\ Answer(t, Len(quotes) + 1)
  /\ UNCHANGED <<orderVars, partyVars, attempts>>

-----------------------------------------------------------------------------
(* PaymentService.start.                                                     *)

AskPay(t) ==
  /\ held[t] # 0
  /\ Ask(t, {"COMMITMENT_READY", "CHECKOUT_STARTED"}, "check",
         [NoRequest EXCEPT !.quote = held[t], !.stage = stage])

(* The latest quote, still in its hour, a verified contact and an address.   *)
Payable(q) == q = Latest /\ quotes[q].live /\ email # None /\ address # None

Check(t) ==
  /\ step[t] = "check"
  /\ IF Payable(req[t].quote) THEN Go(t, "reusable") ELSE End(t)
  /\ UNCHANGED <<orderVars, quotes, partyVars, attempts>>

(* returnRedirectedAttempt: hands out the attempt's URL, having moved the    *)
(* stage when it was still COMMITMENT_READY.                                 *)
ReturnRedirected(t, a) ==
  IF req[t].stage = "COMMITMENT_READY"
  THEN /\ step' = [step EXCEPT ![t] = "advance"]
       /\ req' = [req EXCEPT ![t].attempt = a]
       /\ UNCHANGED <<held, losses>>
  ELSE End(t)

FindReusable(t) ==
  LET redirected == {a \in ActiveFor(req[t].quote) : attempts[a].status = "REDIRECTED"}
  IN  /\ step[t] = "reusable"
      /\ IF redirected # {} THEN \E a \in redirected : ReturnRedirected(t, a)
         ELSE IF req[t].stage = "CHECKOUT_STARTED" THEN End(t)
         ELSE Go(t, "create")
      /\ UNCHANGED <<orderVars, quotes, partyVars, attempts>>

NewAttempt(q) ==
  [quote |-> q, amount |-> quotes[q].amount, status |-> "CREATED", url |-> FALSE,
   address |-> address, email |-> email]

(* create: a new attempt, or the active one of the same quote; one that has  *)
(* no URL yet means "already in progress".                                   *)
CreateAttempt(t) ==
  /\ step[t] = "create"
  /\ \/ /\ ActiveFor(req[t].quote) = {}
        /\ Len(attempts) < MaxAttempts
        /\ attempts' = Append(attempts, NewAttempt(req[t].quote))
        /\ step' = [step EXCEPT ![t] = "gateway"]
        /\ req' = [req EXCEPT ![t].attempt = Len(attempts) + 1]
        /\ UNCHANGED <<held, losses>>
     \/ /\ \E a \in ActiveFor(req[t].quote) :
             IF HasUrl(a) THEN ReturnRedirected(t, a) ELSE End(t)
        /\ UNCHANGED attempts
  /\ UNCHANGED <<orderVars, quotes, partyVars>>

(* createCheckout: an error, or a URL that is not https, fails the attempt.  *)
CallGateway(t) ==
  /\ step[t] = "gateway"
  /\ \/ Go(t, "attach") /\ UNCHANGED attempts
     \/ /\ losses < MaxLosses
        /\ losses' = losses + 1
        /\ attempts' = [attempts EXCEPT ![req[t].attempt].status = "FAILED"]
        /\ step' = [step EXCEPT ![t] = "idle"]
        /\ req' = [req EXCEPT ![t] = NoRequest]
        /\ UNCHANGED held
  /\ UNCHANGED <<orderVars, quotes, partyVars>>

AttachProvider(t) ==
  /\ step[t] = "attach"
  /\ IF attempts[req[t].attempt].status = "CREATED"
     THEN /\ attempts' = [attempts EXCEPT ![req[t].attempt].status = "REDIRECTED",
                                          ![req[t].attempt].url = TRUE]
          /\ Go(t, "advance")
     ELSE End(t) /\ UNCHANGED attempts
  /\ UNCHANGED <<orderVars, quotes, partyVars>>

Advance(t) ==
  /\ step[t] = "advance"
  /\ \/ Advances("COMMITMENT_READY", "CHECKOUT_STARTED")
     \/ ~(stage = "COMMITMENT_READY" /\ ~expired) /\ UNCHANGED stage
  /\ End(t)
  /\ UNCHANGED <<expired, selection, available, quotes, partyVars, attempts>>

-----------------------------------------------------------------------------
(* Surroundings.                                                             *)

(* A request dies between two statements.                                    *)
Die(t) ==
  /\ step[t] # "idle"
  /\ losses < MaxLosses
  /\ losses' = losses + 1
  /\ step' = [step EXCEPT ![t] = "idle"]
  /\ req' = [req EXCEPT ![t] = NoRequest]
  /\ UNCHANGED <<orderVars, quotes, partyVars, attempts, held>>

(* An attempt is paid or declined on its page, whose URL no answer holds      *)
(* before the stage has moved.                                               *)
Settle ==
  /\ stage = "CHECKOUT_STARTED"
  /\ \E a \in 1..Len(attempts) :
       /\ attempts[a].status = "REDIRECTED"
       /\ \E s \in {"PAID", "FAILED"} : attempts' = [attempts EXCEPT ![a].status = s]
  /\ UNCHANGED <<orderVars, quotes, partyVars, requestVars, losses>>

(* An hour runs out, for its quote and the replacements that kept its expiry.*)
Hours == {quotes[q].hour : q \in 1..Len(quotes)}
SpentHours == {quotes[q].hour : q \in {k \in 1..Len(quotes) : ~quotes[k].live}}

ExpireQuote ==
  /\ Cardinality(SpentHours) < MaxExpired
  /\ \E h \in Hours \ SpentHours :
       quotes' = [q \in 1..Len(quotes) |->
                    IF quotes[q].hour = h THEN [quotes[q] EXCEPT !.live = FALSE] ELSE quotes[q]]
  /\ UNCHANGED <<orderVars, partyVars, attempts, requestVars, losses>>

ExpireSession ==
  /\ MayExpire /\ ~expired
  /\ expired' = TRUE
  /\ UNCHANGED <<stage, selection, available, quotes, partyVars, attempts, requestVars, losses>>

Withdraw ==
  /\ \E v \in available \cap Withdrawable : available' = available \ {v}
  /\ UNCHANGED <<stage, expired, selection, quotes, partyVars, attempts, requestVars, losses>>

Form(t) ==
  \/ AskObject(t) \/ WriteObject(t) \/ AskSize(t) \/ WriteSize(t)
  \/ AskBase(t) \/ InsertBaseQuote(t) \/ ConfirmBase(t)
Resume(t) == AskResume(t) \/ ReadLatest(t) \/ RestoreQuote(t)
Party(t) == VerifyContact(t) \/ AskShipping(t) \/ WriteShipping(t)
Apply(t) == AskApply(t) \/ Compare(t) \/ Discount(t) \/ Replace(t)
Start(t) ==
  \/ AskPay(t) \/ Check(t) \/ FindReusable(t) \/ CreateAttempt(t)
  \/ CallGateway(t) \/ AttachProvider(t) \/ Advance(t)

Next ==
  \/ \E t \in Tabs : Form(t) \/ Resume(t) \/ Party(t) \/ Apply(t) \/ Start(t) \/ Die(t)
  \/ Settle \/ ExpireQuote \/ ExpireSession \/ Withdraw

Spec == Init /\ [][Next]_vars

(* A customer who keeps trying, a server that answers, and the clock.        *)
Serve(t) == step[t] # "idle" /\ (Form(t) \/ Resume(t) \/ Party(t) \/ Apply(t) \/ Start(t))
FirstContact(t) == email = None /\ VerifyContact(t)
FirstShipping(t) == address = None /\ AskShipping(t)
Fairness ==
  /\ \A t \in Tabs :
       /\ WF_vars(Serve(t))
       /\ SF_vars(AskObject(t)) /\ SF_vars(AskSize(t)) /\ SF_vars(AskBase(t))
       /\ SF_vars(AskResume(t)) /\ SF_vars(AskPay(t))
       /\ SF_vars(FirstContact(t)) /\ SF_vars(FirstShipping(t))
  /\ WF_vars(ExpireQuote)

FairSpec == Spec /\ Fairness

-----------------------------------------------------------------------------
(* Properties.                                                               *)

(* What is charged is the object, size and base the customer chose, however  *)
(* the tabs raced for the base and whichever quotes they left behind.        *)
AttemptIsTheOrder ==
  \A a \in 1..Len(attempts) :
    /\ quotes[attempts[a].quote].variant = selection
    /\ attempts[a].amount = quotes[attempts[a].quote].amount

(* Codes do not add up: after any number of them a quote is the variant's    *)
(* price less the discount of the one code it names.                         *)
DiscountIsOneCode ==
  \A q \in 1..Len(quotes) :
    LET quote == quotes[q] IN
    /\ quote.gross = Price[quote.variant]
    /\ quote.amount =
         IF quote.code = None THEN quote.gross
         ELSE quote.gross - DiscountFor(quote.gross, quote.code)
    /\ quote.amount > 0

(* Where an order goes and who is told of it stays what they were when its   *)
(* payment attempt was made, as long as that attempt may be or was charged.  *)
OrderKeepsAddressAndEmail ==
  \A a \in 1..Len(attempts) :
    attempts[a].status # "FAILED" =>
      attempts[a].address = address /\ attempts[a].email = email

(* A session in CHECKOUT_STARTED can never go back, so some attempt of it    *)
(* has a page to pay on.                                                     *)
StartedIsPayable ==
  stage = "CHECKOUT_STARTED" => \E a \in 1..Len(attempts) : attempts[a].url

(* The three together: the right thing, at the right price, can be paid.     *)
ChargedAsOrdered == AttemptIsTheOrder /\ DiscountIsOneCode /\ StartedIsPayable

(* A crash while the payment starts leaves an attempt without a page, which  *)
(* blocks its quote; a customer who keeps trying still gets to the page, at  *)
(* the latest when the quote's hour is over and a reload draws a new one,    *)
(* unless the session ends or the chosen variant is withdrawn.               *)
Reached ==
  \/ stage = "CHECKOUT_STARTED"
  \/ expired
  \/ selection \in Variants /\ selection \notin available
  \/ Cardinality(SpentHours) = MaxExpired
PersistentCustomerReachesCheckout == <>Reached

(* Masterplan(ISSUED ONCE).md:149: "An Experience is the private progression *)
(* container for one order attempt/profile lifecycle."                       *)
OneOrderAttempt ==
  \A a, b \in 1..Len(attempts) :
    attempts[a].url /\ attempts[b].url /\ a # b => "FAILED" \in {attempts[a].status, attempts[b].status}

(* Masterplan(ISSUED ONCE).md:581: "Invalid/paused/expired/self-referral     *)
(* codes cannot reduce price."                                               *)
NoSelfReferral ==
  \A a \in 1..Len(attempts), c \in Codes :
    quotes[attempts[a].quote].code = c => Terms[c].owner # attempts[a].email
=============================================================================
