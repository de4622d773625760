--------------------------- MODULE CheckoutProofs --------------------------
(***************************************************************************)
(* Theorems about Checkout, for any number of tabs, any catalogue, codes,  *)
(* emails and addresses, and any number of quotes, attempts and losses.    *)
(*                                                                         *)
(* The tabs race for the object, the size and the base, and leave quotes   *)
(* of other bases behind.  A tab only ever holds a quote of the base that  *)
(* won (Held), because no answer carries any other; and the base, once it  *)
(* has won, the attempts, the contact and the address only ever grow.      *)
(***************************************************************************)
EXTENDS Checkout, SequenceTheorems, TLAPS

Sized == {"SIZE_CONFIRMED", "COMMITMENT_READY", "CHECKOUT_STARTED"}
Ready == {"COMMITMENT_READY", "CHECKOUT_STARTED"}

(* A quote of the variant that was chosen, once one was.                     *)
Held(q) == q \in 1..Len(quotes) /\ stage \in Ready /\ quotes[q].variant = selection

(* What a request that comes to statement s with w relies on.                *)
Fits(s, w) ==
  /\ w.quote \in 0..Len(quotes) /\ w.attempt \in 0..Len(attempts)
  /\ s = "object" => w.choice \in Objects
  /\ s = "size" => w.choice \in Sizes
  /\ s \in {"quote", "base"} => w.choice \in Colours /\ stage \in Sized
  /\ s = "base" => /\ w.quote \in 1..Len(quotes)
                   /\ quotes[w.quote].variant = <<selection[1], selection[2], w.choice>>
  /\ s \in {"latest", "restore"} => stage \in Ready
  /\ s = "ship" => w.choice \in Addresses
  /\ s \in {"compare", "discount", "replace"} => w.choice \in Codes
  /\ s \in {"compare", "discount", "replace", "check", "reusable", "create"} => Held(w.quote)
  /\ s \in {"reusable", "create"} => email # None /\ address # None
  /\ s \in {"gateway", "attach", "advance"} => w.attempt \in 1..Len(attempts)
  /\ s = "advance" => attempts[w.attempt].url

RequestsOK ==
  /\ step \in [Tabs -> Steps]
  /\ req \in [Tabs -> Request]
  /\ held \in [Tabs -> 0..Len(quotes)]
  /\ \A t \in Tabs : Fits(step[t], req[t])
  /\ \A t \in Tabs : held[t] # 0 => Held(held[t])

(* The form is filled in the order of the stages.                            *)
FormOK ==
  /\ stage \in Stages /\ expired \in BOOLEAN /\ available \subseteq Variants
  /\ selection \in (Objects \cup {None}) \X (Sizes \cup {None}) \X (Colours \cup {None})
  /\ stage # "PROFILE_COMPLETE" => selection[1] \in Objects
  /\ stage \in Sized => selection[2] \in Sizes
  /\ stage \in Ready => selection[3] \in Colours
QuotesOK == quotes \in Seq(Quote) /\ Len(quotes) <= MaxQuotes
PartyOK == email \in Emails \cup {None} /\ address \in Addresses \cup {None}
AttemptsOK == attempts \in Seq(Attempt) /\ Len(attempts) <= MaxAttempts
LossesOK == losses \in 0..MaxLosses

(* The price of a quote, the order an attempt charges, and where it goes.    *)
Priced(x) ==
  /\ x.gross = Price[x.variant]
  /\ x.amount = IF x.code = None THEN x.gross ELSE x.gross - DiscountFor(x.gross, x.code)
  /\ x.amount > 0
PriceInv == \A q \in 1..Len(quotes) : Priced(quotes[q])
Ordered(x) ==
  /\ x.quote \in 1..Len(quotes) /\ stage \in Ready
  /\ quotes[x.quote].variant = selection /\ x.amount = quotes[x.quote].amount
OrderInv == \A a \in 1..Len(attempts) : Ordered(attempts[a])
Sent(x) ==
  /\ email # None /\ address # None
  /\ x.status # "FAILED" => x.address = address /\ x.email = email
  /\ x.status \in {"REDIRECTED", "PAID"} => x.url
PartyInv == \A a \in 1..Len(attempts) : Sent(attempts[a])

RowsOK == FormOK /\ QuotesOK /\ PartyOK /\ AttemptsOK /\ LossesOK
StateInv == PriceInv /\ OrderInv /\ PartyInv /\ StartedIsPayable
IInv == RowsOK /\ RequestsOK /\ StateInv

(* What a step never takes back.                                             *)
QuotesGrow ==
  /\ Len(quotes) <= Len(quotes')
  /\ \A q \in 1..Len(quotes) : /\ quotes'[q].variant = quotes[q].variant
                               /\ quotes'[q].amount = quotes[q].amount
AttemptsGrow ==
  /\ Len(attempts) <= Len(attempts')
  /\ \A a \in 1..Len(attempts) : attempts[a].url => attempts'[a].url
PartyGrows == (email # None => email' # None) /\ (address # None => address' # None)
FormGrows ==
  /\ stage \in Sized => /\ stage' \in Sized
                        /\ selection'[1] = selection[1] /\ selection'[2] = selection[2]
  /\ stage \in Ready => stage' \in Ready /\ selection' = selection
Grows == QuotesGrow /\ AttemptsGrow /\ PartyGrows /\ FormGrows

(* A statement moves its own tab to s with w, and the tab then holds h.      *)
Moves(t, s, w, h) ==
  /\ step' = [step EXCEPT ![t] = s]
  /\ req' = [req EXCEPT ![t] = w]
  /\ held' = [held EXCEPT ![t] = h]
-----------------------------------------------------------------------------
(* Lengths are numbers.                                                      *)
LEMMA Lengths ==
  ASSUME RowsOK
  PROVE  Len(quotes) \in Nat /\ Len(attempts) \in Nat
BY LenProperties DEF RowsOK, QuotesOK, AttemptsOK

(* A quote that is held stays the order's when the rows have grown.          *)
LEMMA GrowsKeepsHeld ==
  ASSUME RowsOK, RowsOK', Grows, NEW q, Held(q)
  PROVE  Held(q)'
<1>1. q \in 1..Len(quotes')
  BY Lengths, LenProperties DEF Held, Grows, QuotesGrow, RowsOK, QuotesOK
<1> QED BY <1>1 DEF Held, Grows, QuotesGrow, FormGrows

(* And what fits a request still does.                                       *)
LEMMA GrowsKeepsFits ==
  ASSUME RowsOK, RowsOK', Grows, NEW s, NEW w \in Request, Fits(s, w)
  PROVE  Fits(s, w)'
<1>1. /\ Len(quotes) \in Nat /\ Len(attempts) \in Nat
      /\ Len(quotes') \in Nat /\ Len(attempts') \in Nat
  BY Lengths, LenProperties DEF RowsOK, QuotesOK, AttemptsOK
<1>2. w.quote \in 0..Len(quotes') /\ w.attempt \in 0..Len(attempts')
  BY <1>1 DEF Fits, Grows, QuotesGrow, AttemptsGrow
<1>3. /\ w.quote \in 1..Len(quotes) => /\ w.quote \in 1..Len(quotes')
                                       /\ quotes'[w.quote].variant = quotes[w.quote].variant
      /\ w.attempt \in 1..Len(attempts) => /\ w.attempt \in 1..Len(attempts')
                                           /\ attempts[w.attempt].url => attempts'[w.attempt].url
  BY <1>1 DEF Grows, QuotesGrow, AttemptsGrow
<1>4. Held(w.quote) => Held(w.quote)'
  BY GrowsKeepsHeld
<1> QED BY <1>2, <1>3, <1>4 DEF Fits, Grows, FormGrows, PartyGrows

(* The requests stay in order when one moves on to what fits it.             *)
LEMMA MoveType ==
  ASSUME RowsOK, RowsOK', RequestsOK, Grows, NEW t \in Tabs, NEW s \in Steps, NEW w \in Request, NEW h,
         Moves(t, s, w, h), Fits(s, w)', h # 0 => Held(h)'
  PROVE  RequestsOK'
<1>1. step' \in [Tabs -> Steps] /\ req' \in [Tabs -> Request]
  BY DEF RequestsOK, Moves
<1>2. held' \in [Tabs -> 0..Len(quotes')]
  <2>1. 0..Len(quotes) \subseteq 0..Len(quotes')
    BY Lengths, LenProperties DEF Grows, QuotesGrow, RowsOK, QuotesOK
  <2>2. h \in 0..Len(quotes')
    BY <2>1, Lengths DEF Held
  <2> QED BY <2>1, <2>2 DEF RequestsOK, Moves
<1>3. ASSUME NEW u \in Tabs PROVE Fits(step[u], req[u])' /\ (held'[u] # 0 => Held(held[u])')
  <2>1. CASE u = t
    <3>1. step'[u] = s /\ req'[u] = w /\ held'[u] = h
      BY <2>1 DEF RequestsOK, Moves
    <3> QED BY <3>1 DEF Fits, Held
  <2>2. CASE u # t
    <3>1. PICK w1 \in Request : w1 = req[u]
      BY DEF RequestsOK
    <3>2. PICK s1 : s1 = step[u]
      OBVIOUS
    <3>3. PICK h1 : h1 = held[u]
      OBVIOUS
    <3>4. step'[u] = s1 /\ req'[u] = w1 /\ held'[u] = h1
      BY <2>2, <3>1, <3>2, <3>3 DEF RequestsOK, Moves
    <3>5. Fits(s1, w1) /\ (h1 # 0 => Held(h1))
      BY <3>1, <3>2, <3>3 DEF RequestsOK
    <3>6. Fits(s1, w1)' /\ (h1 # 0 => Held(h1)')
      BY <3>5, GrowsKeepsFits, GrowsKeepsHeld
    <3> QED BY <3>4, <3>6 DEF Fits, Held
  <2> QED BY <2>1, <2>2
<1> QED BY <1>1, <1>2, <1>3 DEF RequestsOK

(* Nothing of the requests changes.                                          *)
LEMMA StillType ==
  ASSUME RowsOK, RowsOK', RequestsOK, Grows, UNCHANGED requestVars
  PROVE  RequestsOK'
<1>1. held' \in [Tabs -> 0..Len(quotes')]
  <2>1. 0..Len(quotes) \subseteq 0..Len(quotes')
    BY Lengths, LenProperties DEF Grows, QuotesGrow, RowsOK, QuotesOK
  <2> QED BY <2>1 DEF RequestsOK, requestVars
<1>2. ASSUME NEW u \in Tabs PROVE Fits(step[u], req[u])' /\ (held'[u] # 0 => Held(held[u])')
  <2>1. PICK w1 \in Request : w1 = req[u]
    BY DEF RequestsOK
  <2>2. PICK s1 : s1 = step[u]
    OBVIOUS
  <2>3. PICK h1 : h1 = held[u]
    OBVIOUS
  <2>4. step'[u] = s1 /\ req'[u] = w1 /\ held'[u] = h1
    BY <2>1, <2>2, <2>3 DEF requestVars
  <2>5. Fits(s1, w1) /\ (h1 # 0 => Held(h1))
    BY <2>1, <2>2, <2>3 DEF RequestsOK
  <2>6. Fits(s1, w1)' /\ (h1 # 0 => Held(h1)')
    BY <2>5, GrowsKeepsFits, GrowsKeepsHeld
  <2> QED BY <2>4, <2>6 DEF Fits, Held
<1> QED BY <1>1, <1>2 DEF RequestsOK, requestVars

(* The quote a tab holds is still the order's.                               *)
LEMMA HeldStays ==
  ASSUME RowsOK, RowsOK', RequestsOK, Grows, NEW t \in Tabs, NEW h, h = held[t], h # 0
  PROVE  Held(h)'
<1>1. Held(h) BY DEF RequestsOK
<1> QED BY <1>1, GrowsKeepsHeld

(* A tab without a request relies on nothing.                                *)
LEMMA IdleFits ==
  ASSUME CheckoutAssumption, RowsOK'
  PROVE  NoRequest \in Request /\ Fits("idle", NoRequest)'
<1>1. NoRequest \in Request
  BY DEF CheckoutAssumption, NoRequest, Request, Stages
<1>2. Len(quotes') \in Nat /\ Len(attempts') \in Nat
  BY LenProperties DEF RowsOK, QuotesOK, AttemptsOK
<1>3. NoRequest.quote = 0 /\ NoRequest.attempt = 0
  BY DEF NoRequest
<1> QED BY <1>1, <1>2, <1>3 DEF Fits

(* The request goes on with its next statement.                              *)
LEMMA GoType ==
  ASSUME RowsOK, RowsOK', RequestsOK, Grows, NEW t \in Tabs, NEW n \in Steps,
         NEW w \in Request, w = req[t], Fits(n, w)', Go(t, n)
  PROVE  RequestsOK'
<1>1. PICK h : h = held[t]
  OBVIOUS
<1>2. h # 0 => Held(h)'
  BY <1>1, HeldStays
<1>3. Moves(t, n, w, h)
  BY <1>1 DEF Go, Moves, RequestsOK
<1> QED BY <1>2, <1>3, MoveType

(* The request ends with nothing the tab keeps.                              *)
LEMMA EndType ==
  ASSUME CheckoutAssumption, RowsOK, RowsOK', RequestsOK, Grows, NEW t \in Tabs,
         step' = [step EXCEPT ![t] = "idle"],
         req' = [req EXCEPT ![t] = NoRequest], held' = held
  PROVE  RequestsOK'
<1>1. PICK h : h = held[t]
  OBVIOUS
<1>2. h # 0 => Held(h)'
  BY <1>1, HeldStays
<1>3. Moves(t, "idle", NoRequest, h)
  BY <1>1 DEF Moves, RequestsOK
<1> QED BY <1>2, <1>3, MoveType, IdleFits DEF Steps

(* The answer hands the tab a quote of the order, or is lost.                *)
LEMMA AnswerType ==
  ASSUME CheckoutAssumption, RowsOK, RowsOK', RequestsOK, Grows, NEW t \in Tabs, NEW q, Held(q)', Answer(t, q)
  PROVE  RequestsOK'
<1>1. CASE held' = held
  BY <1>1, EndType DEF Answer
<1>2. CASE held' = [held EXCEPT ![t] = q]
  <2>1. Moves(t, "idle", NoRequest, q)
    BY <1>2 DEF Answer, Moves
  <2> QED BY <2>1, MoveType, IdleFits DEF Steps
<1> QED BY <1>1, <1>2 DEF Answer

(* No more losses than the bound.                                            *)
LEMMA AnswerLosses ==
  ASSUME CheckoutAssumption, RowsOK, NEW t, NEW q, Answer(t, q)
  PROVE  losses' \in 0..MaxLosses
BY DEF CheckoutAssumption, RowsOK, LossesOK, Answer
-----------------------------------------------------------------------------
(* What a request only reads stays.                                          *)
LEMMA Untouched ==
  ASSUME IInv, UNCHANGED <<orderVars, quotes, partyVars, attempts>>, losses' \in 0..MaxLosses
  PROVE  RowsOK' /\ StateInv' /\ Grows
<1> USE DEF orderVars, partyVars
<1>1. Grows
  BY Lengths DEF IInv, Grows, QuotesGrow, AttemptsGrow, PartyGrows, FormGrows
<1>2. RowsOK'
  BY DEF IInv, RowsOK, FormOK, QuotesOK, PartyOK, AttemptsOK, LossesOK
<1>3. StateInv'
  BY DEF IInv, StateInv, PriceInv, Priced, OrderInv, Ordered, PartyInv, Sent, StartedIsPayable
<1> QED BY <1>1, <1>2, <1>3

(* A new quote, at its price, goes after the others.                         *)
LEMMA QuoteAdded ==
  ASSUME CheckoutAssumption, IInv, Len(quotes) < MaxQuotes, NEW x \in Quote, Priced(x),
         quotes' = Append(quotes, x), UNCHANGED <<orderVars, partyVars, attempts>>,
         losses' \in 0..MaxLosses
  PROVE  /\ RowsOK' /\ StateInv' /\ Grows
         /\ Len(quotes') = Len(quotes) + 1 /\ quotes'[Len(quotes) + 1] = x
<1> USE DEF orderVars, partyVars
<1>1. /\ quotes \in Seq(Quote) /\ Len(quotes) \in Nat
      /\ quotes' \in Seq(Quote) /\ Len(quotes') = Len(quotes) + 1
      /\ \A q \in 1..Len(quotes) : quotes'[q] = quotes[q]
      /\ quotes'[Len(quotes) + 1] = x
  BY AppendProperties, LenProperties DEF IInv, RowsOK, QuotesOK
<1>2. Grows
  BY <1>1, Lengths DEF IInv, Grows, QuotesGrow, AttemptsGrow, PartyGrows, FormGrows
<1>3. RowsOK'
  <2>1. QuotesOK'
    BY <1>1 DEF CheckoutAssumption, QuotesOK
  <2> QED BY <2>1 DEF IInv, RowsOK, FormOK, PartyOK, AttemptsOK, LossesOK
<1>4. StateInv'
  <2>1. PriceInv'
    <3>1. ASSUME NEW q \in 1..Len(quotes') PROVE Priced(quotes'[q])
      <4>1. q \in 1..Len(quotes) \/ q = Len(quotes) + 1
        BY <1>1
      <4>2. CASE q = Len(quotes) + 1
        BY <4>2, <1>1
      <4>3. CASE q \in 1..Len(quotes)
        BY <4>3, <1>1 DEF IInv, StateInv, PriceInv
      <4> QED BY <4>1, <4>2, <4>3
    <3> QED BY <3>1 DEF PriceInv, Priced
  <2>2. OrderInv'
    BY <1>1, Lengths DEF IInv, StateInv, OrderInv, Ordered
  <2>3. PartyInv' /\ StartedIsPayable'
    BY DEF IInv, StateInv, PartyInv, Sent, StartedIsPayable
  <2> QED BY <2>1, <2>2, <2>3 DEF StateInv
<1> QED BY <1>1, <1>2, <1>3, <1>4

(* The stage and the selection move on together.                             *)
LEMMA FormMoves ==
  ASSUME IInv, UNCHANGED <<quotes, partyVars, attempts>>, losses' \in 0..MaxLosses,
         FormOK', FormGrows, StartedIsPayable'
  PROVE  RowsOK' /\ StateInv' /\ Grows
<1> USE DEF partyVars
<1>1. Grows
  BY Lengths DEF IInv, Grows, QuotesGrow, AttemptsGrow, PartyGrows
<1>2. RowsOK'
  BY DEF IInv, RowsOK, QuotesOK, PartyOK, AttemptsOK, LossesOK
<1>3. PriceInv' /\ PartyInv'
  BY DEF IInv, StateInv, PriceInv, Priced, PartyInv, Sent
<1>4. OrderInv'
  BY DEF IInv, StateInv, OrderInv, Ordered, FormGrows
<1> QED BY <1>1, <1>2, <1>3, <1>4 DEF StateInv

(* The contact and the address change before an attempt may be charged.      *)
LEMMA PartyMoves ==
  ASSUME IInv, UNCHANGED <<orderVars, quotes, attempts>>, losses' \in 0..MaxLosses,
         PartyOK', PartyGrows,
         email # None /\ address # None => ~Frozen \/ UNCHANGED partyVars
  PROVE  RowsOK' /\ StateInv' /\ Grows
<1> USE DEF orderVars, partyVars
<1>1. Grows
  BY Lengths DEF IInv, Grows, QuotesGrow, AttemptsGrow, FormGrows
<1>2. RowsOK'
  BY DEF IInv, RowsOK, FormOK, QuotesOK, AttemptsOK, LossesOK
<1>3. PriceInv' /\ OrderInv' /\ StartedIsPayable'
  BY DEF IInv, StateInv, PriceInv, Priced, OrderInv, Ordered, StartedIsPayable
<1>4. PartyInv'
  <2>1. ASSUME NEW a \in 1..Len(attempts), NEW x, x = attempts[a] PROVE Sent(x)'
    <3>1. Sent(x)
      BY <2>1 DEF IInv, StateInv, PartyInv
    <3>2. x.status = "FAILED" \/ UNCHANGED partyVars
      BY <2>1, <3>1 DEF Sent, Frozen
    <3> QED BY <3>1, <3>2 DEF Sent, PartyGrows
  <2> QED BY <2>1 DEF PartyInv
<1> QED BY <1>1, <1>2, <1>3, <1>4 DEF StateInv

(* The attempts grow, and all are of the order and of its party.             *)
LEMMA AttemptsMove ==
  ASSUME IInv, UNCHANGED <<orderVars, quotes, partyVars>>, losses' \in 0..MaxLosses,
         AttemptsOK', AttemptsGrow, OrderInv', PartyInv'
  PROVE  RowsOK' /\ StateInv' /\ Grows
<1> USE DEF orderVars, partyVars
<1>1. Grows
  BY Lengths DEF IInv, Grows, QuotesGrow, PartyGrows, FormGrows
<1>2. RowsOK'
  BY DEF IInv, RowsOK, FormOK, QuotesOK, PartyOK, LossesOK
<1>3. PriceInv'
  BY DEF IInv, StateInv, PriceInv, Priced
<1>4. StartedIsPayable'
  <2>1. Len(attempts) \in Nat /\ Len(attempts') \in Nat
    BY Lengths, LenProperties DEF IInv, AttemptsOK
  <2> QED BY <2>1 DEF IInv, StateInv, StartedIsPayable, AttemptsGrow
<1> QED BY <1>1, <1>2, <1>3, <1>4 DEF StateInv

(* A new attempt for a quote of the order.                                   *)
LEMMA AttemptAdded ==
  ASSUME CheckoutAssumption, IInv, Len(attempts) < MaxAttempts, NEW x \in Attempt,
         Ordered(x), Sent(x), attempts' = Append(attempts, x),
         UNCHANGED <<orderVars, quotes, partyVars>>, losses' \in 0..MaxLosses
  PROVE  RowsOK' /\ StateInv' /\ Grows /\ Len(attempts') = Len(attempts) + 1
<1>1. /\ attempts' \in Seq(Attempt) /\ Len(attempts) \in Nat
      /\ Len(attempts') = Len(attempts) + 1
      /\ \A a \in 1..Len(attempts) : attempts'[a] = attempts[a]
      /\ attempts'[Len(attempts) + 1] = x
  BY AppendProperties, LenProperties DEF IInv, RowsOK, AttemptsOK
<1>2. AttemptsOK' /\ AttemptsGrow
  BY <1>1 DEF CheckoutAssumption, AttemptsOK, AttemptsGrow
<1>3. ASSUME NEW a \in 1..Len(attempts'), NEW y, y = attempts'[a] PROVE Ordered(y)' /\ Sent(y)'
  <2>1. Ordered(y) /\ Sent(y)
    <3>1. a \in 1..Len(attempts) \/ a = Len(attempts) + 1
      BY <1>1
    <3> QED BY <1>1, <1>3, <3>1 DEF IInv, StateInv, OrderInv, PartyInv
  <2> QED BY <2>1 DEF Ordered, Sent, orderVars, partyVars
<1>4. OrderInv' /\ PartyInv'
  BY <1>3 DEF OrderInv, PartyInv
<1> QED BY <1>1, <1>2, <1>4, AttemptsMove

(* An attempt's status moves, and its page is never lost.                    *)
LEMMA AttemptChanged ==
  ASSUME IInv, NEW a \in 1..Len(attempts), NEW x \in Attempt,
         Ordered(x), Sent(x), attempts[a].url => x.url, attempts' = [attempts EXCEPT ![a] = x],
         UNCHANGED <<orderVars, quotes, partyVars>>, losses' \in 0..MaxLosses
  PROVE  RowsOK' /\ StateInv' /\ Grows /\ Len(attempts') = Len(attempts) /\ attempts'[a] = x
<1>1. /\ attempts' \in Seq(Attempt) /\ Len(attempts) \in Nat
      /\ Len(attempts') = Len(attempts) /\ attempts'[a] = x
      /\ \A b \in 1..Len(attempts) : b # a => attempts'[b] = attempts[b]
  BY ExceptSeq, LenProperties DEF IInv, RowsOK, AttemptsOK
<1>2. AttemptsOK' /\ AttemptsGrow
  BY <1>1 DEF IInv, RowsOK, AttemptsOK, AttemptsGrow
<1>3. ASSUME NEW b \in 1..Len(attempts'), NEW y, y = attempts'[b] PROVE Ordered(y)' /\ Sent(y)'
  <2>1. Ordered(y) /\ Sent(y)
    BY <1>1, <1>3 DEF IInv, StateInv, OrderInv, PartyInv
  <2> QED BY <2>1 DEF Ordered, Sent, orderVars, partyVars
<1>4. OrderInv' /\ PartyInv'
  BY <1>3 DEF OrderInv, PartyInv
<1> QED BY <1>1, <1>2, <1>4, AttemptsMove

-----------------------------------------------------------------------------
(* A request arrives with what its first statement relies on.                *)
LEMMA AskKeeps ==
  ASSUME CheckoutAssumption, IInv, NEW t \in Tabs, NEW stages, NEW n \in Steps,
         NEW w \in Request, Fits(n, w), Ask(t, stages, n, w)
  PROVE  IInv' /\ Grows
<1>1. RowsOK' /\ StateInv' /\ Grows
  BY Untouched DEF Ask, IInv, RowsOK, LossesOK
<1>2. PICK h : h = held[t]
  OBVIOUS
<1>3. h # 0 => Held(h)'
  BY <1>1, <1>2, HeldStays DEF IInv
<1>4. Moves(t, n, w, h)
  BY <1>2 DEF Ask, Moves, IInv, RequestsOK
<1>5. Fits(n, w)'
  BY <1>1, GrowsKeepsFits DEF IInv
<1> QED BY <1>1, <1>3, <1>4, <1>5, MoveType DEF IInv

(* A choice is all that the first statement of the form needs.               *)
LEMMA ChooseFits ==
  ASSUME CheckoutAssumption, RowsOK,
         NEW c \in Objects \cup Sizes \cup Colours \cup Addresses \cup Codes
  PROVE  /\ Choose(c) \in Request /\ Choose(c).choice = c
         /\ Choose(c).quote = 0 /\ Choose(c).attempt = 0
<1>1. NoRequest \in Request
  BY DEF CheckoutAssumption, NoRequest, Request, Stages
<1> QED BY <1>1 DEF Choose, NoRequest, Request

(* The physical form: the object, the size, the base.                        *)
LEMMA AskFormKeeps ==
  ASSUME CheckoutAssumption, IInv, NEW t \in Tabs, AskObject(t) \/ AskSize(t) \/ AskBase(t)
  PROVE  IInv' /\ Grows
<1> USE Lengths DEF IInv
<1>1. CASE AskObject(t)
  <2>1. PICK o \in Objects : Ask(t, {"PROFILE_COMPLETE"}, "object", Choose(o))
    BY <1>1 DEF AskObject
  <2>2. Choose(o) \in Request /\ Fits("object", Choose(o))
    BY ChooseFits DEF Fits
  <2> QED BY <2>1, <2>2, AskKeeps DEF Steps
<1>2. CASE AskSize(t)
  <2>1. PICK z \in Sizes : Ask(t, {"OBJECT_SELECTED"}, "size", Choose(z))
    BY <1>2 DEF AskSize
  <2>2. Choose(z) \in Request /\ Fits("size", Choose(z))
    BY ChooseFits DEF Fits
  <2> QED BY <2>1, <2>2, AskKeeps DEF Steps
<1>3. CASE AskBase(t)
  <2>1. PICK c \in Colours : Ask(t, {"SIZE_CONFIRMED"}, "quote", Choose(c))
    BY <1>3 DEF AskBase
  <2>2. stage \in Sized
    BY <2>1 DEF Ask, Sized
  <2>3. Choose(c) \in Request /\ Fits("quote", Choose(c))
    BY <2>2, ChooseFits DEF Fits
  <2> QED BY <2>1, <2>3, AskKeeps DEF Steps
<1> QED BY <1>1, <1>2, <1>3

(* The object claims its stage.                                              *)
LEMMA WriteObjectKeeps ==
  ASSUME CheckoutAssumption, IInv, NEW t \in Tabs, WriteObject(t)
  PROVE  IInv' /\ Grows
<1>1. Fits(step[t], req[t])
  BY DEF IInv, RequestsOK
<1>2. req[t].choice \in Objects
  BY <1>1 DEF WriteObject, Fits
<1>3. FormOK' /\ FormGrows /\ StartedIsPayable'
  BY <1>2 DEF WriteObject, Advances, IInv, RowsOK, FormOK, FormGrows, StateInv, StartedIsPayable,
              Stages, Sized, Ready
<1>4. RowsOK' /\ StateInv' /\ Grows
  BY <1>3, FormMoves DEF WriteObject, End, IInv, RowsOK, LossesOK
<1> QED BY <1>4, EndType DEF WriteObject, End, IInv

(* The size claims its stage.                                                *)
LEMMA WriteSizeKeeps ==
  ASSUME CheckoutAssumption, IInv, NEW t \in Tabs, WriteSize(t)
  PROVE  IInv' /\ Grows
<1>1. Fits(step[t], req[t])
  BY DEF IInv, RequestsOK
<1>2. req[t].choice \in Sizes
  BY <1>1 DEF WriteSize, Fits
<1>3. FormOK' /\ FormGrows /\ StartedIsPayable'
  <2>1. PICK z \in Sizes : z = req[t].choice
    BY <1>2
  <2>2. [selection EXCEPT ![2] = z] = <<selection[1], z, selection[3]>>
    BY DEF IInv, RowsOK, FormOK
  <2> QED
    BY <2>1, <2>2 DEF WriteSize, Advances, IInv, RowsOK, FormOK, FormGrows, StateInv,
                      StartedIsPayable, Stages, Sized, Ready
<1>4. RowsOK' /\ StateInv' /\ Grows
  BY <1>3, FormMoves DEF WriteSize, End, IInv, RowsOK, LossesOK
<1> QED BY <1>4, EndType DEF WriteSize, End, IInv

(* A plain quote has its variant's price.                                    *)
LEMMA PlainPriced ==
  ASSUME CheckoutAssumption, RowsOK, Len(quotes) < MaxQuotes, NEW v \in Variants,
         NEW x, x = PlainQuote(v)
  PROVE  x \in Quote /\ Priced(x) /\ x.variant = v
<1>1. Price[v] \in Nat /\ Price[v] > 0
  BY DEF CheckoutAssumption
<1>2. Len(quotes) + 1 \in 1..MaxQuotes
  BY Lengths DEF CheckoutAssumption
<1> QED BY <1>1, <1>2 DEF PlainQuote, Quote, Priced

(* The base's quote is written before the base is.                           *)
LEMMA InsertBaseQuoteKeeps ==
  ASSUME CheckoutAssumption, IInv, NEW t \in Tabs, InsertBaseQuote(t)
  PROVE  IInv' /\ Grows
<1>1. PICK w \in Request : w = req[t]
  BY DEF IInv, RequestsOK
<1>2. w.choice \in Colours /\ stage \in Sized /\ w.attempt \in 0..Len(attempts)
  BY <1>1 DEF InsertBaseQuote, IInv, RequestsOK, Fits
<1>3. PICK v : v = <<selection[1], selection[2], w.choice>>
  OBVIOUS
<1>4. v \in Variants
  BY <1>2, <1>3 DEF IInv, RowsOK, FormOK, Variants, Sized
<1>5. PICK x : x = PlainQuote(v)
  OBVIOUS
<1>6. x \in Quote /\ Priced(x) /\ x.variant = v
  BY <1>4, <1>5, PlainPriced DEF IInv, InsertBaseQuote
<1>7. /\ RowsOK' /\ StateInv' /\ Grows
      /\ Len(quotes') = Len(quotes) + 1 /\ quotes'[Len(quotes) + 1] = x
  BY <1>1, <1>3, <1>5, <1>6, QuoteAdded DEF InsertBaseQuote, IInv, RowsOK, LossesOK
<1>8. PICK w1 : w1 = [w EXCEPT !.quote = Len(quotes) + 1]
  OBVIOUS
<1>9. w1 \in Request /\ Fits("base", w1)'
  <2>1. Len(quotes) + 1 \in 0..MaxQuotes
    BY Lengths DEF CheckoutAssumption, InsertBaseQuote, IInv
  <2>2. /\ w1 \in Request /\ w1.quote = Len(quotes) + 1
        /\ w1.choice = w.choice /\ w1.attempt = w.attempt
    BY <1>8, <2>1 DEF Request
  <2> QED BY <1>2, <1>3, <1>6, <1>7, <2>2, Lengths DEF Fits, InsertBaseQuote, orderVars, IInv
<1>10. PICK h : h = held[t]
  OBVIOUS
<1>11. h # 0 => Held(h)'
  BY <1>7, <1>10, HeldStays DEF IInv
<1>12. Moves(t, "base", w1, h)
  BY <1>1, <1>8, <1>10 DEF InsertBaseQuote, Moves, IInv, RequestsOK
<1> QED BY <1>7, <1>9, <1>11, <1>12, MoveType DEF IInv, Steps

(* The base claims its stage, with the variant of its quote.                 *)
LEMMA ConfirmBaseKeeps ==
  ASSUME CheckoutAssumption, IInv, NEW t \in Tabs, ConfirmBase(t)
  PROVE  IInv' /\ Grows
<1>1. PICK w \in Request : w = req[t]
  BY DEF IInv, RequestsOK
<1>2. /\ w.choice \in Colours /\ stage \in Sized /\ w.quote \in 1..Len(quotes)
      /\ quotes[w.quote].variant = <<selection[1], selection[2], w.choice>>
  BY <1>1 DEF ConfirmBase, IInv, RequestsOK, Fits
<1>3. [selection EXCEPT ![3] = w.choice] = <<selection[1], selection[2], w.choice>>
  BY DEF IInv, RowsOK, FormOK
<1>4. FormOK' /\ FormGrows /\ StartedIsPayable'
  BY <1>1, <1>2, <1>3 DEF ConfirmBase, Advances, IInv, RowsOK, FormOK, FormGrows, StateInv,
                           StartedIsPayable, Stages, Sized, Ready
<1>5. losses' \in 0..MaxLosses
  BY AnswerLosses DEF ConfirmBase, End, IInv, RowsOK, LossesOK
<1>6. RowsOK' /\ StateInv' /\ Grows
  BY <1>4, <1>5, FormMoves DEF ConfirmBase
<1>7. CASE End(t)
  BY <1>6, <1>7, EndType DEF End, IInv
<1>8. CASE ~End(t)
  <2>1. PICK q : q = w.quote
    OBVIOUS
  <2>2. Answer(t, q) /\ stage' = "COMMITMENT_READY" /\ selection' = <<selection[1], selection[2], w.choice>>
    BY <1>1, <1>3, <1>8, <2>1 DEF ConfirmBase, Advances
  <2>3. Held(q)'
    BY <1>2, <2>1, <2>2 DEF Held, Ready, ConfirmBase
  <2> QED BY <1>6, <2>2, <2>3, AnswerType DEF IInv
<1> QED BY <1>7, <1>8

-----------------------------------------------------------------------------
(* Reload hands out the latest quote, if it is the order's, or a new one.    *)
LEMMA ResumeKeeps ==
  ASSUME CheckoutAssumption, IInv, NEW t \in Tabs, Resume(t)
  PROVE  IInv' /\ Grows
<1>1. CASE AskResume(t)
  <2>1. Ask(t, {"COMMITMENT_READY"}, "latest", NoRequest)
    BY <1>1 DEF AskResume
  <2>2. stage \in Ready
    BY <2>1 DEF Ask, Ready
  <2>3. NoRequest \in Request /\ NoRequest.quote = 0 /\ NoRequest.attempt = 0
    BY DEF CheckoutAssumption, NoRequest, Request, Stages
  <2>4. Fits("latest", NoRequest)
    BY <2>2, <2>3, Lengths DEF Fits, IInv
  <2> QED BY <2>1, <2>3, <2>4, AskKeeps DEF Steps
<1>2. CASE ReadLatest(t)
  <2>1. stage \in Ready
    BY <1>2 DEF ReadLatest, IInv, RequestsOK, Fits
  <2>2. losses' \in 0..MaxLosses
    BY <1>2, AnswerLosses DEF ReadLatest, Go, IInv, RowsOK, LossesOK
  <2>3. RowsOK' /\ StateInv' /\ Grows
    BY <1>2, <2>2, Untouched DEF ReadLatest
  <2>4. CASE Current(Latest) /\ Answer(t, Latest)
    <3>1. PICK q : q = Latest
      OBVIOUS
    <3>2. Held(q)
      BY <2>1, <2>4, <3>1, Lengths DEF Current, CurrentIfLive, CurrentIfSame, Latest, Held, IInv
    <3> QED BY <2>3, <2>4, <3>1, <3>2, AnswerType, GrowsKeepsHeld DEF IInv
  <2>5. CASE Go(t, "restore")
    <3>1. PICK w \in Request : w = req[t]
      BY DEF IInv, RequestsOK
    <3>2. Fits("restore", w)
      BY <1>2, <2>1, <3>1 DEF ReadLatest, IInv, RequestsOK, Fits
    <3>3. Fits("restore", w)'
      BY <2>3, <3>2, GrowsKeepsFits DEF IInv
    <3> QED BY <2>3, <2>5, <3>1, <3>3, GoType DEF IInv, Steps
  <2> QED BY <1>2, <2>4, <2>5 DEF ReadLatest
<1>3. CASE RestoreQuote(t)
  <2>1. stage \in Ready
    BY <1>3 DEF RestoreQuote, IInv, RequestsOK, Fits
  <2>2. PICK v : v = selection
    OBVIOUS
  <2>3. v \in Variants
    BY <2>1, <2>2 DEF IInv, RowsOK, FormOK, Variants, Ready, Sized
  <2>4. PICK x : x = PlainQuote(v)
    OBVIOUS
  <2>5. x \in Quote /\ Priced(x) /\ x.variant = v
    BY <1>3, <2>3, <2>4, PlainPriced DEF IInv, RestoreQuote
  <2>6. PICK q : q = Len(quotes) + 1
    OBVIOUS
  <2>7. Answer(t, q) /\ losses' \in 0..MaxLosses
    BY <1>3, <2>6, AnswerLosses DEF RestoreQuote, IInv
  <2>8. /\ RowsOK' /\ StateInv' /\ Grows
        /\ Len(quotes') = Len(quotes) + 1 /\ quotes'[q] = x
    BY <1>3, <2>2, <2>4, <2>5, <2>6, <2>7, QuoteAdded DEF RestoreQuote
  <2>9. Held(q)'
    BY <1>3, <2>1, <2>2, <2>5, <2>6, <2>8, Lengths DEF Held, RestoreQuote, orderVars, IInv
  <2> QED BY <2>7, <2>8, <2>9, AnswerType DEF IInv
<1> QED BY <1>1, <1>2, <1>3 DEF Resume

(* The contact and the address.                                              *)
LEMMA PartyKeeps ==
  ASSUME CheckoutAssumption, IInv, NEW t \in Tabs, Party(t)
  PROVE  IInv' /\ Grows
<1>1. CASE VerifyContact(t)
  <2>1. PartyOK' /\ PartyGrows /\ losses' \in 0..MaxLosses
    BY <1>1 DEF VerifyContact, CheckoutAssumption, IInv, RowsOK, PartyOK, PartyGrows, LossesOK
  <2>2. RowsOK' /\ StateInv' /\ Grows
    BY <1>1, <2>1, PartyMoves DEF VerifyContact
  <2> QED BY <1>1, <2>2, StillType DEF VerifyContact, IInv
<1>2. CASE AskShipping(t)
  <2>1. PICK a \in Addresses : Ask(t, {"COMMITMENT_READY"}, "ship", Choose(a))
    BY <1>2 DEF AskShipping
  <2>2. Choose(a) \in Request /\ Fits("ship", Choose(a))
    BY ChooseFits, Lengths DEF Fits, IInv
  <2> QED BY <2>1, <2>2, AskKeeps DEF Steps
<1>3. CASE WriteShipping(t)
  <2>1. req[t].choice \in Addresses
    BY <1>3 DEF WriteShipping, IInv, RequestsOK, Fits
  <2>2. PartyOK' /\ PartyGrows
    BY <1>3, <2>1 DEF WriteShipping, CheckoutAssumption, IInv, RowsOK, PartyOK, PartyGrows
  <2>3. losses' \in 0..MaxLosses
    BY <1>3 DEF WriteShipping, End, IInv, RowsOK, LossesOK
  <2>4. email # None /\ address # None => ~Frozen \/ UNCHANGED partyVars
    BY <1>3 DEF WriteShipping, partyVars
  <2>5. RowsOK' /\ StateInv' /\ Grows
    BY <1>3, <2>2, <2>3, <2>4, PartyMoves DEF WriteShipping
  <2> QED BY <1>3, <2>5, EndType DEF WriteShipping, End, IInv
<1> QED BY <1>1, <1>2, <1>3 DEF Party

(* The discount leaves a price above zero.                                   *)
LEMMA DiscountLeaves ==
  ASSUME CheckoutAssumption, NEW gross \in Nat \ {0}, NEW code \in Codes
  PROVE  DiscountFor(gross, code) \in Nat /\ DiscountFor(gross, code) < gross
<1>1. Terms[code].value \in Nat
  BY DEF CheckoutAssumption
<1>2. PICK n \in Nat : n = gross * Terms[code].value
  BY <1>1
<1>3. n \div 10000 \in Nat
  OBVIOUS
<1>4. DiscountUncapped(gross, code) \in Nat
  BY <1>1, <1>2, <1>3 DEF DiscountUncapped
<1> QED BY <1>4 DEF DiscountFor

(* A replaced quote takes one code's discount off the variant's price.       *)
LEMMA ReplacementPriced ==
  ASSUME CheckoutAssumption, IInv, NEW q \in 1..Len(quotes), NEW c \in Codes,
         NEW x, x = Replacement(q, c)
  PROVE  x \in Quote /\ Priced(x) /\ x.variant = quotes[q].variant
<1>1. PICK y \in Quote : y = quotes[q]
  BY ElementOfSeq DEF IInv, RowsOK, QuotesOK
<1>2. y.gross = Price[y.variant] /\ y.gross \in Nat \ {0}
  BY <1>1 DEF IInv, StateInv, PriceInv, Priced, CheckoutAssumption, Quote
<1>3. PICK d \in Nat : d = DiscountFor(y.gross, c) /\ d < y.gross
  BY <1>2, DiscountLeaves
<1>4. y.gross - d \in Nat /\ y.gross - d > 0
  BY <1>2, <1>3
<1>5. x = [y EXCEPT !.code = c, !.gross = y.gross, !.amount = y.gross - d]
  BY <1>1, <1>3 DEF Replacement, CurrentGross
<1>6. /\ x.variant = y.variant /\ x.code = c /\ x.gross = y.gross /\ x.amount = y.gross - d
      /\ x.hour = y.hour /\ x.live = y.live
      /\ x = [variant |-> y.variant, gross |-> y.gross, amount |-> y.gross - d, code |-> c,
              hour |-> y.hour, live |-> y.live]
  BY <1>5 DEF Quote
<1>7. x \in Quote
  BY <1>4, <1>6 DEF Quote
<1>8. c # None
  BY DEF CheckoutAssumption
<1> QED BY <1>1, <1>2, <1>3, <1>4, <1>6, <1>7, <1>8 DEF Priced

(* The referral code.                                                        *)
LEMMA ApplyKeeps ==
  ASSUME CheckoutAssumption, IInv, NEW t \in Tabs, Apply(t)
  PROVE  IInv' /\ Grows
<1>0. PICK w \in Request : w = req[t]
  BY DEF IInv, RequestsOK
<1>1. CASE AskApply(t)
  <2>1. PICK c \in Codes :
          Ask(t, {"COMMITMENT_READY"}, "compare", [NoRequest EXCEPT !.choice = c, !.quote = held[t]])
    BY <1>1 DEF AskApply
  <2>2. PICK h \in 0..MaxQuotes : h = held[t] /\ Held(h)
    BY <1>1, Lengths DEF AskApply, IInv, RowsOK, QuotesOK, RequestsOK, CheckoutAssumption
  <2>3. PICK z : z = [NoRequest EXCEPT !.choice = c]
    OBVIOUS
  <2>4. PICK v : v = [z EXCEPT !.quote = h]
    OBVIOUS
  <2>5. v = [NoRequest EXCEPT !.choice = c, !.quote = held[t]]
    BY <2>2, <2>3, <2>4
  <2>6. z \in Request /\ z.choice = c /\ z.attempt = 0
    BY <2>3 DEF NoRequest, Request, Stages, CheckoutAssumption
  <2>7. v \in Request /\ v.choice = c /\ v.quote = h /\ v.attempt = 0
    BY <2>2, <2>4, <2>6 DEF Request
  <2>8. Fits("compare", v)
    BY <2>2, <2>7, Lengths DEF Fits, IInv, Held
  <2> QED BY <2>1, <2>5, <2>7, <2>8, AskKeeps DEF Steps
<1>2. CASE Compare(t) \/ Discount(t)
  <2>1. losses' \in 0..MaxLosses /\ UNCHANGED <<orderVars, quotes, partyVars, attempts>>
    BY <1>2 DEF Compare, Discount, Go, End, IInv, RowsOK, LossesOK
  <2>2. RowsOK' /\ StateInv' /\ Grows
    BY <2>1, Untouched
  <2>3. CASE End(t)
    BY <2>2, <2>3, EndType DEF End, IInv
  <2>4. CASE ~End(t)
    <3>1. PICK n \in {"discount", "replace"} : Go(t, n)
      BY <1>2, <2>4 DEF Compare, Discount
    <3>2. Fits(n, w)
      BY <1>0, <1>2, <3>1 DEF Compare, Discount, IInv, RequestsOK, Fits
    <3>3. Fits(n, w)'
      BY <2>2, <3>2, GrowsKeepsFits DEF IInv
    <3> QED BY <1>0, <2>2, <3>1, <3>3, GoType DEF IInv, Steps
  <2> QED BY <2>3, <2>4
<1>3. CASE Replace(t)
  <2>1. w.choice \in Codes /\ Held(w.quote)
    BY <1>0, <1>3 DEF Replace, IInv, RequestsOK, Fits
  <2>2. PICK x : x = Replacement(w.quote, w.choice)
    OBVIOUS
  <2>3. x \in Quote /\ Priced(x) /\ x.variant = selection /\ stage \in Ready
    BY <2>1, <2>2, ReplacementPriced DEF Held
  <2>4. PICK q : q = Len(quotes) + 1
    OBVIOUS
  <2>5. Answer(t, q) /\ losses' \in 0..MaxLosses
    BY <1>3, <2>4, AnswerLosses DEF Replace, IInv
  <2>6. /\ RowsOK' /\ StateInv' /\ Grows
        /\ Len(quotes') = Len(quotes) + 1 /\ quotes'[q] = x
    BY <1>0, <1>3, <2>2, <2>3, <2>4, <2>5, QuoteAdded DEF Replace
  <2>7. Held(q)'
    BY <1>3, <2>3, <2>4, <2>6, Lengths DEF Held, Replace, orderVars, IInv
  <2> QED BY <2>5, <2>6, <2>7, AnswerType DEF IInv
<1> QED BY <1>1, <1>2, <1>3 DEF Apply

-----------------------------------------------------------------------------
(* The page of an attempt is handed out, having moved the stage first.       *)
LEMMA RedirectedType ==
  ASSUME CheckoutAssumption, RowsOK, RowsOK', RequestsOK, Grows, NEW t \in Tabs,
         NEW a \in 1..Len(attempts), attempts[a].url, ReturnRedirected(t, a)
  PROVE  RequestsOK'
<1>1. CASE End(t)
  BY <1>1, EndType DEF End
<1>2. CASE ~End(t)
  <2>1. PICK w \in Request : w = req[t]
    BY DEF RequestsOK
  <2>2. PICK v : v = [w EXCEPT !.attempt = a]
    OBVIOUS
  <2>3. a \in 0..MaxAttempts
    BY Lengths DEF RowsOK, AttemptsOK, CheckoutAssumption
  <2>4. v \in Request /\ v.quote = w.quote /\ v.attempt = a
    BY <2>2, <2>3 DEF Request
  <2>5. Fits("advance", v)
    BY <2>1, <2>4, Lengths DEF RequestsOK, Fits
  <2>6. Fits("advance", v)'
    BY <2>4, <2>5, GrowsKeepsFits
  <2>7. PICK h : h = held[t]
    OBVIOUS
  <2>8. h # 0 => Held(h)'
    BY <2>7, HeldStays
  <2>9. Moves(t, "advance", v, h)
    BY <1>2, <2>1, <2>2, <2>7 DEF ReturnRedirected, Moves, RequestsOK
  <2> QED BY <2>4, <2>6, <2>8, <2>9, MoveType DEF Steps
<1> QED BY <1>1, <1>2

(* The start asks, looks, and finds an attempt to reuse or makes one.        *)
LEMMA AskPayKeeps ==
  ASSUME CheckoutAssumption, IInv, NEW t \in Tabs, AskPay(t)
  PROVE  IInv' /\ Grows
<1>1. PICK v : v = [NoRequest EXCEPT !.quote = held[t], !.stage = stage]
  OBVIOUS
<1>2. PICK h \in 0..MaxQuotes : h = held[t] /\ Held(h)
  BY Lengths DEF AskPay, IInv, RowsOK, QuotesOK, RequestsOK, CheckoutAssumption
<1>3. PICK g \in Stages : g = stage
  BY DEF IInv, RowsOK, FormOK
<1>4. v = [choice |-> None, quote |-> h, stage |-> g, attempt |-> 0]
  BY <1>1, <1>2, <1>3 DEF NoRequest
<1>5. v \in Request /\ v.quote = h /\ v.attempt = 0
  BY <1>4 DEF Request, CheckoutAssumption
<1>6. Fits("check", v)
  BY <1>2, <1>5, Lengths DEF Fits, IInv, Held
<1> QED BY <1>1, <1>5, <1>6, AskKeeps DEF AskPay, Steps

(* The check and the look for an attempt.                                    *)
LEMMA LookKeeps ==
  ASSUME CheckoutAssumption, IInv, NEW t \in Tabs, Check(t) \/ FindReusable(t)
  PROVE  IInv' /\ Grows
<1>1. PICK w \in Request : w = req[t]
  BY DEF IInv, RequestsOK
<1>2. losses' \in 0..MaxLosses /\ UNCHANGED <<orderVars, quotes, partyVars, attempts>>
  BY DEF Check, FindReusable, ReturnRedirected, Go, End, IInv, RowsOK, LossesOK
<1>3. RowsOK' /\ StateInv' /\ Grows
  BY <1>2, Untouched
<1>4. CASE End(t)
  BY <1>3, <1>4, EndType DEF End, IInv
<1>5. CASE \E n \in {"reusable", "create"} : Go(t, n)
  <2>1. PICK n \in {"reusable", "create"} : Go(t, n)
    BY <1>5
  <2>2. Fits(n, w)
    <3>1. Fits(step[t], w)
      BY <1>1 DEF IInv, RequestsOK
    <3>2. CASE Check(t)
      <4>1. Payable(w.quote) \/ End(t)
        BY <1>1, <3>2 DEF Check
      <4>2. CASE Payable(w.quote)
        BY <2>1, <3>1, <3>2, <4>2 DEF Check, Payable, Fits
      <4>3. CASE End(t)
        <5>1. step'[t] = "idle" /\ step'[t] = n
          BY <2>1, <4>3 DEF End, Go, IInv, RequestsOK
        <5> QED BY <2>1, <5>1
      <4> QED BY <4>1, <4>2, <4>3
    <3>3. CASE FindReusable(t)
      BY <2>1, <3>1, <3>3 DEF FindReusable, Fits
    <3> QED BY <3>2, <3>3
  <2>3. Fits(n, w)'
    BY <1>3, <2>2, GrowsKeepsFits DEF IInv
  <2> QED BY <1>1, <1>3, <2>1, <2>3, GoType DEF IInv, Steps
<1>6. CASE \E a \in ActiveFor(w.quote) : attempts[a].status = "REDIRECTED" /\ ReturnRedirected(t, a)
  <2>1. PICK a \in 1..Len(attempts) : attempts[a].status = "REDIRECTED" /\ ReturnRedirected(t, a)
    BY <1>6 DEF ActiveFor
  <2>2. attempts[a].url
    BY <2>1 DEF IInv, StateInv, PartyInv, Sent
  <2> QED BY <1>3, <2>1, <2>2, RedirectedType DEF IInv
<1> QED BY <1>1, <1>4, <1>5, <1>6 DEF Check, FindReusable

(* A new attempt charges the quote, to the party of the moment.              *)
LEMMA CreateAttemptKeeps ==
  ASSUME CheckoutAssumption, IInv, NEW t \in Tabs, CreateAttempt(t)
  PROVE  IInv' /\ Grows
<1>1. PICK w \in Request : w = req[t]
  BY DEF IInv, RequestsOK
<1>2. /\ Held(w.quote) /\ email # None /\ address # None
      /\ w.quote \in 0..Len(quotes) /\ w.attempt \in 0..Len(attempts)
  BY <1>1 DEF CreateAttempt, IInv, RequestsOK, Fits
<1>3. losses' \in 0..MaxLosses
  BY DEF CreateAttempt, ReturnRedirected, End, IInv, RowsOK, LossesOK
<1>4. CASE UNCHANGED attempts
  <2>1. RowsOK' /\ StateInv' /\ Grows
    BY <1>3, <1>4, Untouched DEF CreateAttempt
  <2>2. CASE End(t)
    BY <2>1, <2>2, EndType DEF End, IInv
  <2>3. CASE \E a \in ActiveFor(w.quote) : HasUrl(a) /\ ReturnRedirected(t, a)
    <3>1. PICK a \in 1..Len(attempts) : attempts[a].url /\ ReturnRedirected(t, a)
      BY <2>3 DEF ActiveFor, HasUrl
    <3> QED BY <2>1, <3>1, RedirectedType DEF IInv
  <2>4. attempts' # Append(attempts, NewAttempt(w.quote))
    <3>1. PICK x : x = NewAttempt(w.quote)
      OBVIOUS
    <3>2. attempts \in Seq(Attempt \cup {x}) /\ x \in Attempt \cup {x}
      BY SeqMonotonic DEF IInv, RowsOK, AttemptsOK
    <3>3. Len(Append(attempts, x)) = Len(attempts) + 1 /\ Len(attempts) \in Nat
      BY <3>2, AppendProperties, Lengths DEF IInv
    <3>4. Append(attempts, x) # attempts
      BY <3>3
    <3> QED BY <1>4, <3>1, <3>4
  <2> QED BY <1>1, <2>2, <2>3, <2>4 DEF CreateAttempt
<1>5. CASE /\ attempts' = Append(attempts, NewAttempt(w.quote))
           /\ Len(attempts) < MaxAttempts
           /\ step' = [step EXCEPT ![t] = "gateway"]
           /\ req' = [req EXCEPT ![t].attempt = Len(attempts) + 1]
           /\ UNCHANGED <<held, losses>>
  <2>1. PICK y \in Quote : y = quotes[w.quote]
    BY <1>2, ElementOfSeq DEF Held, IInv, RowsOK, QuotesOK
  <2>2. PICK x : x = NewAttempt(w.quote)
    OBVIOUS
  <2>3. w.quote \in 1..MaxQuotes
    BY <1>2, Lengths DEF Held, IInv, RowsOK, QuotesOK, CheckoutAssumption
  <2>4. /\ x \in Attempt /\ x.quote = w.quote /\ x.amount = y.amount /\ x.status = "CREATED"
        /\ x.address = address /\ x.email = email
    BY <1>2, <2>1, <2>2, <2>3 DEF NewAttempt, Attempt, Statuses, Quote, IInv, RowsOK, PartyOK
  <2>5. Ordered(x) /\ Sent(x)
    BY <1>2, <2>1, <2>4 DEF Ordered, Sent, Held
  <2>6. RowsOK' /\ StateInv' /\ Grows /\ Len(attempts') = Len(attempts) + 1
    BY <1>3, <1>5, <2>2, <2>4, <2>5, AttemptAdded DEF CreateAttempt
  <2>7. PICK v : v = [w EXCEPT !.attempt = Len(attempts) + 1]
    OBVIOUS
  <2>8. Len(attempts) + 1 \in 0..MaxAttempts /\ Len(attempts) \in Nat
    BY <1>5, Lengths DEF IInv, CheckoutAssumption
  <2>9. v \in Request /\ v.quote = w.quote /\ v.attempt = Len(attempts) + 1
    BY <2>7, <2>8 DEF Request
  <2>10. Fits("gateway", v)'
    <3>1. quotes' = quotes
      BY DEF CreateAttempt
    <3> QED BY <1>2, <2>6, <2>8, <2>9, <3>1 DEF Fits
  <2>11. PICK h : h = held[t]
    OBVIOUS
  <2>12. h # 0 => Held(h)'
    BY <2>6, <2>11, HeldStays DEF IInv
  <2>13. Moves(t, "gateway", v, h)
    BY <1>1, <1>5, <2>7, <2>11 DEF Moves, IInv, RequestsOK
  <2> QED BY <2>6, <2>9, <2>10, <2>12, <2>13, MoveType DEF IInv, Steps
<1> QED BY <1>1, <1>4, <1>5 DEF CreateAttempt

(* The gateway's answer, and its failure, which fails the attempt.           *)
LEMMA CallGatewayKeeps ==
  ASSUME CheckoutAssumption, IInv, NEW t \in Tabs, CallGateway(t)
  PROVE  IInv' /\ Grows
<1>1. PICK w \in Request : w = req[t]
  BY DEF IInv, RequestsOK
<1>2. w.attempt \in 1..Len(attempts) /\ w.quote \in 0..Len(quotes)
  BY <1>1 DEF CallGateway, IInv, RequestsOK, Fits
<1>3. losses' \in 0..MaxLosses
  BY DEF CallGateway, Go, CheckoutAssumption, IInv, RowsOK, LossesOK
<1>4. CASE Go(t, "attach") /\ UNCHANGED attempts
  <2>1. RowsOK' /\ StateInv' /\ Grows
    BY <1>3, <1>4, Untouched DEF CallGateway
  <2>2. Fits("attach", w)
    BY <1>2, Lengths DEF Fits, IInv
  <2>3. Fits("attach", w)'
    BY <2>1, <2>2, GrowsKeepsFits DEF IInv
  <2> QED BY <1>1, <1>4, <2>1, <2>3, GoType DEF IInv, Steps
<1>5. CASE /\ attempts' = [attempts EXCEPT ![w.attempt].status = "FAILED"]
           /\ step' = [step EXCEPT ![t] = "idle"]
           /\ req' = [req EXCEPT ![t] = NoRequest]
           /\ UNCHANGED held
  <2>1. PICK y \in Attempt : y = attempts[w.attempt]
    BY <1>2, ElementOfSeq DEF IInv, RowsOK, AttemptsOK
  <2>2. Ordered(y) /\ Sent(y)
    BY <1>2, <2>1 DEF IInv, StateInv, OrderInv, PartyInv
  <2>3. PICK x : x = [y EXCEPT !.status = "FAILED"]
    OBVIOUS
  <2>4. /\ x \in Attempt /\ x.quote = y.quote /\ x.amount = y.amount /\ x.url = y.url
        /\ x.status = "FAILED"
    BY <2>3 DEF Attempt, Statuses
  <2>5. Ordered(x) /\ Sent(x)
    BY <2>2, <2>4 DEF Ordered, Sent
  <2>6. attempts' = [attempts EXCEPT ![w.attempt] = x]
    BY <1>5, <2>1, <2>3
  <2>7. RowsOK' /\ StateInv' /\ Grows
    BY <1>2, <1>3, <2>1, <2>4, <2>5, <2>6, AttemptChanged DEF CallGateway
  <2> QED BY <1>5, <2>7, EndType DEF IInv
<1> QED BY <1>1, <1>4, <1>5 DEF CallGateway

(* The attempt gets its page.                                                *)
LEMMA AttachProviderKeeps ==
  ASSUME CheckoutAssumption, IInv, NEW t \in Tabs, AttachProvider(t)
  PROVE  IInv' /\ Grows
<1>1. PICK w \in Request : w = req[t]
  BY DEF IInv, RequestsOK
<1>2. w.attempt \in 1..Len(attempts) /\ w.quote \in 0..Len(quotes)
  BY <1>1 DEF AttachProvider, IInv, RequestsOK, Fits
<1>3. losses' \in 0..MaxLosses
  BY DEF AttachProvider, Go, End, IInv, RowsOK, LossesOK
<1>4. CASE End(t) /\ UNCHANGED attempts
  <2>1. RowsOK' /\ StateInv' /\ Grows
    BY <1>3, <1>4, Untouched DEF AttachProvider
  <2> QED BY <1>4, <2>1, EndType DEF End, IInv
<1>5. CASE /\ attempts[w.attempt].status = "CREATED"
           /\ attempts' = [attempts EXCEPT ![w.attempt].status = "REDIRECTED",
                                           ![w.attempt].url = TRUE]
           /\ Go(t, "advance")
  <2>1. PICK y \in Attempt : y = attempts[w.attempt]
    BY <1>2, ElementOfSeq DEF IInv, RowsOK, AttemptsOK
  <2>2. Ordered(y) /\ Sent(y) /\ y.status = "CREATED"
    BY <1>2, <1>5, <2>1 DEF IInv, StateInv, OrderInv, PartyInv
  <2>3. PICK y1 : y1 = [y EXCEPT !.status = "REDIRECTED"]
    OBVIOUS
  <2>4. PICK x : x = [y1 EXCEPT !.url = TRUE]
    OBVIOUS
  <2>5. /\ y1 \in Attempt /\ y1.quote = y.quote /\ y1.amount = y.amount
        /\ y1.status = "REDIRECTED" /\ y1.address = y.address /\ y1.email = y.email
    BY <2>3 DEF Attempt, Statuses
  <2>6. /\ x \in Attempt /\ x.quote = y.quote /\ x.amount = y.amount /\ x.url = TRUE
        /\ x.status = "REDIRECTED" /\ x.address = y.address /\ x.email = y.email
    BY <2>4, <2>5 DEF Attempt
  <2>7. Ordered(x) /\ Sent(x)
    BY <2>2, <2>6 DEF Ordered, Sent
  <2>8. attempts' = [attempts EXCEPT ![w.attempt] = x]
    BY <1>2, <1>5, <2>1, <2>3, <2>4, Lengths, LenProperties DEF IInv, RowsOK, AttemptsOK
  <2>9. RowsOK' /\ StateInv' /\ Grows /\ Len(attempts') = Len(attempts) /\ attempts'[w.attempt] = x
    BY <1>2, <1>3, <2>6, <2>7, <2>8, AttemptChanged DEF AttachProvider
  <2>10. Fits("advance", w)'
    <3>1. quotes' = quotes
      BY DEF AttachProvider
    <3> QED BY <1>2, <2>6, <2>9, <3>1, Lengths DEF Fits, IInv
  <2> QED BY <1>1, <1>5, <2>9, <2>10, GoType DEF IInv, Steps
<1> QED BY <1>1, <1>4, <1>5 DEF AttachProvider

(* The checkout has started when an attempt has its page.                    *)
LEMMA AdvanceKeeps ==
  ASSUME CheckoutAssumption, IInv, NEW t \in Tabs, Advance(t)
  PROVE  IInv' /\ Grows
<1>1. PICK a \in 1..Len(attempts) : attempts[a].url
  BY DEF Advance, IInv, RequestsOK, Fits
<1>2. FormOK' /\ FormGrows /\ StartedIsPayable'
  BY <1>1 DEF Advance, Advances, IInv, RowsOK, FormOK, FormGrows, StartedIsPayable,
              Stages, Sized, Ready
<1>3. RowsOK' /\ StateInv' /\ Grows
  BY <1>2, FormMoves DEF Advance, End, IInv, RowsOK, LossesOK
<1> QED BY <1>3, EndType DEF Advance, End, IInv

(* A request dies.                                                           *)
LEMMA DieKeeps ==
  ASSUME CheckoutAssumption, IInv, NEW t \in Tabs, Die(t)
  PROVE  IInv' /\ Grows
<1>1. losses' \in 0..MaxLosses
  BY DEF Die, CheckoutAssumption, IInv, RowsOK, LossesOK
<1>2. RowsOK' /\ StateInv' /\ Grows
  BY <1>1, Untouched DEF Die
<1> QED BY <1>2, EndType DEF Die, IInv

(* An attempt is paid or declined.                                           *)
LEMMA SettleKeeps ==
  ASSUME CheckoutAssumption, IInv, Settle
  PROVE  IInv' /\ Grows
<1>1. PICK a \in 1..Len(attempts), r \in {"PAID", "FAILED"} :
        attempts[a].status = "REDIRECTED" /\ attempts' = [attempts EXCEPT ![a].status = r]
  BY DEF Settle
<1>2. PICK y \in Attempt : y = attempts[a]
  BY ElementOfSeq DEF IInv, RowsOK, AttemptsOK
<1>3. Ordered(y) /\ Sent(y) /\ y.status = "REDIRECTED"
  BY <1>1, <1>2 DEF IInv, StateInv, OrderInv, PartyInv
<1>4. PICK x : x = [y EXCEPT !.status = r]
  OBVIOUS
<1>5. /\ x \in Attempt /\ x.quote = y.quote /\ x.amount = y.amount /\ x.url = y.url
      /\ x.status = r /\ x.address = y.address /\ x.email = y.email
  BY <1>4 DEF Attempt, Statuses
<1>6. Ordered(x) /\ Sent(x)
  BY <1>3, <1>5 DEF Ordered, Sent
<1>7. attempts' = [attempts EXCEPT ![a] = x]
  BY <1>1, <1>2, <1>4
<1>8. losses' \in 0..MaxLosses
  BY DEF Settle, IInv, RowsOK, LossesOK
<1>9. RowsOK' /\ StateInv' /\ Grows
  BY <1>2, <1>5, <1>6, <1>7, <1>8, AttemptChanged DEF Settle
<1> QED BY <1>9, StillType DEF Settle, IInv

(* An hour runs out: quotes lose nothing but that.                           *)
LEMMA ExpireQuoteKeeps ==
  ASSUME CheckoutAssumption, IInv, ExpireQuote
  PROVE  IInv' /\ Grows
<1> USE DEF orderVars, partyVars
<1>1. PICK g : quotes' = [q \in 1..Len(quotes) |->
                 IF quotes[q].hour = g THEN [quotes[q] EXCEPT !.live = FALSE] ELSE quotes[q]]
  BY DEF ExpireQuote
<1>2. Len(quotes) \in Nat /\ quotes \in Seq(Quote) /\ Len(quotes) <= MaxQuotes
  BY Lengths DEF IInv, RowsOK, QuotesOK
<1>3. ASSUME NEW q \in 1..Len(quotes)
      PROVE  /\ quotes'[q] \in Quote /\ quotes'[q].variant = quotes[q].variant
             /\ quotes'[q].gross = quotes[q].gross /\ quotes'[q].amount = quotes[q].amount
             /\ quotes'[q].code = quotes[q].code
  <2>1. PICK y \in Quote : y = quotes[q]
    BY <1>2, ElementOfSeq
  <2>2. quotes'[q] = y \/ quotes'[q] = [y EXCEPT !.live = FALSE]
    BY <1>1, <2>1
  <2> QED BY <2>1, <2>2 DEF Quote
<1>4. quotes' \in Seq(Quote) /\ Len(quotes') = Len(quotes)
  <2>1. quotes' \in [1..Len(quotes) -> Quote]
    BY <1>1, <1>3
  <2> QED BY <1>2, <2>1, SeqDef, LenProperties
<1>5. Grows
  BY <1>2, <1>3, <1>4, Lengths DEF ExpireQuote, IInv, Grows, QuotesGrow, AttemptsGrow, PartyGrows, FormGrows
<1>6. RowsOK'
  BY <1>2, <1>4 DEF ExpireQuote, IInv, RowsOK, FormOK, QuotesOK, PartyOK, AttemptsOK, LossesOK
<1>7. StateInv'
  <2>1. PriceInv'
    BY <1>3, <1>4 DEF IInv, StateInv, PriceInv, Priced
  <2>2. OrderInv'
    BY <1>3, <1>4 DEF ExpireQuote, IInv, StateInv, OrderInv, Ordered
  <2>3. PartyInv' /\ StartedIsPayable'
    BY DEF ExpireQuote, IInv, StateInv, PartyInv, Sent, StartedIsPayable
  <2> QED BY <2>1, <2>2, <2>3 DEF StateInv
<1> QED BY <1>5, <1>6, <1>7, StillType DEF ExpireQuote, IInv

(* The session ends, or the catalogue withdraws a variant.                   *)
LEMMA EndingKeeps ==
  ASSUME CheckoutAssumption, IInv, ExpireSession \/ Withdraw
  PROVE  IInv' /\ Grows
<1>1. FormOK' /\ FormGrows /\ StartedIsPayable' /\ losses' \in 0..MaxLosses
  BY DEF ExpireSession, Withdraw, IInv, RowsOK, FormOK, LossesOK, FormGrows, StateInv, StartedIsPayable
<1>2. RowsOK' /\ StateInv' /\ Grows
  BY <1>1, FormMoves DEF ExpireSession, Withdraw
<1> QED BY <1>2, StillType DEF ExpireSession, Withdraw, IInv

(* The invariant holds at first.                                             *)
LEMMA InitIInv ==
  ASSUME CheckoutAssumption, Init
  PROVE  IInv
<1>1. RowsOK
  <2>1. FormOK
    BY DEF Init, FormOK, Stages, Sized, Ready
  <2>2. QuotesOK /\ AttemptsOK
    BY EmptySeq DEF CheckoutAssumption, Init, QuotesOK, AttemptsOK
  <2>3. PartyOK /\ LossesOK
    BY DEF CheckoutAssumption, Init, PartyOK, LossesOK
  <2> QED BY <2>1, <2>2, <2>3 DEF RowsOK
<1>2. Len(quotes) = 0 /\ Len(attempts) = 0
  BY EmptySeq DEF Init
<1>3. RequestsOK
  <2>1. NoRequest \in Request /\ NoRequest.quote = 0 /\ NoRequest.attempt = 0
    BY DEF CheckoutAssumption, NoRequest, Request, Stages
  <2> QED BY <1>2, <2>1 DEF Init, RequestsOK, Steps, Fits
<1>4. StateInv
  BY <1>2 DEF Init, StateInv, PriceInv, OrderInv, PartyInv, StartedIsPayable
<1> QED BY <1>1, <1>3, <1>4 DEF IInv

(* And every step keeps it.                                                  *)
LEMMA NextIInv ==
  ASSUME CheckoutAssumption, IInv, [Next]_vars
  PROVE  IInv' /\ Grows
<1>1. CASE UNCHANGED vars
  <2>1. RowsOK' /\ StateInv' /\ Grows
    BY <1>1, Untouched DEF vars, IInv, RowsOK, LossesOK
  <2> QED BY <1>1, <2>1, StillType DEF vars, IInv
<1>2. ASSUME NEW t \in Tabs, Form(t) \/ Resume(t) \/ Party(t) \/ Apply(t) \/ Start(t) \/ Die(t)
      PROVE  IInv' /\ Grows
  <2>1. CASE Form(t)
    BY <2>1, AskFormKeeps, WriteObjectKeeps, WriteSizeKeeps, InsertBaseQuoteKeeps, ConfirmBaseKeeps
       DEF Form
  <2>2. CASE Start(t)
    BY <2>2, AskPayKeeps, LookKeeps, CreateAttemptKeeps, CallGatewayKeeps, AttachProviderKeeps,
       AdvanceKeeps DEF Start
  <2> QED BY <1>2, <2>1, <2>2, ResumeKeeps, PartyKeeps, ApplyKeeps, DieKeeps
<1>3. CASE Settle \/ ExpireQuote \/ ExpireSession \/ Withdraw
  BY <1>3, SettleKeeps, ExpireQuoteKeeps, EndingKeeps
<1> QED BY <1>1, <1>2, <1>3 DEF Next

-----------------------------------------------------------------------------
(* The requests on the way never hold more than the rows can give them.      *)
THEOREM Invariant == ASSUME CheckoutAssumption PROVE Spec => []IInv
<1>1. Init => IInv
  BY InitIInv
<1>2. IInv /\ [Next]_vars => IInv'
  BY NextIInv
<1> QED BY <1>1, <1>2, PTL DEF Spec

(* The rows are of their types, and whatever names a row names one that is   *)
(* there.                                                                    *)
THEOREM TypeCorrect == ASSUME CheckoutAssumption PROVE Spec => []CheckoutTypeOK
<1>1. IInv => CheckoutTypeOK
  BY DEF IInv, RowsOK, FormOK, QuotesOK, PartyOK, AttemptsOK, LossesOK, RequestsOK, Fits,
         StateInv, OrderInv, Ordered, CheckoutTypeOK
<1> QED BY <1>1, Invariant, PTL

(* Whatever the tabs do, an attempt charges the object, size and base that   *)
(* were chosen, at the price of its quote; a quote takes at most one code's  *)
(* discount off the variant's price; and a started checkout can be paid.     *)
THEOREM OrderIsCharged == ASSUME CheckoutAssumption PROVE Spec => []ChargedAsOrdered
<1>1. IInv => ChargedAsOrdered
  BY DEF IInv, StateInv, OrderInv, Ordered, PriceInv, Priced, AttemptIsTheOrder, DiscountIsOneCode,
         ChargedAsOrdered
<1> QED BY <1>1, Invariant, PTL

(* The contact and the address an attempt was made with are the order's,     *)
(* as long as the attempt may be or was charged.                             *)
THEOREM PartyIsKept == ASSUME CheckoutAssumption PROVE Spec => []OrderKeepsAddressAndEmail
<1>1. IInv => OrderKeepsAddressAndEmail
  BY DEF IInv, StateInv, PartyInv, Sent, OrderKeepsAddressAndEmail
<1> QED BY <1>1, Invariant, PTL

(* Once the base is confirmed the selection stays, and so do the prices and  *)
(* variants of the quotes, the pages of the attempts and the contact.        *)
THEOREM OrderOnlyGrows == ASSUME CheckoutAssumption PROVE Spec => [][Grows]_vars
<1>1. IInv /\ [Next]_vars => [Grows]_vars
  BY NextIInv
<1> QED BY <1>1, Invariant, PTL DEF Spec
=============================================================================
