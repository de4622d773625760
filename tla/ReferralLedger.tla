--------------------------- MODULE ReferralLedger --------------------------
(***************************************************************************)
(* The creators' ledger: creators and the versions of their rules, the     *)
(* codes customers bring to a sale, the reward each paid sale earns, and   *)
(* the payouts the owner requests and settles.                             *)
(*                                                                         *)
(* An owner's request is a handler of the server.  A statement that reads  *)
(* a snapshot and then waits for a row or a unique key is two steps: other *)
(* statements run between them.  PaymentIssue has the detail of when a     *)
(* sale converts and is reversed; here each is one step of its surroundings. *)
(* The audit rows an owner's request leaves behind are not modelled: it      *)
(* writes one after its change, and nothing here reads them.                 *)
(***************************************************************************)
EXTENDS NoValue, Integers, Sequences, FiniteSets, Functions

CONSTANTS
  Creators,
  Codes,
  Rules,        \* the rules an owner may choose: [discount, reward, threshold], amounts
                \* of Amount below, a threshold of 0 for monthly payouts
  Sales,        \* payment attempts
  Price,        \* what a sale costs before a discount
  Owners,       \* requests of the owner that may run at once
  MaxVersions,  \* bound on the versions of one creator's rules
  MaxPayouts    \* bound on payouts

(* What the values of the constants must satisfy. *)
LedgerAssumption ==
  /\ Price \in Nat /\ MaxVersions \in Nat /\ MaxPayouts \in Nat
  /\ LET Value == [mode : {"PERCENT", "FIXED"}, value : Nat \ {0}] IN
     Rules \subseteq [discount : Value, reward : Value, threshold : Nat]
  /\ None \notin Creators \cup Codes

VARIABLES
  creators,  \* referral_creators with their referral_rule_versions, oldest first
  sales,     \* what each sale was quoted, and its row of referral_conversions
  links,     \* the attribution a visitor's cookie holds, of each sale
  payouts,   \* referral_payout_requests, in order
  alloc,     \* referral_payout_allocations: the payout of each sale, 0 for none
  step,      \* the next statement of each owner's request
  req        \* what the request works on

tables == <<creators, sales, links, payouts, alloc>>
ownerVars == <<step, req>>
vars == <<tables, ownerVars>>

Steps == {"idle", "version", "lock", "commit"}
States == {"none", "quoted", "PENDING", "AVAILABLE", "PAID_OUT", "REVERSED"}

(* A creator without a version does not exist.  promised is history: the     *)
(* reward the rules gave when the sale was quoted.                           *)
NoCreator == [code |-> None, active |-> FALSE, versions |-> <<>>]
NoSale == [creator |-> None, version |-> 0, promised |-> 0, state |-> "none", reward |-> 0]
NoLink == [creator |-> None, version |-> 0]
NoRequest ==
  [creator |-> None, code |-> None, rule |-> None, version |-> 0,
   sales |-> {}, threshold |-> 0]

Version == [rule : Rules, code : Codes]

LedgerTypeOK ==
  /\ \A c \in Creators :
       /\ creators[c].versions \in Seq(Version)
       /\ creators[c].code \in Codes <=> creators[c].versions # <<>>
       /\ creators[c].active => creators[c].versions # <<>>
  /\ \A s \in Sales :
       /\ sales[s].state \in States
       /\ sales[s].state # "none" => sales[s].version \in DOMAIN creators[sales[s].creator].versions
       /\ sales[s].reward > 0 <=> sales[s].state \notin {"none", "quoted"}
  /\ \A p \in 1..Len(payouts) : payouts[p].status \in {"REQUESTED", "PAID"} /\ payouts[p].amount > 0
  /\ alloc \in [Sales -> 0..Len(payouts)]
  /\ step \in [Owners -> Steps]

Init ==
  /\ creators = [c \in Creators |-> NoCreator]
  /\ sales = [s \in Sales |-> NoSale]
  /\ links = [s \in Sales |-> NoLink]
  /\ payouts = <<>>
  /\ alloc = [s \in Sales |-> 0]
  /\ step = [o \in Owners |-> "idle"]
  /\ req = [o \in Owners |-> NoRequest]

-----------------------------------------------------------------------------
(* Rules and amounts.                                                        *)

Latest(c) == Len(creators[c].versions)
RuleOf(c, v) == creators[c].versions[v].rule

Amount(value, base) ==
  IF value.mode = "PERCENT" THEN (base * value.value) \div 10000 ELSE value.value
Discount(rule) == Amount(rule.discount, Price)
Reward(rule) == Amount(rule.reward, Price - Discount(rule))

(* The code's key is unique among all creators, the paused included.         *)
CodeFree(c, code) == \A d \in Creators \ {c} : creators[d].code # code

(* The key (creator_id, version).                                            *)
VersionFree(c, v) == v > Latest(c)

Rewards(S) == SumFunction([s \in S |-> sales[s].reward])

Go(o, next) == step' = [step EXCEPT ![o] = next]
Done(o) == Go(o, "idle") /\ req' = [req EXCEPT ![o] = NoRequest]

(* Rows a payout request has locked: other statements wait for them.         *)
Locked(s) == \E o \in Owners : step[o] = "commit" /\ s \in req[o].sales

-----------------------------------------------------------------------------
(* Creators and rules.                                                       *)

CreateCreator ==
  /\ \E c \in Creators, code \in Codes, rule \in Rules :
       /\ Latest(c) = 0 /\ CodeFree(c, code)
       /\ creators' = [creators EXCEPT ![c] =
            [code |-> code, active |-> TRUE, versions |-> <<[rule |-> rule, code |-> code]>>]]
  /\ UNCHANGED <<sales, links, payouts, alloc, ownerVars>>

(* updateCreator reads the newest version, then waits for the creator's row. *)
UpdateCreator(o) ==
  /\ step[o] = "idle"
  /\ \E c \in Creators, code \in Codes, rule \in Rules :
       /\ Latest(c) \in 1..MaxVersions - 1
       /\ req' = [req EXCEPT ![o] = [NoRequest EXCEPT
            !.creator = c, !.code = code, !.rule = rule, !.version = Latest(c) + 1]]
  /\ Go(o, "version")
  /\ UNCHANGED tables

WriteVersion(o) ==
  LET r == req[o]  c == r.creator IN
  /\ step[o] = "version"
  /\ IF VersionFree(c, r.version) /\ CodeFree(c, r.code)
     THEN creators' = [creators EXCEPT
            ![c].code = r.code,
            ![c].versions = Append(@, [rule |-> r.rule, code |-> r.code])]
     ELSE UNCHANGED creators
  /\ Done(o)
  /\ UNCHANGED <<sales, links, payouts, alloc>>

SetCreatorActive ==
  /\ \E c \in Creators, active \in BOOLEAN :
       /\ Latest(c) > 0
       /\ creators' = [creators EXCEPT ![c].active = active]
  /\ UNCHANGED <<sales, links, payouts, alloc, ownerVars>>

-----------------------------------------------------------------------------
(* Payouts.                                                                  *)

Eligible(c) == {s \in Sales : sales[s].creator = c /\ sales[s].state = "AVAILABLE" /\ alloc[s] = 0}

PayoutDue(S, threshold) == Rewards(S) > 0 /\ Rewards(S) >= threshold

(* createPayoutFromAvailable: the snapshot; the rows it could lock, skipping *)
(* those another request has locked; the two inserts, which the key of a     *)
(* sale's allocation refuses if another payout took the sale meanwhile.      *)
RequestPayout(o) ==
  /\ step[o] = "idle"
  /\ \E c \in Creators :
       /\ Eligible(c) # {}
       /\ req' = [req EXCEPT ![o] = [NoRequest EXCEPT
            !.creator = c, !.sales = Eligible(c), !.threshold = RuleOf(c, Latest(c)).threshold]]
  /\ Go(o, "lock")
  /\ UNCHANGED tables

LockRewards(o) ==
  LET took == {s \in req[o].sales : sales[s].state = "AVAILABLE" /\ ~Locked(s)} IN
  /\ step[o] = "lock"
  /\ IF PayoutDue(took, req[o].threshold)
     THEN Go(o, "commit") /\ req' = [req EXCEPT ![o].sales = took]
     ELSE Done(o)
  /\ UNCHANGED tables

AllocatableAny(S) == TRUE
Allocatable(S) == \A s \in S : alloc[s] = 0

CommitPayout(o) ==
  LET took == req[o].sales  p == Len(payouts) + 1 IN
  /\ step[o] = "commit"
  /\ IF Allocatable(took)
     THEN /\ p <= MaxPayouts
          /\ payouts' = Append(payouts,
               [creator |-> req[o].creator, amount |-> Rewards(took), status |-> "REQUESTED"])
          /\ alloc' = [s \in Sales |-> IF s \in took THEN p ELSE alloc[s]]
     ELSE UNCHANGED <<payouts, alloc>>
  /\ Done(o)
  /\ UNCHANGED <<creators, sales, links>>

Allocated(p) == {s \in Sales : alloc[s] = p}

(* settlePayout: all or nothing.                                             *)
Settleable(p) == \A s \in Allocated(p) : sales[s].state = "AVAILABLE"

(* It waits for the rows it locks, and answers a settled payout again.       *)
SettlePayout ==
  /\ \E p \in 1..Len(payouts) :
       /\ \A s \in Allocated(p) : ~Locked(s)
       /\ \/ /\ payouts[p].status = "REQUESTED" /\ Settleable(p)
             /\ payouts' = [payouts EXCEPT ![p].status = "PAID"]
             /\ sales' = [s \in Sales |-> IF s \in Allocated(p) /\ sales[s].state = "AVAILABLE"
                                         THEN [sales[s] EXCEPT !.state = "PAID_OUT"] ELSE sales[s]]
          \/ payouts[p].status = "PAID" /\ UNCHANGED <<payouts, sales>>
  /\ UNCHANGED <<creators, links, alloc, ownerVars>>

-----------------------------------------------------------------------------
(* Sales.                                                                    *)

(* captureLink: the cookie names the version in force.                       *)
Visit(s) ==
  /\ \E c \in Creators :
       creators[c].active /\ links' = [links EXCEPT ![s] = [creator |-> c, version |-> Latest(c)]]
  /\ UNCHANGED <<creators, sales, payouts, alloc, ownerVars>>

(* A typed code gives the newest version, a link the one it was made with;   *)
(* both need an active creator.                                              *)
Offers(s) ==
  {o \in {links[s]} \cup {[creator |-> c, version |-> Latest(c)] : c \in Creators} :
     o.creator # None /\ creators[o.creator].active}

(* applyToQuote: a discount that leaves nothing to pay gives none.           *)
Quote(s) ==
  /\ sales[s].state \in {"none", "quoted"}
  /\ \E o \in Offers(s) :
       LET rule == RuleOf(o.creator, o.version) IN
       /\ Discount(rule) \in 1..Price - 1
       /\ sales' = [sales EXCEPT ![s] =
            [creator |-> o.creator, version |-> o.version, promised |-> Reward(rule),
             state |-> "quoted", reward |-> 0]]
  /\ UNCHANGED <<creators, links, payouts, alloc, ownerVars>>

(* recordPaidAttempt: the rules frozen in the quote.  A reward of nothing is *)
(* an error, and no conversion.                                              *)
FrozenRule(s) == RuleOf(sales[s].creator, sales[s].version)

Convert(s) ==
  /\ sales[s].state = "quoted"
  /\ Reward(FrozenRule(s)) > 0
  /\ sales' = [sales EXCEPT ![s].state = "PENDING", ![s].reward = Reward(FrozenRule(s))]
  /\ UNCHANGED <<creators, links, payouts, alloc, ownerVars>>

MarkAvailable(s) ==
  /\ sales[s].state = "PENDING"
  /\ sales' = [sales EXCEPT ![s].state = "AVAILABLE"]
  /\ UNCHANGED <<creators, links, payouts, alloc, ownerVars>>

Reverse(s) ==
  /\ sales[s].state \in {"PENDING", "AVAILABLE", "PAID_OUT"}
  /\ ~Locked(s)
  /\ sales' = [sales EXCEPT ![s].state = "REVERSED"]
  /\ UNCHANGED <<creators, links, payouts, alloc, ownerVars>>

Next ==
  \/ CreateCreator \/ SetCreatorActive \/ SettlePayout
  \/ \E o \in Owners :
       UpdateCreator(o) \/ WriteVersion(o) \/ RequestPayout(o) \/ LockRewards(o) \/ CommitPayout(o)
  \/ \E s \in Sales : Visit(s) \/ Quote(s) \/ Convert(s) \/ MarkAvailable(s) \/ Reverse(s)

Spec == Init /\ [][Next]_vars

-----------------------------------------------------------------------------
(* Properties.                                                               *)

(* A payout asks for exactly the rewards allocated to it, of one creator;    *)
(* once it is paid, they are paid out or have been refunded since, and no    *)
(* reward is paid out otherwise.                                             *)
PayoutsBalance ==
  /\ \A p \in 1..Len(payouts) :
       /\ payouts[p].amount = Rewards(Allocated(p))
       /\ \A s \in Allocated(p) :
            /\ sales[s].creator = payouts[p].creator
            /\ payouts[p].status = "PAID" => sales[s].state \in {"PAID_OUT", "REVERSED"}
  /\ \A s \in Sales : sales[s].state = "PAID_OUT" =>
       alloc[s] # 0 /\ payouts[alloc[s]].status = "PAID"

(* The step that settles a payout moves rewards worth its amount, none of    *)
(* them reversed: a refund before that keeps the payout from being paid.     *)
PaidIsMoved ==
  \A p \in 1..Len(payouts) :
    payouts[p].status = "REQUESTED" /\ payouts'[p].status = "PAID" =>
      payouts[p].amount =
        Rewards({s \in Sales : sales[s].state = "AVAILABLE" /\ sales'[s].state = "PAID_OUT"})

(* A creator earns what the rules gave when the customer was quoted, however *)
(* the owner changes them before the sale is paid.                           *)
RewardAsQuoted ==
  \A s \in Sales : sales[s].state \notin {"none", "quoted"} => sales[s].reward = sales[s].promised

(* The books at any time, and the step that pays: what a creator is paid is  *)
(* what the rules promised for the sales the payout was requested for.       *)
PayoutsAreExact ==
  [](LedgerTypeOK /\ PayoutsBalance /\ RewardAsQuoted) /\ [][PaidIsMoved]_vars
=============================================================================
